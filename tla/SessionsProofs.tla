---------------------------- MODULE SessionsProofs ----------------------------
(***************************************************************************)
(* Theorems about the tables of process sessions and what is computed from *)
(* them, for any processes, GPUs, histories of bindings and stale time: the *)
(* owner of every instant, the row of every job that a page lists, and     *)
(* what the activity page adds up: segments, cards, days and hours.        *)
(***************************************************************************)
EXTENDS ProcessSessions, SequenceTheorems, FiniteSetTheorems, TLAPS

-----------------------------------------------------------------------------
(* The tables *)

SnapshotRow == [at : Nat, seen : SUBSET Uses]

\* What is read of a row of each table; duration and status apart.
SessionRow(s) ==
    /\ s = [pid |-> s.pid, start |-> s.start, ppid |-> s.ppid,
            parentStart |-> s.parentStart, user |-> s.user, uid |-> s.uid,
            first |-> s.first, last |-> s.last, duration |-> s.duration,
            status |-> s.status, count |-> s.count]
    /\ s.first \in Nat /\ s.last \in Nat /\ s.count \in Nat

UsageRow(r) ==
    /\ r = [first |-> r.first, last |-> r.last, count |-> r.count]
    /\ r.first \in Nat /\ r.last \in Nat /\ r.count \in Nat

\* A row is the summary of these times.
Summarises(row, times) ==
    /\ times \subseteq Nat /\ IsFiniteSet(times)
    /\ row.first \in times /\ row.last \in times
    /\ \A t \in times : row.first <= t /\ t <= row.last
    /\ row.count = Cardinality(times)

\* The queue is in the order of the snapshots' times, which are all different,
\* and what waits in it is later than what was written.
QueueInv ==
    /\ clock \in Nat
    /\ waiting \in Seq(SnapshotRow)
    /\ \A t \in sampled : t \in Nat /\ t <= clock
    /\ \A i \in 1..Len(waiting) : waiting[i].at \in sampled
    /\ \A i, j \in 1..Len(waiting) : i < j => waiting[i].at < waiting[j].at
    /\ observed \subseteq Nat \X {use[1] : use \in Uses} \X Gpus
    /\ \A o \in observed : o[1] \in sampled
    /\ \A o \in observed, i \in 1..Len(waiting) : o[1] < waiting[i].at

SessionsInv ==
    /\ DOMAIN sessions = {SessionId(o[2]) : o \in observed}
    /\ \A id \in DOMAIN sessions :
          /\ SessionRow(sessions[id])
          /\ Summarises(sessions[id], SeenAt(id, Gpus))
          /\ sessions[id].duration = sessions[id].last - sessions[id].first
          /\ sessions[id].status = "ended" => sessions[id].last < clock - Stale

UsagesInv ==
    /\ DOMAIN usages = {<<SessionId(o[2]), o[3]>> : o \in observed}
    /\ \A row \in DOMAIN usages :
          /\ UsageRow(usages[row])
          /\ Summarises(usages[row], SeenAt(row[1], {row[2]}))

TablesInv == QueueInv /\ SessionsInv /\ UsagesInv

LEMMA UseIsPair ==
    ASSUME NEW use \in Uses
    PROVE  use = <<use[1], use[2]>> /\ use[1] \in {v[1] : v \in Uses} /\ use[2] \in Gpus
  BY SessionsAssumption DEF SessionsAssumption

\* The least and the greatest of a set are what a summary has of it.
LEMMA SummaryTells ==
    ASSUME NEW row, NEW times, Summarises(row, times)
    PROVE  TellsOf(row, times)
<1>1. Min(times) = row.first
  <2>1. ASSUME NEW x \in times, \A y \in times : x <= y PROVE x = row.first
    <3>1. /\ x \in Nat /\ row.first \in Nat
          /\ row.first <= x /\ x <= row.first
      BY <2>1 DEF Summarises
    <3> QED BY <3>1
  <2> QED BY <2>1 DEF Min, Summarises
<1>2. Max(times) = row.last
  <2>1. ASSUME NEW x \in times, \A y \in times : x >= y PROVE x = row.last
    <3>1. /\ x \in Nat /\ row.last \in Nat
          /\ x <= row.last /\ x >= row.last
      BY <2>1 DEF Summarises
    <3> QED BY <3>1
  <2> QED BY <2>1 DEF Max, Summarises
<1> QED BY <1>1, <1>2 DEF TellsOf, Summarises

\* A later time makes it the last, and one more; the first time of all is both.
LEMMA SummaryGrows ==
    ASSUME NEW old, NEW new, NEW times, NEW at \in Nat, Summarises(old, times),
           \A t \in times : t < at,
           new.first = old.first, new.last = at, old.count \in Nat,
           new.count = old.count + 1
    PROVE  Summarises(new, times \cup {at})
<1>1. at \notin times
  BY DEF Summarises
<1>2. /\ IsFiniteSet(times \cup {at})
      /\ Cardinality(times \cup {at}) = Cardinality(times) + 1
  BY <1>1, FS_AddElement DEF Summarises
<1>3. \A t \in times \cup {at} : new.first <= t /\ t <= new.last
  <2>1. /\ times \subseteq Nat /\ old.first \in times
        /\ \A t \in times : old.first <= t /\ t < at
    BY DEF Summarises
  <2>2. \A t \in times : t \in Nat /\ new.first <= t /\ t <= new.last
    BY <2>1
  <2>3. new.first <= at /\ at <= new.last
    <3>1. old.first \in Nat /\ old.first < at
      BY <2>1
    <3>2. old.first <= at /\ at <= at
      BY <3>1
    <3> QED BY <3>2
  <2> QED BY <2>2, <2>3
<1> QED BY <1>2, <1>3 DEF Summarises

LEMMA SummaryBegins ==
    ASSUME NEW new, NEW at \in Nat,
           new.first = at, new.last = at, new.count = 1
    PROVE  Summarises(new, {at})
<1>1. IsFiniteSet({at}) /\ Cardinality({at}) = 1
  BY FS_Singleton
<1> QED BY <1>1 DEF Summarises

LEMMA TablesInit == Init => TablesInv
<1> SUFFICES ASSUME Init PROVE TablesInv
  OBVIOUS
<1>1. waiting = <<>> /\ Len(waiting) = 0 /\ observed = {} /\ sampled = {}
  BY DEF Init
<1>2. QueueInv
  <2>1. clock \in Nat
    BY SessionsAssumption DEF SessionsAssumption, Init
  <2>2. waiting \in Seq(SnapshotRow)
    BY <1>1, EmptySeq
  <2> QED BY <1>1, <2>1, <2>2 DEF QueueInv
<1>3. DOMAIN sessions = {} /\ DOMAIN usages = {}
  BY DEF Init
<1> QED BY <1>1, <1>2, <1>3 DEF TablesInv, SessionsInv, UsagesInv

-----------------------------------------------------------------------------
(* The steps *)

\* A snapshot has a time of its own, and comes last in the queue.
LEMMA SampleKeeps ==
    ASSUME TablesInv, NEW seen \in SUBSET Uses, Sample(seen)
    PROVE  TablesInv'
<1> DEFINE row == [at |-> clock, seen |-> seen]
<1>1. /\ waiting' = Append(waiting, row) /\ sampled' = sampled \cup {clock}
      /\ clock \notin sampled /\ UNCHANGED <<clock, sessions, usages, observed>>
  BY DEF Sample
<1>2. /\ clock \in Nat /\ waiting \in Seq(SnapshotRow) /\ row \in SnapshotRow
      /\ Len(waiting) \in Nat
  BY LenProperties DEF TablesInv, QueueInv, SnapshotRow
<1>3. row.at = clock
  OBVIOUS
<1> HIDE DEF row
<1>4. /\ waiting' \in Seq(SnapshotRow) /\ Len(waiting') = Len(waiting) + 1
      /\ \A i \in 1..Len(waiting) : waiting'[i] = waiting[i]
      /\ waiting'[Len(waiting) + 1] = row
  BY <1>1, <1>2, AppendProperties
<1>5. \A t \in sampled : t \in Nat /\ t < clock
  BY <1>1, <1>2 DEF TablesInv, QueueInv
<1>6. \A i \in 1..Len(waiting') : waiting'[i].at \in sampled'
  BY <1>1, <1>2, <1>3, <1>4 DEF TablesInv, QueueInv
<1>7. ASSUME NEW i \in 1..Len(waiting'), NEW j \in 1..Len(waiting'), i < j
      PROVE  waiting'[i].at < waiting'[j].at
  <2>1. i \in 1..Len(waiting) /\ (j \in 1..Len(waiting) \/ j = Len(waiting) + 1)
    BY <1>2, <1>4, <1>7
  <2>2. CASE j \in 1..Len(waiting)
    BY <1>4, <1>7, <2>1, <2>2 DEF TablesInv, QueueInv
  <2>3. CASE j = Len(waiting) + 1
    BY <1>3, <1>4, <1>5, <2>1, <2>3 DEF TablesInv, QueueInv
  <2> QED BY <2>1, <2>2, <2>3
<1>8. ASSUME NEW o \in observed, NEW i \in 1..Len(waiting')
      PROVE  o[1] < waiting'[i].at
  <2>1. i \in 1..Len(waiting) \/ i = Len(waiting) + 1
    BY <1>2, <1>4
  <2>2. CASE i \in 1..Len(waiting)
    BY <1>4, <2>2 DEF TablesInv, QueueInv
  <2>3. CASE i = Len(waiting) + 1
    BY <1>3, <1>4, <1>5, <2>3 DEF TablesInv, QueueInv
  <2> QED BY <2>1, <2>2, <2>3
<1>9. QueueInv'
  <2>1. \A t \in sampled' : t \in Nat /\ t <= clock
    BY <1>1, <1>2, <1>5
  <2> QED BY <1>1, <1>2, <1>4, <1>6, <1>7, <1>8, <2>1 DEF TablesInv, QueueInv
<1>10. SessionsInv' /\ UsagesInv'
  BY <1>1 DEF TablesInv, SessionsInv, UsagesInv, SeenAt
<1> QED BY <1>9, <1>10 DEF TablesInv

\* When a written snapshot shows a session on one of the GPUs, its time is
\* one more at which the session was seen.
LEMMA SeenAfterWrite ==
    ASSUME TablesInv, Write, NEW id, NEW G \in SUBSET Gpus
    PROVE  SeenAt(id, G)' =
             SeenAt(id, G) \cup
               {t \in {Head(waiting).at} :
                  \E use \in Head(waiting).seen : SessionId(use[1]) = id /\ use[2] \in G}
<1> DEFINE at == Head(waiting).at
           seen == Head(waiting).seen
<1>1. observed' = observed \cup {<<at, use[1], use[2]>> : use \in seen}
  BY DEF Write
<1> HIDE DEF at, seen
<1>2. \A use \in seen : /\ <<at, use[1], use[2]>>[1] = at
                        /\ <<at, use[1], use[2]>>[2] = use[1]
                        /\ <<at, use[1], use[2]>>[3] = use[2]
  OBVIOUS
<1>3. SeenAt(id, G)' = {o[1] : o \in {w \in observed' : SessionId(w[2]) = id /\ w[3] \in G}}
  BY DEF SeenAt
<1>4. ASSUME NEW o \in observed', SessionId(o[2]) = id, o[3] \in G
      PROVE  \/ o[1] \in SeenAt(id, G)
             \/ /\ o[1] = at
                /\ \E use \in seen : SessionId(use[1]) = id /\ use[2] \in G
  BY <1>1, <1>2, <1>4 DEF SeenAt
<1>5. SeenAt(id, G) \subseteq SeenAt(id, G)'
  BY <1>1, <1>3 DEF SeenAt
<1>6. ASSUME NEW use \in seen, SessionId(use[1]) = id, use[2] \in G
      PROVE  at \in SeenAt(id, G)'
  <2> DEFINE o == <<at, use[1], use[2]>>
  <2>1. o \in observed' /\ o[1] = at /\ o[2] = use[1] /\ o[3] = use[2]
    BY <1>1, <1>2, <1>6
  <2> HIDE DEF o
  <2> QED BY <1>3, <1>6, <2>1
<1>7. \A t \in SeenAt(id, G)' :
         \/ t \in SeenAt(id, G)
         \/ t = at /\ \E use \in seen : SessionId(use[1]) = id /\ use[2] \in G
  BY <1>3, <1>4
<1> QED BY <1>5, <1>6, <1>7 DEF at, seen

\* What is written is later than all that was.
LEMMA WriteIsLater ==
    ASSUME TablesInv, Write
    PROVE  /\ Head(waiting) \in SnapshotRow
           /\ Head(waiting).at \in Nat /\ Head(waiting).at \in sampled
           /\ Head(waiting).seen \subseteq Uses
           /\ \A o \in observed : o[1] < Head(waiting).at
           /\ \A id, G : \A t \in SeenAt(id, G) : t < Head(waiting).at
           /\ QueueInv'
<1> DEFINE row == Head(waiting)
<1>1. /\ waiting # <<>> /\ waiting' = Tail(waiting)
      /\ UNCHANGED <<clock, sampled>>
      /\ observed' = observed \cup {<<row.at, use[1], use[2]>> : use \in row.seen}
  BY DEF Write
<1>2. QueueInv /\ waiting \in Seq(SnapshotRow)
  BY DEF TablesInv, QueueInv
<1>3. /\ Len(waiting) \in Nat \ {0} /\ row = waiting[1] /\ row \in SnapshotRow
      /\ waiting' \in Seq(SnapshotRow) /\ Len(waiting') = Len(waiting) - 1
      /\ \A i \in 1..Len(waiting') : waiting'[i] = waiting[i + 1]
  BY <1>1, <1>2, HeadTailProperties, LenProperties, EmptySeq
<1> HIDE DEF row
<1>4. 1 \in 1..Len(waiting) /\ \A i \in 1..Len(waiting') : i + 1 \in 1..Len(waiting) /\ 1 < i + 1
  BY <1>3
<1>5. row.at \in Nat /\ row.seen \subseteq Uses /\ row.at \in sampled
  BY <1>2, <1>3, <1>4 DEF QueueInv, SnapshotRow
<1>6. \A o \in observed : o[1] < row.at
  BY <1>2, <1>3, <1>4 DEF QueueInv
<1>7. \A id, G : \A t \in SeenAt(id, G) : t < row.at
  BY <1>6 DEF SeenAt
<1>8. ASSUME NEW o \in observed'
      PROVE  /\ o \in Nat \X {use[1] : use \in Uses} \X Gpus
             /\ o[1] \in sampled
             /\ o[1] = row.at \/ o \in observed
  <2>1. CASE o \in observed
    BY <1>2, <2>1 DEF QueueInv
  <2>2. CASE o \in {<<row.at, use[1], use[2]>> : use \in row.seen}
    <3>1. PICK use \in row.seen : o = <<row.at, use[1], use[2]>>
      BY <2>2
    <3> QED BY <1>5, <3>1, UseIsPair
  <2> QED BY <1>1, <2>1, <2>2
<1>9. QueueInv'
  <2>1. ASSUME NEW i \in 1..Len(waiting'), NEW j \in 1..Len(waiting'), i < j
        PROVE  waiting'[i].at < waiting'[j].at
    <3>1. i + 1 \in 1..Len(waiting) /\ j + 1 \in 1..Len(waiting) /\ i + 1 < j + 1
      BY <1>3, <2>1
    <3> QED BY <1>2, <1>3, <3>1 DEF QueueInv
  <2>2. ASSUME NEW i \in 1..Len(waiting')
        PROVE  /\ waiting'[i].at \in sampled
               /\ row.at < waiting'[i].at
               /\ \A o \in observed : o[1] < waiting'[i].at
    BY <1>2, <1>3, <1>4 DEF QueueInv
  <2>3. \A o \in observed', i \in 1..Len(waiting') : o[1] < waiting'[i].at
    BY <1>8, <2>2
  <2> QED BY <1>1, <1>2, <1>3, <1>8, <2>1, <2>2, <2>3 DEF QueueInv
<1> QED BY <1>3, <1>5, <1>6, <1>7, <1>9 DEF row

LEMMA SeenAgainRow ==
    ASSUME NEW old, SessionRow(old), NEW p, NEW at \in Nat
    PROVE  LET new == SeenAgain(old, p, at)
           IN /\ SessionRow(new)
              /\ new.first = old.first /\ new.last = at
              /\ new.count = old.count + 1
              /\ new.duration = at - old.first
              /\ new.status = "running"
<1> DEFINE a == Else(p.ppid, old.ppid)
           b == Else(p.parentStart, old.parentStart)
           c == Else(p.user, old.user)
           d == Else(p.uid, old.uid)
           new == SeenAgain(old, p, at)
<1> HIDE DEF a, b, c, d
<1>1. new = [old EXCEPT !.ppid = a, !.parentStart = b, !.user = c, !.uid = d,
                        !.last = at, !.duration = at - old.first,
                        !.status = "running", !.count = old.count + 1]
  BY DEF SeenAgain, a, b, c, d
<1>2. old = [pid |-> old.pid, start |-> old.start, ppid |-> old.ppid,
             parentStart |-> old.parentStart, user |-> old.user, uid |-> old.uid,
             first |-> old.first, last |-> old.last, duration |-> old.duration,
             status |-> old.status, count |-> old.count]
      /\ old.first \in Nat /\ old.count \in Nat
  BY DEF SessionRow
<1> HIDE DEF new
<1>3. new = [pid |-> old.pid, start |-> old.start, ppid |-> a,
             parentStart |-> b, user |-> c, uid |-> d,
             first |-> old.first, last |-> at, duration |-> at - old.first,
             status |-> "running", count |-> old.count + 1]
  BY <1>1, <1>2
<1> QED BY <1>2, <1>3 DEF SessionRow, new

LEMMA NewSessionRow ==
    ASSUME NEW p, NEW at \in Nat
    PROVE  LET new == NewSession(p, at)
           IN /\ SessionRow(new)
              /\ new.first = at /\ new.last = at /\ new.count = 1
              /\ new.duration = 0 /\ new.status = "running"
  BY DEF SessionRow, NewSession

LEMMA SessionsAfterWrite ==
    ASSUME TablesInv, Write
    PROVE  SessionsInv'
<1> DEFINE snap == Head(waiting)
           at == snap.at
           shownBy(id) == \E use \in snap.seen : SessionId(use[1]) = id
           process(id) == CHOOSE p \in {use[1] : use \in snap.seen} : SessionId(p) = id
           ids == {SessionId(p) : p \in {use[1] : use \in snap.seen}}
<1>1. /\ sessions' = [id \in DOMAIN sessions \cup ids |->
                        IF id \notin ids THEN sessions[id]
                        ELSE IF id \in DOMAIN sessions
                        THEN SeenAgain(sessions[id], process(id), at)
                        ELSE NewSession(process(id), at)]
      /\ observed' = observed \cup {<<at, use[1], use[2]>> : use \in snap.seen}
      /\ UNCHANGED clock
  BY DEF Write, WriteSessions
<1>2. \A id : id \in ids <=> shownBy(id)
  OBVIOUS
<1> HIDE DEF ids, process
<1>3. /\ at \in Nat /\ snap.seen \subseteq Uses
      /\ \A id, G : \A t \in SeenAt(id, G) : t < at
  BY WriteIsLater
<1>4. \A id : SeenAt(id, Gpus)' = IF id \in ids THEN SeenAt(id, Gpus) \cup {at}
                                  ELSE SeenAt(id, Gpus)
  <2> TAKE id
  <2>1. SeenAt(id, Gpus)' =
          SeenAt(id, Gpus) \cup
            {t \in {at} : \E use \in snap.seen : SessionId(use[1]) = id /\ use[2] \in Gpus}
    BY SeenAfterWrite
  <2>2. id \in ids <=> \E use \in snap.seen : SessionId(use[1]) = id /\ use[2] \in Gpus
    BY <1>2, <1>3, UseIsPair
  <2> QED BY <2>1, <2>2
<1>5. DOMAIN sessions' = {SessionId(o[2]) : o \in observed'}
  <2>1. DOMAIN sessions' = DOMAIN sessions \cup ids
    BY <1>1
  <2>2. DOMAIN sessions = {SessionId(o[2]) : o \in observed}
    BY DEF TablesInv, SessionsInv
  <2>3. \A o \in {<<at, use[1], use[2]>> : use \in snap.seen} : SessionId(o[2]) \in ids
    BY <1>2
  <2>4. \A id \in ids : \E o \in {<<at, use[1], use[2]>> : use \in snap.seen} :
           SessionId(o[2]) = id
    <3> SUFFICES ASSUME NEW id \in ids
                 PROVE  \E o \in {<<at, use[1], use[2]>> : use \in snap.seen} :
                           SessionId(o[2]) = id
      OBVIOUS
    <3>1. PICK use \in snap.seen : SessionId(use[1]) = id
      BY <1>2
    <3>2. <<at, use[1], use[2]>>[2] = use[1]
      OBVIOUS
    <3> QED BY <3>1, <3>2
  <2> HIDE DEF snap, at
  <2>5. {SessionId(o[2]) : o \in observed'} \subseteq DOMAIN sessions \cup ids
    BY <1>1, <2>2, <2>3
  <2>6. DOMAIN sessions \cup ids \subseteq {SessionId(o[2]) : o \in observed'}
    BY <1>1, <2>2, <2>4
  <2> QED BY <2>1, <2>5, <2>6
<1>6. ASSUME NEW id \in DOMAIN sessions'
      PROVE  /\ SessionRow(sessions'[id])
             /\ Summarises(sessions'[id], SeenAt(id, Gpus)')
             /\ sessions'[id].duration = sessions'[id].last - sessions'[id].first
             /\ sessions'[id].status = "ended" => sessions'[id].last < clock' - Stale
  <2>1. id \in DOMAIN sessions =>
           /\ SessionRow(sessions[id]) /\ Summarises(sessions[id], SeenAt(id, Gpus))
           /\ sessions[id].duration = sessions[id].last - sessions[id].first
           /\ sessions[id].status = "ended" => sessions[id].last < clock - Stale
    BY DEF TablesInv, SessionsInv
  <2>2. CASE id \notin ids
    <3>1. id \in DOMAIN sessions /\ sessions'[id] = sessions[id]
      BY <1>1, <2>2
    <3> QED BY <1>1, <1>4, <2>1, <2>2, <3>1
  <2>3. CASE id \in ids /\ id \in DOMAIN sessions
    <3> DEFINE new == SeenAgain(sessions[id], process(id), at)
    <3>1. sessions'[id] = new
      BY <1>1, <2>3
    <3>2. /\ SessionRow(new)
          /\ new.first = sessions[id].first /\ new.last = at
          /\ new.count = sessions[id].count + 1
          /\ new.duration = at - sessions[id].first
          /\ new.status = "running"
      BY <1>3, <2>1, <2>3, SeenAgainRow
    <3> HIDE DEF new
    <3>3. sessions[id].count \in Nat
      BY <2>1, <2>3 DEF SessionRow
    <3>4. Summarises(new, SeenAt(id, Gpus) \cup {at})
      BY <1>3, <2>1, <2>3, <3>2, <3>3, SummaryGrows
    <3> QED BY <1>4, <2>3, <3>1, <3>2, <3>4
  <2>4. CASE id \in ids /\ id \notin DOMAIN sessions
    <3> DEFINE new == NewSession(process(id), at)
    <3>1. sessions'[id] = new
      BY <1>1, <2>4
    <3>2. /\ SessionRow(new)
          /\ new.first = at /\ new.last = at /\ new.count = 1
          /\ new.duration = 0 /\ new.status = "running"
      BY <1>3, NewSessionRow
    <3> HIDE DEF new
    <3>3. Summarises(new, {at})
      BY <1>3, <3>2, SummaryBegins
    <3>4. SeenAt(id, Gpus) = {}
      BY <2>4 DEF TablesInv, SessionsInv, SeenAt
    <3>5. new.duration = new.last - new.first
      BY <1>3, <3>2
    <3> QED BY <1>4, <2>4, <3>1, <3>2, <3>3, <3>4, <3>5
  <2> QED BY <2>2, <2>3, <2>4
<1> QED BY <1>5, <1>6 DEF SessionsInv

LEMMA UsageAgain ==
    ASSUME NEW old, UsageRow(old), NEW at \in Nat
    PROVE  LET new == [old EXCEPT !.last = at, !.count = old.count + 1]
           IN /\ UsageRow(new) /\ old.count \in Nat
              /\ new.first = old.first /\ new.last = at
              /\ new.count = old.count + 1
<1> DEFINE new == [old EXCEPT !.last = at, !.count = old.count + 1]
<1>1. new = [old EXCEPT !.last = at, !.count = old.count + 1]
  OBVIOUS
<1>2. old = [first |-> old.first, last |-> old.last, count |-> old.count]
      /\ old.first \in Nat /\ old.count \in Nat
  BY DEF UsageRow
<1> HIDE DEF new
<1>3. new = [first |-> old.first, last |-> at, count |-> old.count + 1]
  BY <1>1, <1>2
<1> QED BY <1>2, <1>3 DEF UsageRow, new

LEMMA UsagesAfterWrite ==
    ASSUME TablesInv, Write
    PROVE  UsagesInv'
<1> DEFINE snap == Head(waiting)
           at == snap.at
           rows == {<<SessionId(use[1]), use[2]>> : use \in snap.seen}
<1>1. /\ usages' = [row \in DOMAIN usages \cup rows |->
                      IF row \notin rows THEN usages[row]
                      ELSE IF row \in DOMAIN usages
                      THEN [usages[row] EXCEPT !.last = at, !.count = @ + 1]
                      ELSE [first |-> at, last |-> at, count |-> 1]]
      /\ observed' = observed \cup {<<at, use[1], use[2]>> : use \in snap.seen}
  BY DEF Write, WriteUsages
<1>2. \A row : row \in rows <=> \E use \in snap.seen : row = <<SessionId(use[1]), use[2]>>
  OBVIOUS
<1>3. /\ at \in Nat /\ snap.seen \subseteq Uses
      /\ \A id, G : \A t \in SeenAt(id, G) : t < at
  BY WriteIsLater
<1>4. ASSUME NEW id, NEW g \in Gpus
      PROVE  SeenAt(id, {g})' = IF <<id, g>> \in rows THEN SeenAt(id, {g}) \cup {at}
                                ELSE SeenAt(id, {g})
  <2>1. SeenAt(id, {g})' =
          SeenAt(id, {g}) \cup
            {t \in {at} : \E use \in snap.seen : SessionId(use[1]) = id /\ use[2] \in {g}}
    BY SeenAfterWrite
  <2>2. <<id, g>> \in rows <=>
           \E use \in snap.seen : SessionId(use[1]) = id /\ use[2] \in {g}
    BY <1>2
  <2> QED BY <2>1, <2>2
<1> HIDE DEF rows
<1>5. DOMAIN usages' = {<<SessionId(o[2]), o[3]>> : o \in observed'}
  <2>1. DOMAIN usages' = DOMAIN usages \cup rows
    BY <1>1
  <2>2. DOMAIN usages = {<<SessionId(o[2]), o[3]>> : o \in observed}
    BY DEF TablesInv, UsagesInv
  <2>3. \A o \in {<<at, use[1], use[2]>> : use \in snap.seen} :
           <<SessionId(o[2]), o[3]>> \in rows
    BY <1>2
  <2>4. \A row \in rows : \E o \in {<<at, use[1], use[2]>> : use \in snap.seen} :
           <<SessionId(o[2]), o[3]>> = row
    <3> SUFFICES ASSUME NEW row \in rows
                 PROVE  \E o \in {<<at, use[1], use[2]>> : use \in snap.seen} :
                           <<SessionId(o[2]), o[3]>> = row
      OBVIOUS
    <3>1. PICK use \in snap.seen : row = <<SessionId(use[1]), use[2]>>
      BY <1>2
    <3>2. <<at, use[1], use[2]>>[2] = use[1] /\ <<at, use[1], use[2]>>[3] = use[2]
      OBVIOUS
    <3> QED BY <3>1, <3>2
  <2> HIDE DEF snap, at
  <2>5. {<<SessionId(o[2]), o[3]>> : o \in observed'} \subseteq DOMAIN usages \cup rows
    BY <1>1, <2>2, <2>3
  <2>6. DOMAIN usages \cup rows \subseteq {<<SessionId(o[2]), o[3]>> : o \in observed'}
    BY <1>1, <2>2, <2>4
  <2> QED BY <2>1, <2>5, <2>6
<1>6. ASSUME NEW row \in DOMAIN usages'
      PROVE  /\ UsageRow(usages'[row])
             /\ Summarises(usages'[row], SeenAt(row[1], {row[2]})')
  <2>0. row = <<row[1], row[2]>> /\ row[2] \in Gpus
    <3>1. QueueInv'
      BY WriteIsLater
    <3>2. PICK o \in observed' : row = <<SessionId(o[2]), o[3]>>
      BY <1>5
    <3>3. o[3] \in Gpus
      BY <3>1 DEF QueueInv
    <3> QED BY <3>2, <3>3
  <2>1. row \in DOMAIN usages =>
           UsageRow(usages[row]) /\ Summarises(usages[row], SeenAt(row[1], {row[2]}))
    BY DEF TablesInv, UsagesInv
  <2>5. SeenAt(row[1], {row[2]})' =
          IF row \in rows THEN SeenAt(row[1], {row[2]}) \cup {at}
          ELSE SeenAt(row[1], {row[2]})
    <3> DEFINE id == row[1]
               g == row[2]
    <3> HIDE DEF id, g
    <3>1. SeenAt(id, {g})' = IF <<id, g>> \in rows THEN SeenAt(id, {g}) \cup {at}
                             ELSE SeenAt(id, {g})
      BY <1>4, <2>0 DEF g
    <3> QED BY <2>0, <3>1 DEF id, g
  <2>2. CASE row \notin rows
    <3>1. row \in DOMAIN usages /\ usages'[row] = usages[row]
      BY <1>1, <2>2
    <3> QED BY <2>1, <2>2, <2>5, <3>1
  <2>3. CASE row \in rows /\ row \in DOMAIN usages
    <3> DEFINE old == usages[row]
               new == [old EXCEPT !.last = at, !.count = old.count + 1]
    <3>1. usages'[row] = new
      BY <1>1, <2>3
    <3>2. /\ UsageRow(new) /\ old.count \in Nat
          /\ new.first = old.first /\ new.last = at
          /\ new.count = old.count + 1
      BY <1>3, <2>1, <2>3, UsageAgain
    <3> HIDE DEF new
    <3>4. Summarises(new, SeenAt(row[1], {row[2]}) \cup {at})
      BY <1>3, <2>1, <2>3, <3>2, SummaryGrows
    <3> QED BY <2>3, <2>5, <3>1, <3>2, <3>4
  <2>4. CASE row \in rows /\ row \notin DOMAIN usages
    <3> DEFINE new == [first |-> at, last |-> at, count |-> 1]
    <3>1. usages'[row] = new
      BY <1>1, <2>4
    <3>2. /\ UsageRow(new)
          /\ new.first = at /\ new.last = at /\ new.count = 1
      BY <1>3 DEF UsageRow
    <3> HIDE DEF new
    <3>3. Summarises(new, {at})
      BY <1>3, <3>2, SummaryBegins
    <3>4. SeenAt(row[1], {row[2]}) = {}
      <4>1. \A o \in observed : <<SessionId(o[2]), o[3]>> # row
        BY <2>4 DEF TablesInv, UsagesInv
      <4>2. \A o \in observed : ~(SessionId(o[2]) = row[1] /\ o[3] \in {row[2]})
        BY <2>0, <4>1
      <4> QED BY <4>2 DEF SeenAt
    <3> QED BY <2>4, <2>5, <3>1, <3>2, <3>3, <3>4
  <2> QED BY <2>2, <2>3, <2>4
<1> QED BY <1>5, <1>6 DEF UsagesInv

\* A session is closed when it was not seen for the stale time.
LEMMA CloseStaleKeeps ==
    ASSUME TablesInv, CloseStale
    PROVE  TablesInv'
<1>1. /\ sessions' = [id \in DOMAIN sessions |->
                        IF id \in StaleSessions(clock)
                        THEN [sessions[id] EXCEPT
                                !.status = "ended",
                                !.duration = sessions[id].last - sessions[id].first]
                        ELSE sessions[id]]
      /\ UNCHANGED <<clock, waiting, usages, sampled, observed>>
  BY DEF CloseStale
<1>2. QueueInv' /\ UsagesInv'
  BY <1>1 DEF TablesInv, QueueInv, UsagesInv, SeenAt
<1>3. ASSUME NEW id \in DOMAIN sessions
      PROVE  /\ SessionRow(sessions'[id])
             /\ Summarises(sessions'[id], SeenAt(id, Gpus)')
             /\ sessions'[id].duration = sessions'[id].last - sessions'[id].first
             /\ sessions'[id].status = "ended" => sessions'[id].last < clock - Stale
  <2>1. /\ SessionRow(sessions[id]) /\ Summarises(sessions[id], SeenAt(id, Gpus))
        /\ sessions[id].duration = sessions[id].last - sessions[id].first
        /\ sessions[id].status = "ended" => sessions[id].last < clock - Stale
    BY DEF TablesInv, SessionsInv
  <2>2. SeenAt(id, Gpus)' = SeenAt(id, Gpus)
    BY <1>1 DEF SeenAt
  <2>3. CASE id \in StaleSessions(clock)
    <3> DEFINE old == sessions[id]
    <3>1. sessions'[id] = [old EXCEPT !.status = "ended",
                                      !.duration = old.last - old.first]
      BY <1>1, <2>3
    <3>2. old.last < clock - Stale
      BY <2>3 DEF StaleSessions
    <3> HIDE DEF old
    <3>3. old = [pid |-> old.pid, start |-> old.start, ppid |-> old.ppid,
                 parentStart |-> old.parentStart, user |-> old.user, uid |-> old.uid,
                 first |-> old.first, last |-> old.last, duration |-> old.duration,
                 status |-> old.status, count |-> old.count]
          /\ old.first \in Nat /\ old.last \in Nat /\ old.count \in Nat
      BY <2>1 DEF SessionRow, old
    <3> DEFINE new == sessions'[id]
    <3>4. new = [old EXCEPT !.status = "ended", !.duration = old.last - old.first]
      BY <3>1
    <3> HIDE DEF new
    <3>5. new = [pid |-> old.pid, start |-> old.start, ppid |-> old.ppid,
                 parentStart |-> old.parentStart, user |-> old.user, uid |-> old.uid,
                 first |-> old.first, last |-> old.last,
                 duration |-> old.last - old.first,
                 status |-> "ended", count |-> old.count]
      BY <3>3, <3>4
    <3>6. SessionRow(new) /\ new.duration = new.last - new.first
      BY <3>3, <3>5 DEF SessionRow
    <3>7. new.first = old.first /\ new.last = old.last /\ new.count = old.count
      BY <3>5
    <3>8. Summarises(new, SeenAt(id, Gpus))
      BY <2>1, <3>7 DEF Summarises, old
    <3> QED BY <2>2, <3>2, <3>6, <3>7, <3>8 DEF new
  <2>4. CASE id \notin StaleSessions(clock)
    <3>1. sessions'[id] = sessions[id]
      BY <1>1, <2>4
    <3> QED BY <2>1, <2>2, <3>1
  <2> QED BY <2>3, <2>4
<1>4. SessionsInv'
  <2>1. DOMAIN sessions' = DOMAIN sessions
    BY <1>1
  <2>2. DOMAIN sessions' = {SessionId(o[2]) : o \in observed'}
    BY <1>1, <2>1 DEF TablesInv, SessionsInv
  <2> QED BY <1>1, <1>3, <2>1, <2>2 DEF SessionsInv
<1> QED BY <1>2, <1>4 DEF TablesInv

LEMMA TickKeeps ==
    ASSUME TablesInv, Tick
    PROVE  TablesInv'
<1>1. /\ clock' = clock + 1
      /\ UNCHANGED <<waiting, sessions, usages, sampled, observed>>
  BY DEF Tick
<1>2. clock \in Nat
  BY DEF TablesInv, QueueInv
<1>3. \A t \in sampled : t \in Nat /\ t <= clock'
  BY <1>1, <1>2 DEF TablesInv, QueueInv
<1>4. QueueInv'
  BY <1>1, <1>2, <1>3 DEF TablesInv, QueueInv
<1>5. UsagesInv'
  BY <1>1 DEF TablesInv, UsagesInv, SeenAt
<1>6. ASSUME NEW id \in DOMAIN sessions, sessions[id].status = "ended"
      PROVE  sessions[id].last < clock' - Stale
  <2>1. sessions[id].last < clock - Stale /\ sessions[id].last \in Nat
    BY <1>6 DEF TablesInv, SessionsInv, SessionRow
  <2>2. Stale \in Nat
    BY SessionsAssumption DEF SessionsAssumption
  <2> QED BY <1>1, <1>2, <2>1, <2>2
<1>7. SessionsInv'
  BY <1>1, <1>6 DEF TablesInv, SessionsInv, SeenAt
<1> QED BY <1>4, <1>5, <1>7 DEF TablesInv

LEMMA TablesStep == TablesInv /\ [Next]_vars => TablesInv'
<1> SUFFICES ASSUME TablesInv, [Next]_vars PROVE TablesInv'
  OBVIOUS
<1>1. CASE \E n \in 1 .. MaxUses - shown : \E seen \in kSubset(n, Uses) : Sample(seen)
  <2>1. \A n : kSubset(n, Uses) \subseteq SUBSET Uses
    BY DEF kSubset
  <2> QED BY <1>1, <2>1, SampleKeeps
<1>2. CASE Write
  BY <1>2, WriteIsLater, SessionsAfterWrite, UsagesAfterWrite DEF TablesInv
<1>3. CASE CloseStale
  BY <1>3, CloseStaleKeeps
<1>4. CASE Tick
  BY <1>4, TickKeeps
<1>5. CASE UNCHANGED vars
  BY <1>5 DEF vars, TablesInv, QueueInv, SessionsInv, UsagesInv, SeenAt
<1> QED BY <1>1, <1>2, <1>3, <1>4, <1>5 DEF Next

\* The tables are summaries of strictly ascending observations, whatever waits.
THEOREM TablesInvariant == Spec => []TablesInv
  BY TablesInit, TablesStep, PTL DEF Spec

\* TablesTellObserved holds of every behaviour: of each session and of its use
\* of each GPU the tables have the first and the last time and the number of
\* written snapshots that showed it, and only what is stale counts as ended.
THEOREM TablesTellObservedAlways == Spec => []TablesTellObserved
<1>1. TablesInv => TablesTellObserved
  BY SummaryTells DEF TablesInv, SessionsInv, UsagesInv, TablesTellObserved
<1> QED BY <1>1, TablesInvariant, PTL

-----------------------------------------------------------------------------
(* Who used a GPU when *)

\* The finite sets of what is in S up to one of its elements are ordered by
\* inclusion, and that order is well-founded.
LEMMA HasLeast ==
    ASSUME NEW S \in SUBSET Nat, S # {}
    PROVE  \E m \in S : \A n \in S : m <= n
<1> DEFINE UpTo(n) == S \cap 0..n
           T == {UpTo(n) : n \in S}
<1>1. T \subseteq FiniteSubsetsOf(Nat) /\ T # {}
  <2>1. ASSUME NEW n \in S PROVE UpTo(n) \in SUBSET Nat /\ IsFiniteSet(UpTo(n))
    <3>1. IsFiniteSet(0..n)
      BY FS_Interval
    <3> QED BY <3>1, FS_Subset
  <2> HIDE DEF UpTo
  <2> QED BY <2>1 DEF FiniteSubsetsOf
<1>2. PICK x \in T : \A y \in T : ~(<<y, x>> \in StrictSubsetOrdering(Nat))
  <2> HIDE DEF T
  <2> QED BY <1>1, FS_StrictSubsetOrderingWellFounded, WFMin
<1>3. PICK m \in S : x = UpTo(m)
  BY <1>2
<1>4. ASSUME NEW n \in S, n < m PROVE FALSE
  <2>1. UpTo(n) \subseteq UpTo(m) /\ m \in UpTo(m) /\ m \notin UpTo(n)
    BY <1>4
  <2>2. UpTo(n) \in T /\ UpTo(n) \in SUBSET Nat /\ UpTo(m) \in SUBSET Nat
    OBVIOUS
  <2> HIDE DEF UpTo, T
  <2>3. <<UpTo(n), UpTo(m)>> \in StrictSubsetOrdering(Nat)
    BY <2>1, <2>2 DEF StrictSubsetOrdering
  <2> QED BY <1>2, <1>3, <2>2, <2>3
<1>5. \A n \in S : m <= n
  BY <1>4
<1> QED BY <1>5

\* Of bindings that began, one began last.
LEMMA LatestExists ==
    ASSUME NEW S, S # {}, NEW t \in Int,
           \A b \in S : b.from \in Int /\ b.from <= t
    PROVE  \E b \in S : \A c \in S : c.from <= b.from
<1> DEFINE ages == {t - b.from : b \in S}
<1>1. ages \in SUBSET Nat /\ ages # {}
  OBVIOUS
<1>2. PICK m \in ages : \A n \in ages : m <= n
  BY <1>1, HasLeast
<1>3. PICK b \in S : m = t - b.from
  BY <1>2
<1>4. ASSUME NEW c \in S PROVE c.from <= b.from
  <2>1. t - b.from <= t - c.from
    BY <1>2, <1>3
  <2> QED BY <2>1
<1> QED BY <1>4

\* An instant lies between two neighbouring edges.
Surrounded(E, t) ==
    \E a, b \in E : a <= t /\ t < b /\ a < b /\ ~ \E e \in E : a < e /\ e < b

LEMMA EdgesAround ==
    ASSUME NEW left \in Nat, NEW right \in Nat, NEW E \in SUBSET (left..right),
           left \in E, right \in E, NEW t \in left .. right - 1
    PROVE  Surrounded(E, t)
<1> DEFINE before == {t - e : e \in {d \in E : d <= t}}
           after == {e \in E : t < e}
<1>1. before \in SUBSET Nat /\ before # {}
  OBVIOUS
<1>2. after \in SUBSET Nat /\ after # {}
  <2>1. right \in after
    OBVIOUS
  <2>2. \A e \in E : e \in Nat
    OBVIOUS
  <2> QED BY <2>1, <2>2
<1>3. PICK m \in before : \A n \in before : m <= n
  BY <1>1, HasLeast
<1>4. PICK a \in E : a <= t /\ m = t - a
  BY <1>3
<1>5. PICK b \in after : \A n \in after : b <= n
  BY <1>2, HasLeast
<1>6. ASSUME NEW e \in E, a < e, e < b PROVE FALSE
  <2>1. CASE e <= t
    <3>1. t - e \in before
      BY <2>1
    <3>2. t - a <= t - e
      BY <1>3, <1>4, <3>1
    <3> QED BY <1>6, <3>2
  <2>2. CASE t < e
    <3>1. e \in after
      BY <2>2
    <3>2. b <= e /\ b \in Nat /\ e \in Nat
      BY <1>2, <1>5, <3>1
    <3> QED BY <1>6, <3>2
  <2>3. e \in Nat
    OBVIOUS
  <2> QED BY <2>1, <2>2, <2>3
<1>7. a < b
  BY <1>2, <1>4, <1>5
<1> QED BY <1>4, <1>5, <1>6, <1>7 DEF Surrounded

Binding(b) ==
    /\ b = [account |-> b.account, uid |-> b.uid, user |-> b.user,
            from |-> b.from, to |-> b.to]
    /\ b.from \in Int /\ b.to \in Nat \cup {None}

\* Whether the binding holds its account at t; an end is no more part of it.
Holds(b, t) == b.from <= t /\ (b.to = None \/ t < b.to)

\* The bindings that match a session, in the form that they match it.
LEMMA MatchesType ==
    ASSUME NEW bindings \in Histories, NEW s, NEW start \in Int
    PROVE  \A b \in Matches(bindings, s, start) : Binding(b)
<1>1. \A b \in bindings : Binding(b)
  BY SessionsAssumption DEF SessionsAssumption, Binding
<1>2. ASSUME NEW b \in bindings PROVE Binding([b EXCEPT !.from = AtMost(start, @)])
  <2> DEFINE n == AtMost(start, b.from)
             c == [b EXCEPT !.from = n]
  <2>1. n \in Int
    BY <1>1 DEF AtMost, Binding
  <2> HIDE DEF n
  <2>2. c = [b EXCEPT !.from = n]
    OBVIOUS
  <2> HIDE DEF c
  <2>3. Binding(b)
    BY <1>1
  <2>4. c = [account |-> b.account, uid |-> b.uid, user |-> b.user,
             from |-> n, to |-> b.to]
    BY <2>2, <2>3 DEF Binding
  <2>5. Binding(c)
    BY <2>1, <2>3, <2>4 DEF Binding
  <2> QED BY <2>5 DEF c, n
<1>3. CASE s.uid = None
  <2>1. Matches(bindings, s, start) = LegacyBindings(bindings, s.user, start)
    BY <1>3 DEF Matches
  <2> QED BY <1>1, <1>2, <2>1 DEF LegacyBindings
<1>4. CASE s.uid # None
  BY <1>1, <1>4 DEF Matches
<1> QED BY <1>3, <1>4

\* Between two neighbouring edges the same bindings hold.
LEMMA SameBetweenEdges ==
    ASSUME NEW M, \A b \in M : Binding(b), NEW left \in Nat, NEW right \in Nat,
           NEW a \in left..right, NEW e \in left..right, NEW t \in left..right,
           a <= t, t < e,
           ~ \E d \in Edges(left, right, M) : a < d /\ d < e
    PROVE  Applicable(M, a) = Applicable(M, t)
<1>1. None \notin Nat
  BY SessionsAssumption DEF SessionsAssumption
<1>2. ASSUME NEW b \in M
      PROVE  /\ b.from <= a <=> b.from <= t
             /\ b.to # None => (a < b.to <=> t < b.to)
  <2>1. b.from \in Int /\ b.to \in Nat \cup {None}
    BY DEF Binding
  <2>2. AtLeast(left, AtMost(right, b.from)) \in Edges(left, right, M)
    BY DEF Edges
  <2>3. b.to # None => AtLeast(left, AtMost(right, b.to)) \in Edges(left, right, M)
    BY DEF Edges
  <2>4. b.from <= a <=> b.from <= t
    <3>1. CASE b.from <= t /\ a < b.from
      <4>1. AtLeast(left, AtMost(right, b.from)) = b.from
        BY <2>1, <3>1 DEF AtLeast, AtMost
      <4>2. b.from < e
        BY <2>1, <3>1
      <4> QED BY <2>2, <3>1, <4>1, <4>2
    <3> QED BY <2>1, <3>1
  <2>5. ASSUME b.to # None PROVE a < b.to <=> t < b.to
    <3>0. b.to \in Nat
      BY <2>1, <2>5
    <3>1. CASE b.to <= t /\ a < b.to
      <4>1. AtLeast(left, AtMost(right, b.to)) = b.to
        BY <3>0, <3>1 DEF AtLeast, AtMost
      <4>2. b.to < e
        BY <3>0, <3>1
      <4> QED BY <2>3, <2>5, <3>1, <4>1, <4>2
    <3> QED BY <3>0, <3>1
  <2> QED BY <2>4, <2>5
<1> QED BY <1>2 DEF Applicable

\* Of what holds at an instant, the latest is chosen.
LEMMA LatestOf ==
    ASSUME NEW S, S # {}, NEW t \in Int,
           \A b \in S : b.from \in Int /\ b.from <= t
    PROVE  /\ (CHOOSE b \in S : \A c \in S : c.from <= b.from) \in S
           /\ \A c \in S : c.from <= (CHOOSE b \in S : \A d \in S : d.from <= b.from).from
  BY LatestExists

\* The owner of a stretch is who held the account at its start: the first
\* binding of a name reaches back, and of several the last to begin counts.
LEMMA OwnerAgrees ==
    ASSUME NEW bindings \in Histories, NEW s, NEW start \in Int,
           NEW t \in Int, start <= t
    PROVE  Owner(Matches(bindings, s, start), s, t) = OwnerAt(bindings, s, t, start)
<1> DEFINE M == Matches(bindings, s, start)
           now == Applicable(M, t)
           reaches(b) == s.uid = None /\ t >= start
                           /\ \A c \in bindings : c.account = b.account => b.from <= c.from
           held == {b \in bindings :
                      /\ IF s.uid = None THEN b.account = s.user ELSE b.uid = s.uid
                      /\ b.from <= t \/ reaches(b)
                      /\ b.to # None => t < b.to}
           latest == {b \in held : \A c \in held : c.from <= b.from}
           chosen == CHOOSE b \in now : \A c \in now : c.from <= b.from
<1>1. /\ \A b \in bindings : Binding(b) /\ b.from \in Nat
      /\ \A b, c \in bindings :
           (b.uid = c.uid \/ b.account = c.account) /\ b.from = c.from => b = c
  BY SessionsAssumption DEF SessionsAssumption, Binding
<1>2. \A b \in M : Binding(b)
  BY MatchesType
<1>3. now # {} => chosen \in now /\ \A c \in now : c.from <= chosen.from
  <2>1. \A b \in now : b.from \in Int /\ b.from <= t
    BY <1>2 DEF Applicable, Binding
  <2> HIDE DEF now
  <2> QED BY <2>1, LatestOf
<1>4. \A b, c \in latest : b = c
  <2> TAKE b, c \in latest
  <2>1. /\ b \in bindings /\ c \in bindings
        /\ b.uid = c.uid \/ b.account = c.account
        /\ b.from <= c.from /\ c.from <= b.from
    <3>1. b \in held /\ c \in held
      OBVIOUS
    <3>2. b.from <= c.from /\ c.from <= b.from
      BY <3>1
    <3> QED BY <3>1, <3>2
  <2>2. b.from \in Nat /\ c.from \in Nat
    BY <1>1, <2>1 DEF Binding
  <2>3. b.from = c.from
    BY <2>1, <2>2
  <2> QED BY <1>1, <2>1, <2>3
<1>5. /\ now = {} <=> held = {}
      /\ now # {} => \E b \in latest : b.user = chosen.user
  <2>1. CASE s.uid # None
    <3>1. now = held
      BY <2>1 DEF Applicable, Matches
    <3> HIDE DEF now, held
    <3> QED BY <1>3, <3>1
  <2>2. CASE s.uid = None
    <3> DEFINE history == {b \in bindings : b.account = s.user}
               froms == {b.from : b \in history}
               first == Min(froms)
               L(b) == IF b.from = first THEN [b EXCEPT !.from = AtMost(start, @)]
                       ELSE b
    <3>1. M = {L(b) : b \in history}
      BY <2>2 DEF Matches, LegacyBindings
    <3>2. held \subseteq history
      BY <2>2
    <3>3. CASE history = {}
      <4>1. held = {} /\ M = {}
        BY <3>1, <3>2, <3>3
      <4>2. now = {}
        BY <4>1 DEF Applicable
      <4> HIDE DEF held, now
      <4> QED BY <4>1, <4>2
    <3>4. CASE history # {}
      <4>1. froms \in SUBSET Nat /\ froms # {}
        BY <1>1, <3>4 DEF Binding
      <4>2. first \in froms /\ \A n \in froms : first <= n
        <5> HIDE DEF froms
        <5>1. \E m \in froms : \A n \in froms : m <= n
          BY <4>1, HasLeast
        <5> QED BY <5>1 DEF Min
      <4> HIDE DEF first, froms
      <4>3. /\ first \in Nat
            /\ \A b \in history : b.from \in Nat /\ first <= b.from
        BY <1>1, <4>1, <4>2 DEF froms, Binding
      <4>4. ASSUME NEW b \in history
            PROVE  /\ L(b).from = IF b.from = first THEN AtMost(start, b.from) ELSE b.from
                   /\ L(b).to = b.to /\ L(b).user = b.user
        <5>1. b = [account |-> b.account, uid |-> b.uid, user |-> b.user,
                   from |-> b.from, to |-> b.to]
          BY <1>1 DEF Binding
        <5> DEFINE n == AtMost(start, b.from)
                   c == [b EXCEPT !.from = n]
        <5> HIDE DEF n
        <5>2. c.from = n /\ c.to = b.to /\ c.user = b.user
          BY <5>1
        <5>3. L(b) = IF b.from = first THEN c ELSE b
          BY DEF n
        <5> HIDE DEF c, L
        <5> QED BY <5>2, <5>3 DEF n
      <4>5. ASSUME NEW b \in history PROVE reaches(b) <=> b.from = first
        <5>1. \A c \in bindings : c.account = b.account <=> c \in history
          OBVIOUS
        <5>2. reaches(b) <=> \A c \in history : b.from <= c.from
          BY <2>2, <5>1
        <5>3. \E f \in history : f.from = first
          BY <4>2 DEF froms
        <5> QED BY <4>3, <5>2, <5>3
      <4>6. ASSUME NEW b \in history
            PROVE  /\ b \in held <=> L(b).from <= t /\ (L(b).to = None \/ t < L(b).to)
                   /\ L(b).from <= b.from
                   /\ b.from # first => L(b).from = b.from
        <5>1. b.from \in Nat
          BY <4>3
        <5>2. L(b).from <= t <=> b.from <= t \/ b.from = first
          BY <4>3, <4>4, <5>1 DEF AtMost
        <5>3. b \in held <=> /\ b.from <= t \/ reaches(b)
                             /\ b.to # None => t < b.to
          BY <2>2
        <5>4. L(b).from <= b.from /\ (b.from # first => L(b).from = b.from)
          BY <4>4, <5>1 DEF AtMost
        <5> HIDE DEF L, held, reaches
        <5> QED BY <4>4, <4>5, <5>2, <5>3, <5>4
      <4> HIDE DEF L, reaches
      <4>7. now = {L(b) : b \in held}
        <5>1. now = {m \in M : m.from <= t /\ (m.to = None \/ t < m.to)}
          BY DEF Applicable
        <5> HIDE DEF now, held, M, history
        <5> QED BY <3>1, <3>2, <4>6, <5>1
      <4> HIDE DEF now, held, M
      <4>8. ASSUME now # {}
            PROVE  \E h \in held : /\ \A c \in held : c.from <= h.from
                                   /\ h.user = chosen.user
        <5>1. chosen \in now /\ \A c \in now : c.from <= chosen.from
          BY <1>3, <4>8
        <5> HIDE DEF chosen
        <5>2. PICK h \in held : chosen = L(h)
          BY <4>7, <5>1
        <5>3. ASSUME NEW c \in held PROVE c.from <= h.from
          <6>1. L(c).from <= L(h).from
            BY <4>7, <5>1, <5>2
          <6>2. c \in history /\ h \in history
            BY <3>2, <5>3
          <6> HIDE DEF history
          <6>3. /\ c.from \in Nat /\ h.from \in Nat /\ first \in Nat /\ first <= h.from
                /\ L(h).from <= h.from
                /\ c.from # first => L(c).from = c.from
            BY <4>3, <4>6, <6>2
          <6>4. L(h).from \in Int
            BY <4>4, <6>2, <6>3 DEF AtMost
          <6> QED BY <6>1, <6>3, <6>4
        <5>4. h.user = chosen.user
          BY <3>2, <4>4, <5>2
        <5> QED BY <5>3, <5>4
      <4>9. now = {} <=> held = {}
        BY <4>7
      <4> QED BY <4>8, <4>9
    <3> QED BY <3>3, <3>4
  <2> QED BY <2>1, <2>2
<1>6. now # {} => (CHOOSE b \in latest : TRUE).user = chosen.user
  <2> HIDE DEF now, latest, chosen
  <2> QED BY <1>4, <1>5
<1>7. Owner(M, s, t) = IF now = {} THEN <<"account", Else(s.uid, s.user)>>
                       ELSE <<"user", chosen.user>>
  BY DEF Owner
<1>8. OwnerAt(bindings, s, t, start) =
        IF held = {} THEN <<"account", Else(s.uid, s.user)>>
        ELSE <<"user", (CHOOSE b \in latest : TRUE).user>>
  BY DEF OwnerAt
<1> HIDE DEF M, now, held, latest, chosen
<1>9. Owner(M, s, t) = OwnerAt(bindings, s, t, start)
  BY <1>5, <1>6, <1>7, <1>8
<1> QED BY <1>9 DEF M

\* OneOwnerPerInstant for one row, the bindings of one account and one range.
LEMMA OneOwnerOfRow ==
    ASSUME TablesInv, NEW bindings \in Histories, NEW start \in Int,
           NEW row \in DOMAIN usages
    PROVE  LET usage == ResolveRow(tables, row, bindings, start, clock)
               left == AtLeast(start, usages[row].first)
               right == AtMost(clock, usages[row].last)
           IN /\ \A t \in left .. right - 1 :
                   \E r \in usage : /\ r.start <= t /\ t < r.end
                                    /\ r.owner = OwnerAt(bindings, sessions[row[1]], t, start)
                                    /\ \A q \in usage : q.start <= t /\ t < q.end => q = r
              /\ left = right => {r.owner : r \in usage}
                                   = {OwnerAt(bindings, sessions[row[1]], left, start)}
              /\ \A r \in usage : left <= r.start /\ r.end <= right
<1> DEFINE usage == ResolveRow(tables, row, bindings, start, clock)
           left == AtLeast(start, usages[row].first)
           right == AtMost(clock, usages[row].last)
           s == sessions[row[1]]
           M == Matches(bindings, s, start)
           edges == Edges(left, right, M)
           R(ab) == [owner |-> Owner(M, s, ab[1]), start |-> ab[1], end |-> ab[2],
                     row |-> row, card |-> CardOf[row[2]], model |-> ModelOf[row[2]],
                     key |-> KeyOf(tables, row[1])]
<1>1. left \in Nat /\ right \in Nat /\ start <= left
  <2>1. clock \in Nat /\ usages[row].first \in Nat /\ usages[row].last \in Nat
    BY DEF TablesInv, QueueInv, UsagesInv, UsageRow
  <2> QED BY <2>1 DEF AtLeast, AtMost
<1>2. usage = IF right < left THEN {} ELSE {R(ab) : ab \in Stretches(left, right, M)}
  BY DEF ResolveRow, tables
<1>3. \A b \in M : Binding(b)
  BY MatchesType
<1>4. \A ab : /\ R(ab).owner = Owner(M, s, ab[1])
              /\ R(ab).start = ab[1] /\ R(ab).end = ab[2]
  OBVIOUS
<1>5. \A c, d, e, f : c = e /\ d = f => R(<<c, d>>) = R(<<e, f>>)
  OBVIOUS
<1>6. \A t \in Int : start <= t => Owner(M, s, t) = OwnerAt(bindings, s, t, start)
  BY OwnerAgrees
<1> HIDE DEF usage, left, right, s, M, R
<1>7. ASSUME left <= right
      PROVE  edges \in SUBSET (left..right) /\ left \in edges /\ right \in edges
  <2>1. \A n \in Int : AtLeast(left, AtMost(right, n)) \in left..right
    BY <1>1, <1>7 DEF AtLeast, AtMost
  <2>2. \A b \in M : b.from \in Int /\ (b.to # None => b.to \in Nat)
    BY <1>3 DEF Binding
  <2>3. ASSUME NEW d \in edges PROVE d \in left..right
    <3>1. CASE d \in {left, right}
      BY <1>1, <1>7, <3>1
    <3>2. CASE d \notin {left, right}
      <4>1. PICK n \in {b.from : b \in M} \cup ({b.to : b \in M} \ {None}) :
               d = AtLeast(left, AtMost(right, n))
        BY <3>2 DEF Edges
      <4>2. n \in Int
        BY <2>2, <4>1
      <4> QED BY <2>1, <4>1, <4>2
    <3> QED BY <3>1, <3>2
  <2> QED BY <2>3 DEF Edges
<1>8. CASE right < left
  <2>1. usage = {} /\ left .. right - 1 = {} /\ left # right
    BY <1>1, <1>2, <1>8
  <2> QED BY <2>1 DEF usage, left, right, s
<1>9. CASE left = right
  <2>1. usage = {R(<<left, right>>)}
    BY <1>1, <1>2, <1>9 DEF Stretches
  <2>2. R(<<left, right>>).start = left /\ R(<<left, right>>).end = right
        /\ R(<<left, right>>).owner = Owner(M, s, left)
    BY <1>4
  <2>3. {r.owner : r \in usage} = {OwnerAt(bindings, s, left, start)}
    BY <1>1, <1>6, <2>1, <2>2
  <2>4. \A r \in usage : left <= r.start /\ r.end <= right
    BY <1>1, <1>9, <2>1, <2>2
  <2>5. left .. right - 1 = {}
    BY <1>1, <1>9
  <2> QED BY <2>3, <2>4, <2>5 DEF usage, left, right, s
<1>10. CASE left < right
  <2> DEFINE Neighbours(a, b) == a < b /\ ~ \E e \in edges : a < e /\ e < b
  <2>1. usage = {R(ab) : ab \in {cd \in edges \X edges : Neighbours(cd[1], cd[2])}}
    BY <1>1, <1>2, <1>10 DEF Stretches
  <2>2. edges \in SUBSET (left..right) /\ left \in edges /\ right \in edges
    BY <1>1, <1>7, <1>10
  <2>3. ASSUME NEW r \in usage
        PROVE  \E a, b \in edges : Neighbours(a, b) /\ r = R(<<a, b>>)
    <3> HIDE DEF Neighbours, edges
    <3> QED BY <2>1
  <2>4. ASSUME NEW a \in edges, NEW b \in edges, Neighbours(a, b)
        PROVE  R(<<a, b>>) \in usage
    <3> HIDE DEF edges
    <3> QED BY <2>1, <2>4
  <2>5. ASSUME NEW t \in left .. right - 1
        PROVE  \E r \in usage : /\ r.start <= t /\ t < r.end
                                /\ r.owner = OwnerAt(bindings, s, t, start)
                                /\ \A q \in usage : q.start <= t /\ t < q.end => q = r
    <3>1. PICK a, b \in edges : a <= t /\ t < b /\ Neighbours(a, b)
      <4>1. Surrounded(edges, t)
        <5> HIDE DEF edges
        <5> QED BY <1>1, <2>2, EdgesAround
      <4> QED BY <4>1 DEF Surrounded
    <3>2. /\ a \in left..right /\ b \in left..right /\ t \in left..right
          /\ a \in Nat /\ t \in Nat /\ start <= a /\ start <= t
      BY <1>1, <2>2
    <3>3. Applicable(M, a) = Applicable(M, t)
      <4>1. ~ \E d \in Edges(left, right, M) : a < d /\ d < b
        BY <3>1
      <4> HIDE DEF edges, Neighbours
      <4> QED BY <1>1, <1>3, <3>1, <3>2, <4>1, SameBetweenEdges
    <3>4. Owner(M, s, a) = OwnerAt(bindings, s, t, start)
      <4>1. Owner(M, s, a) = Owner(M, s, t)
        BY <3>3 DEF Owner
      <4> QED BY <1>6, <3>2, <4>1
    <3>5. ASSUME NEW q \in usage, q.start <= t, t < q.end
          PROVE  q = R(<<a, b>>)
      <4>1. PICK c, d \in edges : Neighbours(c, d) /\ q = R(<<c, d>>)
        BY <2>3
      <4>2. q.start = c /\ q.end = d
        BY <1>4, <4>1
      <4>3. /\ a \in Nat /\ b \in Nat /\ c \in Nat /\ d \in Nat
            /\ ~(a < c /\ c < b) /\ ~(a < d /\ d < b)
            /\ ~(c < a /\ a < d) /\ ~(c < b /\ b < d)
        BY <1>1, <2>2, <3>1, <4>1
      <4>4. c = a /\ d = b
        BY <3>1, <3>2, <3>5, <4>2, <4>3
      <4> QED BY <4>1, <4>4
    <3>6. /\ R(<<a, b>>).start = a /\ R(<<a, b>>).end = b
          /\ R(<<a, b>>).owner = Owner(M, s, a)
      BY <1>4
    <3> QED BY <2>4, <3>1, <3>4, <3>5, <3>6
  <2>6. ASSUME NEW r \in usage PROVE left <= r.start /\ r.end <= right
    <3>1. PICK a, b \in edges : Neighbours(a, b) /\ r = R(<<a, b>>)
      BY <2>3
    <3>2. r.start = a /\ r.end = b
      BY <1>4, <3>1
    <3> QED BY <1>1, <2>2, <3>2
  <2>7. left # right
    BY <1>1, <1>10
  <2> QED BY <2>5, <2>6, <2>7 DEF usage, left, right, s
<1> QED BY <1>1, <1>8, <1>9, <1>10

\* OneOwnerPerInstant holds of every behaviour: every instant of a use counts
\* for one owner, who held the account then, whatever histories there are.
THEOREM OneOwnerAlways == Spec => []OneOwnerPerInstant
<1>1. TablesInv => OneOwnerPerInstant
  <2> SUFFICES ASSUME TablesInv PROVE OneOwnerPerInstant
    OBVIOUS
  <2>1. Times \subseteq Nat
    BY SessionsAssumption DEF SessionsAssumption, Times
  <2> QED BY <2>1, OneOwnerOfRow DEF OneOwnerPerInstant
<1> QED BY <1>1, TablesInvariant, PTL

-----------------------------------------------------------------------------
(* Jobs *)

LEMMA MinIsLeast ==
    ASSUME NEW S \in SUBSET Nat, S # {}
    PROVE  Min(S) \in S /\ \A x \in S : Min(S) <= x
  BY HasLeast DEF Min

LEMMA MaxIsGreatest ==
    ASSUME NEW c \in Nat, NEW S \in SUBSET Nat, S # {}, \A x \in S : x <= c
    PROVE  Max(S) \in S /\ \A x \in S : x <= Max(S)
<1> DEFINE D == {c - x : x \in S}
<1>1. D \in SUBSET Nat /\ D # {}
  <2>1. \A x \in S : c - x \in Nat
    OBVIOUS
  <2> QED BY <2>1
<1>2. PICK m \in D : \A d \in D : m <= d
  BY <1>1, HasLeast
<1>3. PICK y \in S : m = c - y
  BY <1>2
<1>4. ASSUME NEW x \in S PROVE y >= x
  <2>1. c - y <= c - x
    BY <1>2, <1>3
  <2> QED BY <2>1
<1>5. Max(S) \in S /\ \A x \in S : Max(S) >= x
  BY <1>3, <1>4 DEF Max
<1>6. \A x \in S : x \in Nat
  OBVIOUS
<1> QED BY <1>5, <1>6

\* A usage lies within its session, and both are in the past.
LEMMA UsageWithinSession ==
    ASSUME TablesInv, NEW row \in DOMAIN usages
    PROVE  /\ row[1] \in DOMAIN sessions
           /\ row[1] \in {SessionId(use[1]) : use \in Uses} /\ row[2] \in Gpus
           /\ sessions[row[1]].first \in Nat /\ sessions[row[1]].last \in Nat
           /\ usages[row].first \in Nat /\ usages[row].last \in Nat
           /\ usages[row].last <= sessions[row[1]].last
           /\ sessions[row[1]].first <= clock
           /\ sessions[row[1]].last <= clock
<1>1. PICK o \in observed : row = <<SessionId(o[2]), o[3]>>
  BY DEF TablesInv, UsagesInv
<1>2. row[1] = SessionId(o[2]) /\ row[2] = o[3]
  BY <1>1
<1>3. /\ o[2] \in {use[1] : use \in Uses} /\ o[3] \in Gpus
      /\ \A w \in observed : w[1] \in Nat /\ w[1] <= clock
  BY DEF TablesInv, QueueInv
<1>4. row[1] \in DOMAIN sessions
  BY <1>2 DEF TablesInv, SessionsInv
<1>5. /\ SessionRow(sessions[row[1]]) /\ Summarises(sessions[row[1]], SeenAt(row[1], Gpus))
      /\ UsageRow(usages[row]) /\ Summarises(usages[row], SeenAt(row[1], {row[2]}))
  BY <1>4 DEF TablesInv, SessionsInv, UsagesInv
<1>6. /\ SeenAt(row[1], {row[2]}) \subseteq SeenAt(row[1], Gpus)
      /\ \A t \in SeenAt(row[1], Gpus) : t <= clock
  BY <1>2, <1>3 DEF SeenAt
<1>7. usages[row].last \in SeenAt(row[1], Gpus)
  BY <1>5, <1>6 DEF Summarises
<1>8. /\ usages[row].last <= sessions[row[1]].last
      /\ sessions[row[1]].first <= clock /\ sessions[row[1]].last <= clock
  BY <1>5, <1>6, <1>7 DEF Summarises
<1> QED BY <1>2, <1>3, <1>4, <1>5, <1>8 DEF SessionRow, UsageRow

\* A job of more rows has all that a job of some of them has.
LEMMA JobOfMore ==
    ASSUME TablesInv, NEW more \in SUBSET DOMAIN usages,
           NEW some \in SUBSET more, some # {}
    PROVE  Shows(JobOf(tables, more), JobOf(tables, some))
<1> DEFINE Of(rows) == {sessions[row[1]] : row \in rows}
           Firsts(rows) == {s.first : s \in Of(rows)}
           Lasts(rows) == {s.last : s \in Of(rows)}
           Status(rows) == IF \E s \in Of(rows) : s.status = "running"
                           THEN "running" ELSE "ended"
           Job(rows) == [ids |-> {row[1] : row \in rows},
                         gpus |-> {row[2] : row \in rows},
                         started |-> Min(Firsts(rows)), last |-> Max(Lasts(rows)),
                         status |-> Status(rows)]
<1>1. \A rows : JobOf(tables, rows) = Job(rows)
  BY DEF JobOf, tables
<1>2. ASSUME NEW rows \in SUBSET DOMAIN usages, rows # {}
      PROVE  /\ Firsts(rows) \in SUBSET Nat /\ Firsts(rows) # {}
             /\ Lasts(rows) \in SUBSET Nat /\ Lasts(rows) # {}
             /\ \A x \in Lasts(rows) : x <= clock
  BY <1>2, UsageWithinSession
<1>3. Firsts(some) \subseteq Firsts(more) /\ Lasts(some) \subseteq Lasts(more)
  OBVIOUS
<1>4. some \in SUBSET DOMAIN usages /\ more # {} /\ clock \in Nat
  BY DEF TablesInv, QueueInv
<1>5. /\ {row[1] : row \in more} \in SUBSET {SessionId(use[1]) : use \in Uses}
      /\ {row[2] : row \in more} \in SUBSET Gpus
  BY UsageWithinSession
<1>6. /\ {row[1] : row \in some} \subseteq {row[1] : row \in more}
      /\ {row[2] : row \in some} \subseteq {row[2] : row \in more}
  OBVIOUS
<1>7. Status(more) \in {"running", "ended"}
  OBVIOUS
<1> HIDE DEF Firsts, Lasts, Status
<1>8. /\ Min(Firsts(some)) \in Firsts(some)
      /\ Min(Firsts(more)) \in Nat
      /\ \A x \in Firsts(more) : Min(Firsts(more)) <= x
  BY <1>2, <1>4, MinIsLeast
<1>9. /\ Max(Lasts(some)) \in Lasts(some)
      /\ Max(Lasts(more)) \in Nat
      /\ \A x \in Lasts(more) : x <= Max(Lasts(more))
  BY <1>2, <1>4, MaxIsGreatest
<1>10. /\ Min(Firsts(more)) <= Min(Firsts(some))
       /\ Max(Lasts(some)) <= Max(Lasts(more))
  BY <1>3, <1>8, <1>9
<1>11. Job(more) # None
  <2> DEFINE JobType == [ids : SUBSET {SessionId(use[1]) : use \in Uses}, gpus : SUBSET Gpus,
                         started : Nat, last : Nat, status : {"running", "ended"}]
  <2>1. None \notin JobType
    BY SessionsAssumption DEF SessionsAssumption
  <2>2. Job(more) \in JobType
    BY <1>5, <1>7, <1>8, <1>9
  <2> HIDE DEF JobType, Job
  <2> QED BY <2>1, <2>2
<1> QED BY <1>1, <1>6, <1>10, <1>11 DEF Shows

\* The rows of a key.
RowsOf(key, rows) == {row \in rows : KeyOf(tables, row[1]) = key}

\* GetJob(tables, key, clock) groups these.
FoundRows(key) ==
    {row \in JobRows(tables, clock - Lookback, clock) :
        /\ tables.sessions[row[1]].user = key.user
        /\ OwnedBy(tables.sessions[row[1]], key.owner)}

LEMMA GroupedJobs ==
    ASSUME NEW rows
    PROVE  /\ DOMAIN GroupJobs(tables, rows) = {KeyOf(tables, row[1]) : row \in rows}
           /\ \A key \in DOMAIN GroupJobs(tables, rows) :
                 GroupJobs(tables, rows)[key] = JobOf(tables, RowsOf(key, rows))
  BY DEF GroupJobs, RowsOf

\* The prefilter of get_job passes over no row of the key: the owner that a key
\* names is the session's process or its parent.
LEMMA RowIsFound ==
    ASSUME TablesInv, NEW row \in DOMAIN usages,
           sessions[row[1]].last >= clock - Lookback
    PROVE  row \in RowsOf(KeyOf(tables, row[1]), FoundRows(KeyOf(tables, row[1])))
<1> DEFINE s == sessions[row[1]]
           key == KeyOf(tables, row[1])
<1>1. tables.sessions = sessions /\ tables.usages = usages
  BY DEF tables
<1>2. key = JobKey(s, s.first)
  BY <1>1 DEF KeyOf
<1>3. key.user = s.user /\ (key.owner = s.pid \/ key.owner = s.ppid)
  BY <1>2 DEF JobKey
<1>4. s.first <= clock
  BY UsageWithinSession
<1>5. row \in JobRows(tables, clock - Lookback, clock)
  BY <1>1, <1>4 DEF JobRows
<1> HIDE DEF key
<1>6. row \in FoundRows(key)
  BY <1>1, <1>3, <1>5 DEF FoundRows, OwnedBy
<1> QED BY <1>6 DEF RowsOf, key

\* What get_job finds for a key is the job of all its rows of the last 30 days.
LEMMA JobOfKey ==
    ASSUME TablesInv, NEW key, NEW rows \in SUBSET DOMAIN usages, rows # {},
           \A row \in rows : /\ KeyOf(tables, row[1]) = key
                             /\ sessions[row[1]].last >= clock - Lookback
    PROVE  Shows(GetJob(tables, key, clock), JobOf(tables, rows))
<1> DEFINE found == FoundRows(key)
           jobs == GroupJobs(tables, found)
           more == RowsOf(key, found)
<1>1. GetJob(tables, key, clock) = IF key \in DOMAIN jobs THEN jobs[key] ELSE None
  BY DEF GetJob, FoundRows
<1>2. rows \subseteq more
  BY RowIsFound
<1>3. more \in SUBSET DOMAIN usages /\ more \subseteq found
  BY DEF RowsOf, FoundRows, JobRows, tables
<1>4. key \in DOMAIN jobs /\ jobs[key] = JobOf(tables, more)
  <2>1. \E row \in found : KeyOf(tables, row[1]) = key
    BY <1>2, <1>3
  <2> QED BY <2>1, GroupedJobs
<1> HIDE DEF more, jobs
<1> QED BY <1>1, <1>2, <1>3, <1>4, JobOfMore

LEMMA ListedJobs ==
    ASSUME TablesInv, NEW start \in Nat, NEW end, NEW pid, start >= clock - Lookback,
           NEW key \in DOMAIN QueryJobs(tables, start, end, None, pid)
    PROVE  Shows(GetJob(tables, key, clock), QueryJobs(tables, start, end, None, pid)[key])
<1> DEFINE all == JobRows(tables, start, end)
           jobs == GroupJobs(tables, all)
           rows == RowsOf(key, all)
<1>1. key \in DOMAIN jobs /\ QueryJobs(tables, start, end, None, pid)[key] = jobs[key]
  BY DEF QueryJobs
<1>2. jobs[key] = JobOf(tables, rows) /\ \E row \in all : KeyOf(tables, row[1]) = key
  BY <1>1, GroupedJobs
<1>3. all \subseteq DOMAIN usages /\ \A row \in all : sessions[row[1]].last >= start
  BY DEF JobRows, tables
<1>4. rows # {} /\ rows \in SUBSET DOMAIN usages
  BY <1>2, <1>3 DEF RowsOf
<1>5. ASSUME NEW row \in rows
      PROVE  KeyOf(tables, row[1]) = key /\ sessions[row[1]].last >= clock - Lookback
  <2>1. KeyOf(tables, row[1]) = key /\ row \in all
    BY DEF RowsOf
  <2>2. sessions[row[1]].last \in Nat /\ clock \in Nat /\ Lookback \in Nat
    BY <1>3, <2>1, UsageWithinSession, AccountingAssumption
       DEF AccountingAssumption, TablesInv, QueueInv
  <2> QED BY <1>3, <2>1, <2>2
<1> HIDE DEF rows, jobs
<1>6. Shows(GetJob(tables, key, clock), JobOf(tables, rows))
  BY <1>4, <1>5, JobOfKey
<1> QED BY <1>1, <1>2, <1>6

\* The activity page reaches no further back than jobs are found.
LEMMA PageIsFound ==
    ASSUME NEW now \in Nat
    PROVE  PageStart(now) \in Int /\ PageStart(now) >= now - Lookback
<1> DEFINE D == DayLength
           day == now \div D
<1>1. D \in Nat \ {0} /\ Period \in Nat /\ Lookback \in Nat /\ Period * D <= Lookback
  BY AccountingAssumption DEF AccountingAssumption
<1>2. day \in Nat /\ now < day * D + D
  BY <1>1
<1> HIDE DEF day, D
<1>3. (day - (Period - 1)) * D = day * D - Period * D + D
  BY <1>1, <1>2
<1>4. day * D \in Nat /\ Period * D \in Nat
  BY <1>1, <1>2
<1>5. PageStart(now) = (day - (Period - 1)) * D
  BY DEF PageStart, day, D
<1> DEFINE x == day * D
           y == Period * D
<1>6. x \in Nat /\ y \in Nat /\ y <= Lookback /\ now < x + D /\ PageStart(now) = x - y + D
  BY <1>1, <1>2, <1>3, <1>4, <1>5
<1> HIDE DEF x, y
<1> QED BY <1>1, <1>6

LEMMA ActivityIsFound ==
    ASSUME TablesInv, NEW bindings, NEW user,
           NEW key \in DOMAIN ActivityJobs(ReadActivity(tables, bindings, user, clock))
    PROVE  LET jobs == ActivityJobs(ReadActivity(tables, bindings, user, clock))
           IN  /\ GetJob(tables, key, clock) # None
               /\ jobs[key].ids \subseteq GetJob(tables, key, clock).ids
<1> DEFINE records == ReadActivity(tables, bindings, user, clock)
           items == {r \in records : r.key = key}
           rows == {r.row : r \in items}
           page == {row \in DOMAIN usages : usages[row].last >= PageStart(clock)}
<1>1. key \in {r.key : r \in records} /\ ActivityJobs(records)[key].ids = {r.row[1] : r \in items}
  BY DEF ActivityJobs
<1>2. \A r \in records : r.row \in page /\ r.key = KeyOf(tables, r.row[1])
  <2>1. ASSUME NEW row, NEW r \in ResolveRow(tables, row, bindings, PageStart(clock), clock)
        PROVE  r.row = row /\ r.key = KeyOf(tables, row[1])
    BY DEF ResolveRow
  <2>2. ASSUME NEW r \in records
        PROVE  \E row \in page : r \in ResolveRow(tables, row, bindings, PageStart(clock), clock)
    BY <2>2 DEF ReadActivity, ResolveUsage, tables
  <2> HIDE DEF records, page
  <2> QED BY <2>1, <2>2
<1> HIDE DEF records
<1>3. rows # {} /\ rows \in SUBSET DOMAIN usages
  BY <1>1, <1>2
<1>4. ASSUME NEW row \in rows
      PROVE  KeyOf(tables, row[1]) = key /\ sessions[row[1]].last >= clock - Lookback
  <2>1. KeyOf(tables, row[1]) = key /\ row \in page
    BY <1>2
  <2>2. /\ sessions[row[1]].last \in Nat /\ usages[row].last \in Nat
        /\ usages[row].last <= sessions[row[1]].last /\ usages[row].last >= PageStart(clock)
    BY <2>1, UsageWithinSession
  <2>3. /\ clock \in Nat /\ Lookback \in Nat
        /\ PageStart(clock) \in Int /\ PageStart(clock) >= clock - Lookback
    BY PageIsFound, AccountingAssumption DEF AccountingAssumption, TablesInv, QueueInv
  <2> QED BY <2>1, <2>2, <2>3
<1>5. JobOf(tables, rows).ids = {r.row[1] : r \in items}
  BY DEF JobOf
<1> HIDE DEF rows, items
<1>6. Shows(GetJob(tables, key, clock), JobOf(tables, rows))
  BY <1>3, <1>4, JobOfKey
<1> QED BY <1>1, <1>5, <1>6 DEF Shows, records

\* The ends of a job that is found are times.
LEMMA JobTimes ==
    ASSUME TablesInv, NEW key, GetJob(tables, key, clock) # None
    PROVE  /\ GetJob(tables, key, clock).started \in Nat
           /\ GetJob(tables, key, clock).last \in Nat
<1> DEFINE found == FoundRows(key)
           jobs == GroupJobs(tables, found)
           rows == RowsOf(key, found)
           firsts == {s.first : s \in {sessions[row[1]] : row \in rows}}
           lasts == {s.last : s \in {sessions[row[1]] : row \in rows}}
<1>1. GetJob(tables, key, clock) = IF key \in DOMAIN jobs THEN jobs[key] ELSE None
  BY DEF GetJob, FoundRows
<1> HIDE DEF found
<1>2. key \in DOMAIN jobs /\ jobs[key] = JobOf(tables, rows)
  <2>1. key \in DOMAIN jobs
    <3> HIDE DEF jobs
    <3> QED BY <1>1
  <2> QED BY <2>1, GroupedJobs
<1>3. \E row \in found : KeyOf(tables, row[1]) = key
  <2>1. DOMAIN jobs = {KeyOf(tables, row[1]) : row \in found}
    BY GroupedJobs
  <2> HIDE DEF jobs
  <2> QED BY <1>2, <2>1
<1>4. rows \in SUBSET DOMAIN usages /\ rows # {}
  <2>1. found \subseteq DOMAIN usages
    BY DEF found, FoundRows, JobRows, tables
  <2> QED BY <1>3, <2>1 DEF RowsOf
<1>5. /\ firsts \in SUBSET Nat /\ firsts # {} /\ lasts \in SUBSET Nat /\ lasts # {}
      /\ \A x \in lasts : x <= clock
  BY <1>4, UsageWithinSession
<1>6. JobOf(tables, rows).started = Min(firsts) /\ JobOf(tables, rows).last = Max(lasts)
  BY DEF JobOf, tables
<1>7. clock \in Nat
  BY DEF TablesInv, QueueInv
<1> HIDE DEF rows, jobs, firsts, lasts
<1>8. Min(firsts) \in Nat /\ Max(lasts) \in Nat
  BY <1>5, <1>7, MinIsLeast, MaxIsGreatest
<1> QED BY <1>1, <1>2, <1>6, <1>8

\* A job that no other session shared its GPUs with had them to itself.
LEMMA NobodyMeanwhile ==
    ASSUME TablesInv, NEW job, ConcurrentSessions(tables, job) = {},
           job.started \in Nat, job.last \in Nat,
           NEW o \in observed, o[3] \in job.gpus, o[1] \in job.started .. job.last,
           SessionId(o[2]) \notin job.ids
    PROVE  FALSE
<1> DEFINE row == <<SessionId(o[2]), o[3]>>
<1>1. row[1] = SessionId(o[2]) /\ row[2] = o[3]
  OBVIOUS
<1>2. row \in DOMAIN usages
  BY DEF TablesInv, UsagesInv
<1> HIDE DEF row
<1>3. o[1] \in SeenAt(row[1], {row[2]})
  BY <1>1 DEF SeenAt
<1>4. UsageRow(usages[row]) /\ Summarises(usages[row], SeenAt(row[1], {row[2]}))
  BY <1>2 DEF TablesInv, UsagesInv
<1>5. usages[row].first <= o[1] /\ o[1] <= usages[row].last
  BY <1>3, <1>4 DEF Summarises
<1>6. usages[row].first <= job.last /\ usages[row].last >= job.started
  BY <1>4, <1>5 DEF UsageRow
<1>7. row \in ConcurrentSessions(tables, job)
  BY <1>1, <1>2, <1>6 DEF ConcurrentSessions, tables
<1> QED BY <1>7

\* JobFoundByItsKey holds of every behaviour: what the job list or an activity
\* page shows is found by its key, though get_job reads by an owner's pid.
THEOREM JobFoundAlways == Spec => []JobFoundByItsKey
<1>1. TablesInv => JobFoundByItsKey
  <2> SUFFICES ASSUME TablesInv PROVE JobFoundByItsKey
    OBVIOUS
  <2>1. ASSUME NEW start \in Times, NEW end \in Times, start >= clock - Lookback, NEW pid,
               NEW key \in DOMAIN QueryJobs(tables, start, end, None, pid)
        PROVE  Shows(GetJob(tables, key, clock), QueryJobs(tables, start, end, None, pid)[key])
    <3>1. start \in Nat
      BY SessionsAssumption DEF SessionsAssumption, Times
    <3> QED BY <2>1, <3>1, ListedJobs
  <2>2. ASSUME NEW row \in DOMAIN usages,
               GetJob(tables, KeyOf(tables, row[1]), clock) # None,
               ConcurrentSessions(tables, GetJob(tables, KeyOf(tables, row[1]), clock)) = {},
               NEW o \in observed
        PROVE  LET job == GetJob(tables, KeyOf(tables, row[1]), clock)
               IN ~ (/\ o[3] \in job.gpus /\ o[1] \in job.started .. job.last
                     /\ SessionId(o[2]) \notin job.ids)
    <3> DEFINE job == GetJob(tables, KeyOf(tables, row[1]), clock)
    <3>1. job.started \in Nat /\ job.last \in Nat
      BY <2>2, JobTimes
    <3> HIDE DEF job
    <3> QED BY <2>2, <3>1, NobodyMeanwhile DEF job
  <2> QED BY <2>1, <2>2, ActivityIsFound DEF JobFoundByItsKey
<1> QED BY <1>1, TablesInvariant, PTL

-----------------------------------------------------------------------------
(* Sums and sorted sequences *)

\* Finitely many finite sets, none with an element of another.
Family(M, D) ==
    /\ IsFiniteSet(D) /\ DOMAIN M = D
    /\ \A x \in D : IsFiniteSet(M[x])
    /\ \A x, y \in D : x # y => M[x] \cap M[y] = {}

AddsUp(M, D) ==
    /\ IsFiniteSet(UNION {M[x] : x \in D})
    /\ Total([x \in D |-> Cardinality(M[x])]) = Cardinality(UNION {M[x] : x \in D})

\* Sets that have no element in common are counted one by one.
LEMMA Counted ==
    ASSUME NEW D, NEW M, Family(M, D)
    PROVE  AddsUp(M, D)
<1>a. IsFiniteSet(D) /\ DOMAIN M = D
  BY DEF Family
<1>b. \A x \in D : IsFiniteSet(M[x])
  BY DEF Family
<1>c. \A x, y \in D : x # y => M[x] \cap M[y] = {}
  BY DEF Family
<1> USE <1>a, <1>b, <1>c
<1> DEFINE n == [x \in D |-> Cardinality(M[x])]
           P == UNION {{x} \X (1..n[x]) : x \in D}
           U == UNION {M[x] : x \in D}
<1>1. \A x \in D : /\ n[x] \in Nat /\ n[x] = Cardinality(M[x])
                   /\ ExistsBijection(1..n[x], M[x])
  BY FS_CardinalityType
<1> HIDE DEF n
<1>2. IsFiniteSet(P)
  <2> DEFINE F == [x \in D |-> {x} \X (1..n[x])]
             Q == {{x} \X (1..n[x]) : x \in D}
  <2>1. \A T \in Q : IsFiniteSet(T)
    <3> SUFFICES ASSUME NEW x \in D PROVE IsFiniteSet({x} \X (1..n[x]))
      OBVIOUS
    <3>1. n[x] \in Int /\ 1 \in Int
      BY <1>1
    <3>2. IsFiniteSet({x}) /\ IsFiniteSet(1..n[x])
      BY <3>1, FS_Singleton, FS_Interval
    <3> QED BY <3>2, FS_Product
  <2>2. F \in Surjection(D, Q)
    BY DEF Surjection
  <2> HIDE DEF Q, F
  <2>3. IsFiniteSet(Q)
    BY <2>2, FS_Surjection
  <2>4. IsFiniteSet(UNION Q)
    BY <2>1, <2>3, FS_UNION
  <2> QED BY <2>4 DEF Q
<1> DEFINE B(x) == CHOOSE f \in Bijection(1..n[x], M[x]) : TRUE
<1>3. ASSUME NEW x \in D PROVE B(x) \in Bijection(1..n[x], M[x])
  BY <1>1 DEF ExistsBijection
<1> HIDE DEF B
<1>4. ASSUME NEW x \in D
      PROVE  /\ \A k \in 1..n[x] : B(x)[k] \in M[x]
             /\ \A j, k \in 1..n[x] : B(x)[j] = B(x)[k] => j = k
             /\ \A e \in M[x] : \E k \in 1..n[x] : B(x)[k] = e
  <2> DEFINE f == B(x)
  <2>1. f \in Bijection(1..n[x], M[x])
    BY <1>3
  <2> HIDE DEF f
  <2>2. f \in [1..n[x] -> M[x]] /\ IsInjective(f) /\ f \in Surjection(1..n[x], M[x])
    BY <2>1 DEF Bijection, Injection, Surjection
  <2>3. \A k \in 1..n[x] : f[k] \in M[x]
    BY <2>2
  <2>4. \A j, k \in 1..n[x] : f[j] = f[k] => j = k
    BY <2>2 DEF IsInjective
  <2>5. \A e \in M[x] : \E k \in 1..n[x] : f[k] = e
    BY <2>2 DEF Surjection
  <2> QED BY <2>3, <2>4, <2>5 DEF f
<1> DEFINE G == [p \in P |-> B(p[1])[p[2]]]
<1>5. \A p \in P : p[1] \in D /\ p[2] \in 1..n[p[1]] /\ p = <<p[1], p[2]>>
  OBVIOUS
<1>6. \A x \in D : \A k \in 1..n[x] : <<x, k>> \in P
  OBVIOUS
<1> HIDE DEF P
<1>7. \A p \in P : G[p] \in M[p[1]] /\ p[1] \in D
  BY <1>4, <1>5
<1>8. G \in [P -> U]
  BY <1>7
<1>9. ASSUME NEW p \in P, NEW q \in P, G[p] = G[q] PROVE p = q
  <2>1. p[1] = q[1]
    <3>1. G[p] \in M[p[1]] \cap M[q[1]]
      BY <1>7, <1>9
    <3> HIDE DEF G
    <3> QED BY <1>5, <3>1
  <2>2. p[2] = q[2]
    <3>1. B(p[1])[p[2]] = B(p[1])[q[2]]
      BY <1>9, <2>1
    <3> QED BY <1>4, <1>5, <2>1, <3>1
  <2> QED BY <1>5, <2>1, <2>2
<1>10. ASSUME NEW e \in U PROVE \E p \in P : G[p] = e
  <2>1. PICK x \in D : e \in M[x]
    OBVIOUS
  <2>2. PICK k \in 1..n[x] : B(x)[k] = e
    BY <1>4, <2>1
  <2>3. <<x, k>> \in P /\ <<x, k>>[1] = x /\ <<x, k>>[2] = k
    BY <1>6
  <2>4. G[<<x, k>>] = e
    BY <2>2, <2>3
  <2> HIDE DEF G
  <2> QED BY <2>3, <2>4
<1> HIDE DEF G, U
<1>11. G \in Bijection(P, U)
  BY <1>8, <1>9, <1>10 DEF Bijection, Injection, Surjection, IsInjective
<1>12. IsFiniteSet(U) /\ Cardinality(U) = Cardinality(P)
  BY <1>2, <1>11, FS_Bijection DEF ExistsBijection
<1>13. Total(n) = Cardinality(P)
  <2>1. DOMAIN n = D
    BY DEF n
  <2> QED BY <2>1 DEF Total, P
<1> QED BY <1>12, <1>13 DEF AddsUp, U, n

\* A total of equal numbers is a product.
LEMMA TotalOfEqual ==
    ASSUME NEW D, IsFiniteSet(D), NEW n \in Nat
    PROVE  Total([x \in D |-> n]) = Cardinality(D) * n
<1>1. UNION {{x} \X (1..n) : x \in D} = D \X (1..n)
  OBVIOUS
<1>2. IsFiniteSet(1..n) /\ Cardinality(1..n) = n
  BY FS_Interval
<1>3. Cardinality(D \X (1..n)) = Cardinality(D) * n
  BY <1>2, FS_Product
<1> DEFINE f == [x \in D |-> n]
<1>4. UNION {{x} \X (1..f[x]) : x \in DOMAIN f} = D \X (1..n)
  <2>1. {{x} \X (1..f[x]) : x \in DOMAIN f} = {{x} \X (1..n) : x \in D}
    OBVIOUS
  <2> QED BY <1>1, <2>1
<1> HIDE DEF f
<1>5. Total(f) = Cardinality(D) * n
  BY <1>3, <1>4 DEF Total
<1> QED BY <1>5 DEF f

\* Pairs of an element of T and one of its n.
LEMMA CountedEqually ==
    ASSUME NEW T, IsFiniteSet(T), NEW A, DOMAIN A = T, NEW n \in Nat,
           \A t \in T : IsFiniteSet(A[t]) /\ Cardinality(A[t]) = n
    PROVE  /\ IsFiniteSet(UNION {{t} \X A[t] : t \in T})
           /\ Cardinality(UNION {{t} \X A[t] : t \in T}) = Cardinality(T) * n
<1> DEFINE M == [t \in T |-> {t} \X A[t]]
<1>1. ASSUME NEW t \in T
      PROVE  IsFiniteSet({t} \X A[t]) /\ Cardinality({t} \X A[t]) = n
  <2>1. IsFiniteSet({t}) /\ Cardinality({t}) = 1
    BY FS_Singleton
  <2>2. IsFiniteSet({t} \X A[t]) /\ Cardinality({t} \X A[t]) = Cardinality({t}) * Cardinality(A[t])
    BY <2>1, FS_Product
  <2> QED BY <2>1, <2>2
<1>2. \A t \in T : M[t] = {t} \X A[t]
  OBVIOUS
<1>3. DOMAIN M = T
  OBVIOUS
<1>4. \A x, y \in T : x # y => M[x] \cap M[y] = {}
  OBVIOUS
<1>5. UNION {M[t] : t \in T} = UNION {{t} \X A[t] : t \in T}
  OBVIOUS
<1>6. [t \in T |-> Cardinality(M[t])] = [t \in T |-> n]
  <2> HIDE DEF M
  <2> QED BY <1>1, <1>2
<1> HIDE DEF M
<1>7. /\ IsFiniteSet(UNION {M[t] : t \in T})
      /\ Total([t \in T |-> Cardinality(M[t])]) = Cardinality(UNION {M[t] : t \in T})
  <2>1. \A t \in T : IsFiniteSet(M[t])
    BY <1>1, <1>2
  <2>2. Family(M, T)
    BY <1>3, <1>4, <2>1 DEF Family
  <2>3. AddsUp(M, T)
    BY <2>2, Counted
  <2> QED BY <2>3 DEF AddsUp
<1> QED BY <1>5, <1>6, <1>7, TotalOfEqual

\* A finite set with a linear order comes in that order, and all of it.
LEMMA SortedInOrder ==
    ASSUME NEW S, IsFiniteSet(S), NEW R,
           \A x \in S : <<x, x>> \in R,
           \A x, y \in S : <<x, y>> \in R \/ <<y, x>> \in R,
           \A x, y \in S : <<x, y>> \in R /\ <<y, x>> \in R => x = y,
           \A x, y, z \in S : <<x, y>> \in R /\ <<y, z>> \in R => <<x, z>> \in R
    PROVE  LET s == InOrder(S, R)
           IN  /\ s \in Seq(S) /\ Len(s) = Cardinality(S)
               /\ \A x \in S : \E k \in 1..Len(s) : s[k] = x
               /\ \A j, k \in 1..Len(s) :
                     j < k => <<s[j], s[k]>> \in R /\ s[j] # s[k]
<1> DEFINE n == Cardinality(S)
           Up(x) == {y \in S : <<y, x>> \in R}
           N == [x \in S |-> Cardinality(Up(x))]
           s == InOrder(S, R)
<1>1. n \in Nat
  BY FS_CardinalityType
<1>2. ASSUME NEW x \in S PROVE IsFiniteSet(Up(x)) /\ N[x] \in 1..n
  <2>1. Up(x) \in SUBSET S /\ Up(x) # {} /\ N[x] = Cardinality(Up(x))
    OBVIOUS
  <2> HIDE DEF Up, N
  <2>2. IsFiniteSet(Up(x)) /\ Cardinality(Up(x)) <= n /\ Cardinality(Up(x)) # 0
        /\ Cardinality(Up(x)) \in Nat
    BY <2>1, FS_Subset, FS_EmptySet, FS_CardinalityType
  <2> QED BY <1>1, <2>1, <2>2
<1>3. ASSUME NEW x \in S, NEW y \in S, x # y, <<x, y>> \in R PROVE N[x] < N[y]
  <2>1. Up(x) \in SUBSET Up(y) /\ y \in Up(y) /\ y \notin Up(x)
    BY <1>3
  <2>2. IsFiniteSet(Up(y)) /\ N[x] \in Nat /\ N[y] \in Nat
    BY <1>2
  <2>3. N[x] = Cardinality(Up(x)) /\ N[y] = Cardinality(Up(y))
    OBVIOUS
  <2> HIDE DEF Up, N
  <2>4. Cardinality(Up(x)) <= Cardinality(Up(y))
        /\ (Cardinality(Up(y)) = Cardinality(Up(x)) => Up(y) = Up(x))
    BY <2>1, <2>2, FS_Subset
  <2> QED BY <2>1, <2>2, <2>3, <2>4
<1>4. \A x, y \in S : N[x] = N[y] => x = y
  <2> SUFFICES ASSUME NEW x \in S, NEW y \in S, N[x] = N[y], x # y PROVE FALSE
    OBVIOUS
  <2>1. N[x] \in Int /\ N[y] \in Int
    BY <1>2
  <2>2. N[x] < N[y] \/ N[y] < N[x]
    <3> HIDE DEF N
    <3> QED BY <1>3
  <2> HIDE DEF N
  <2> QED BY <2>1, <2>2
<1>5. N \in [S -> 1..n]
  <2>1. \A x \in S : N[x] \in 1..n
    BY <1>2
  <2> QED BY <2>1
<1>6. \A k \in 1..n : \E x \in S : N[x] = k
  <2>1. N \in Injection(S, 1..n)
    <3> HIDE DEF N, n
    <3> QED BY <1>4, <1>5 DEF Injection, IsInjective
  <2>2. 1 \in Int /\ n \in Int /\ ~(1 > n /\ n # 0)
    BY <1>1
  <2>3. IsFiniteSet(1..n) /\ Cardinality(1..n) = n
    <3> HIDE DEF n
    <3> QED BY <1>1, <2>2, FS_Interval
  <2>4. N \in Surjection(S, 1..n)
    <3> HIDE DEF N
    <3> QED BY <2>1, <2>3, FS_Injection
  <2> HIDE DEF N, n
  <2> QED BY <2>4 DEF Surjection
<1>7. s = [k \in 1..n |-> CHOOSE x \in S : Cardinality(Up(x)) = k]
  BY DEF InOrder
<1> HIDE DEF s
<1>8. ASSUME NEW k \in 1..n PROVE s[k] \in S /\ N[s[k]] = k
  <2>1. PICK x \in S : Cardinality(Up(x)) = k
    BY <1>6
  <2>2. s[k] \in S /\ Cardinality(Up(s[k])) = k
    <3> HIDE DEF Up, n
    <3> QED BY <1>7, <2>1
  <2> QED BY <2>2
<1>9. s \in [1..n -> S]
  <2> HIDE DEF N, Up, n
  <2>1. \A k \in 1..n : s[k] \in S
    BY <1>8
  <2> QED BY <1>7, <2>1
<1> HIDE DEF N, n
<1>10. s \in Seq(S) /\ Len(s) = n
  BY <1>1, <1>9
<1>11. ASSUME NEW x \in S PROVE \E k \in 1..n : s[k] = x
  BY <1>2, <1>4, <1>8
<1>12. ASSUME NEW j \in 1..n, NEW k \in 1..n, j < k
       PROVE  <<s[j], s[k]>> \in R /\ s[j] # s[k]
  <2>1. s[j] # s[k]
    BY <1>8, <1>12
  <2>2. <<s[k], s[j]>> \notin R
    BY <1>3, <1>8, <1>12, <2>1
  <2> QED BY <1>8, <2>1, <2>2
<1> QED BY <1>10, <1>11, <1>12 DEF s, n

\* Times in their order.
LEMMA SortedTimes ==
    ASSUME NEW S \in SUBSET Int, IsFiniteSet(S)
    PROVE  LET s == InOrder(S, TimeOrder(S))
           IN  /\ s \in Seq(S) /\ Len(s) \in Nat
               /\ \A x \in S : \E k \in 1..Len(s) : s[k] = x
               /\ \A j, k \in 1..Len(s) : j < k => s[j] < s[k]
<1> DEFINE R == TimeOrder(S)  s == InOrder(S, R)
<1>1. \A x, y \in S : <<x, y>> \in R <=> x <= y
  BY DEF TimeOrder
<1> HIDE DEF R
<1>2. /\ \A x \in S : <<x, x>> \in R
      /\ \A x, y \in S : <<x, y>> \in R \/ <<y, x>> \in R
      /\ \A x, y \in S : <<x, y>> \in R /\ <<y, x>> \in R => x = y
      /\ \A x, y, z \in S : <<x, y>> \in R /\ <<y, z>> \in R => <<x, z>> \in R
  BY <1>1
<1>3. /\ s \in Seq(S) /\ Len(s) = Cardinality(S)
      /\ \A x \in S : \E k \in 1..Len(s) : s[k] = x
      /\ \A j, k \in 1..Len(s) : j < k => <<s[j], s[k]>> \in R /\ s[j] # s[k]
  BY <1>2, SortedInOrder
<1> HIDE DEF s
<1>4. \A k \in 1..Len(s) : s[k] \in S
  BY <1>3, ElementOfSeq
<1>5. ASSUME NEW j \in 1..Len(s), NEW k \in 1..Len(s), j < k
      PROVE  s[j] < s[k]
  <2>1. s[j] \in S /\ s[k] \in S /\ <<s[j], s[k]>> \in R /\ s[j] # s[k]
    BY <1>3, <1>4, <1>5
  <2>2. s[j] \in Int /\ s[k] \in Int /\ s[j] <= s[k]
    BY <1>1, <2>1
  <2> QED BY <2>1, <2>2
<1>6. Len(s) \in Nat
  BY <1>3, FS_CardinalityType
<1> QED BY <1>3, <1>5, <1>6 DEF s, R

\* Spans in theirs.
LEMMA SortedSpans ==
    ASSUME NEW S \in SUBSET (Int \X Int), IsFiniteSet(S)
    PROVE  LET s == InOrder(S, SpanOrder(S))
           IN  /\ s \in Seq(S) /\ Len(s) \in Nat
               /\ \A x \in S : \E k \in 1..Len(s) : s[k] = x
               /\ \A j, k \in 1..Len(s) : j < k => s[j][1] <= s[k][1]
<1> DEFINE R == SpanOrder(S)  s == InOrder(S, R)
<1>1. \A x, y \in S : <<x, y>> \in R <=> Earlier(x, y)
  BY DEF SpanOrder
<1>2. \A x \in S : x[1] \in Int /\ x[2] \in Int /\ x = <<x[1], x[2]>>
  OBVIOUS
<1> HIDE DEF R
<1>3. /\ \A x \in S : <<x, x>> \in R
      /\ \A x, y \in S : <<x, y>> \in R \/ <<y, x>> \in R
  BY <1>1, <1>2 DEF Earlier
<1>4. \A x, y \in S : <<x, y>> \in R /\ <<y, x>> \in R => x = y
  <2> SUFFICES ASSUME NEW x \in S, NEW y \in S, Earlier(x, y), Earlier(y, x)
               PROVE  x = y
    BY <1>1
  <2>1. x[1] = y[1] /\ x[2] = y[2]
    BY <1>2 DEF Earlier
  <2> QED BY <1>2, <2>1
<1>5. \A x, y, z \in S : <<x, y>> \in R /\ <<y, z>> \in R => <<x, z>> \in R
  BY <1>1, <1>2 DEF Earlier
<1>6. /\ s \in Seq(S) /\ Len(s) = Cardinality(S)
      /\ \A x \in S : \E k \in 1..Len(s) : s[k] = x
      /\ \A j, k \in 1..Len(s) : j < k => <<s[j], s[k]>> \in R /\ s[j] # s[k]
  BY <1>3, <1>4, <1>5, SortedInOrder
<1> HIDE DEF s
<1>7. \A k \in 1..Len(s) : s[k] \in S
  BY <1>6, ElementOfSeq
<1>8. ASSUME NEW j \in 1..Len(s), NEW k \in 1..Len(s), j < k
      PROVE  s[j][1] <= s[k][1]
  <2>1. s[j] \in S /\ s[k] \in S /\ <<s[j], s[k]>> \in R
    BY <1>6, <1>7, <1>8
  <2>2. s[j][1] \in Int /\ s[k][1] \in Int /\ Earlier(s[j], s[k])
    BY <1>1, <1>2, <2>1
  <2> QED BY <2>2 DEF Earlier
<1>9. Len(s) \in Nat
  BY <1>6, FS_CardinalityType
<1> QED BY <1>6, <1>8, <1>9 DEF s, R

-----------------------------------------------------------------------------
(* Merged spans *)

\* An instant within a span.
In(t, span) == span[1] <= t /\ t < span[2]

\* Spans that are not empty and do not touch, in order.
Apart(m) ==
    /\ m \in Seq(Int \X Int)
    /\ \A i \in 1..Len(m) : m[i][1] < m[i][2]
    /\ \A i, j \in 1..Len(m) : i < j => m[i][2] < m[j][1]

\* A span that begins no earlier than the last one joins the others.
LEMMA JoinedApart ==
    ASSUME NEW m, Apart(m), NEW span \in Int \X Int, span[1] < span[2],
           m # <<>> => m[Len(m)][1] <= span[1]
    PROVE  LET new == Joined(m, span)
           IN  /\ Apart(new) /\ Len(new) \in Nat \ {0}
               /\ new[Len(new)][1] <= span[1]
               /\ \A t \in Int : (\E i \in 1..Len(new) : In(t, new[i]))
                                   <=> (\E i \in 1..Len(m) : In(t, m[i])) \/ In(t, span)
<1> DEFINE L == Len(m)
           new == Joined(m, span)
<1>1. /\ m \in Seq(Int \X Int) /\ L \in Nat /\ (m # <<>> => L \in 1..L)
      /\ \A i \in 1..L : m[i] \in Int \X Int
  BY EmptySeq, LenProperties, ElementOfSeq DEF Apart
<1>2. /\ \A i \in 1..L : m[i][1] \in Int /\ m[i][2] \in Int /\ m[i][1] < m[i][2]
      /\ \A i, j \in 1..L : i < j => m[i][2] < m[j][1]
      /\ span[1] \in Int /\ span[2] \in Int
  BY <1>1 DEF Apart
<1>3. CASE Touching(m, span)
  <2> DEFINE a == m[L][1]  b == AtLeast(span[2], m[L][2])
  <2>1. m # <<>> /\ L \in 1..L /\ span[1] <= m[L][2] /\ a <= span[1]
    BY <1>1, <1>3 DEF Touching, Last
  <2>2. /\ a \in Int /\ b \in Int /\ a < b
        /\ b >= span[2] /\ b >= m[L][2] /\ (b = span[2] \/ b = m[L][2])
    BY <1>2, <2>1 DEF AtLeast
  <2>3. new = [m EXCEPT ![L] = <<a, b>>]
    BY <1>3 DEF Joined, Extended
  <2> HIDE DEF new
  <2>4. /\ new \in Seq(Int \X Int) /\ Len(new) = L
        /\ new[L] = <<a, b>> /\ \A i \in 1..L : i # L => new[i] = m[i]
    <3> HIDE DEF a, b, L
    <3>1. <<a, b>> \in Int \X Int /\ L \in 1..Len(m)
      BY <2>1, <2>2 DEF L
    <3> QED BY <1>1, <2>3, <3>1 DEF L
  <2>5. new[L][1] = a /\ new[L][2] = b
    BY <2>4
  <2> HIDE DEF b
  <2>6. \A i \in 1..L : new[i][1] = m[i][1] /\ new[i][1] < new[i][2] /\ new[i][2] \in Int
    BY <1>2, <2>2, <2>4, <2>5
  <2>7. ASSUME NEW i \in 1..L, NEW j \in 1..L, i < j PROVE new[i][2] < new[j][1]
    <3>1. i # L
      BY <2>7
    <3> QED BY <1>2, <2>4, <2>6, <2>7, <3>1
  <2>8. Apart(new)
    BY <2>4, <2>6, <2>7 DEF Apart
  <2>9. ASSUME NEW t \in Int
        PROVE  (\E i \in 1..L : In(t, new[i]))
                  <=> (\E i \in 1..L : In(t, m[i])) \/ In(t, span)
    <3>1. ASSUME NEW i \in 1..L, In(t, new[i])
          PROVE  (\E j \in 1..L : In(t, m[j])) \/ In(t, span)
      <4>1. CASE i # L
        BY <2>4, <3>1, <4>1
      <4>2. CASE i = L
        <5>1. a <= t /\ t < b
          BY <2>5, <3>1, <4>2 DEF In
        <5>2. CASE t < m[L][2]
          BY <2>1, <5>1, <5>2 DEF In
        <5>3. CASE ~(t < m[L][2])
          <6>1. t >= m[L][2] /\ m[L][2] \in Int
            BY <1>2, <2>1, <5>3
          <6>2. t >= span[1] /\ t < span[2]
            BY <1>2, <2>1, <2>2, <5>1, <6>1
          <6> QED BY <6>2 DEF In
        <5> QED BY <5>2, <5>3
      <4> QED BY <4>1, <4>2
    <3>2. ASSUME NEW i \in 1..L, In(t, m[i])
          PROVE  \E j \in 1..L : In(t, new[j])
      <4>1. In(t, new[i])
        <5>1. CASE i # L
          BY <2>4, <3>2, <5>1
        <5>2. CASE i = L
          <6>1. a <= t /\ t < m[L][2]
            BY <3>2, <5>2 DEF In
          <6>2. t < b
            BY <1>2, <2>1, <2>2, <6>1
          <6> QED BY <2>5, <5>2, <6>1, <6>2 DEF In
        <5> QED BY <5>1, <5>2
      <4> QED BY <4>1
    <3>3. ASSUME In(t, span)
          PROVE  \E j \in 1..L : In(t, new[j])
      <4>1. a <= t /\ t < b
        BY <1>2, <2>1, <2>2, <3>3 DEF In
      <4> QED BY <2>1, <2>5, <4>1 DEF In
    <3> QED BY <3>1, <3>2, <3>3
  <2>10. L \in Nat \ {0}
    BY <1>1, <2>1
  <2> QED BY <2>1, <2>4, <2>5, <2>8, <2>9, <2>10 DEF new
<1>4. CASE ~Touching(m, span)
  <2>1. m # <<>> => m[L][2] < span[1]
    BY <1>1, <1>2, <1>4 DEF Touching, Last
  <2>2. new = Append(m, span)
    BY <1>4 DEF Joined
  <2> HIDE DEF new
  <2>3. /\ new \in Seq(Int \X Int) /\ Len(new) = L + 1
        /\ new[L + 1] = span /\ \A i \in 1..L : new[i] = m[i]
    BY <1>1, <2>2, AppendProperties
  <2>4. \A i \in 1..L : m[i][2] < span[1]
    <3> SUFFICES ASSUME NEW i \in 1..L PROVE m[i][2] < span[1]
      OBVIOUS
    <3>1. m # <<>> /\ L \in 1..L /\ (i = L \/ i < L)
      BY <1>1
    <3> QED BY <1>2, <2>1, <3>1
  <2>5. \A i \in 1..L + 1 : i \in 1..L \/ i = L + 1
    BY <1>1
  <2> HIDE DEF L
  <2>6. ASSUME NEW i \in 1..L + 1 PROVE new[i][1] < new[i][2]
    BY <1>2, <2>3, <2>5
  <2>7. ASSUME NEW i \in 1..L + 1, NEW j \in 1..L + 1, i < j
        PROVE  new[i][2] < new[j][1]
    <3>1. i \in 1..L
      BY <1>1, <2>7
    <3>2. CASE j \in 1..L
      BY <1>2, <2>3, <2>7, <3>1, <3>2
    <3>3. CASE j = L + 1
      BY <2>3, <2>4, <3>1, <3>3
    <3> QED BY <2>5, <3>2, <3>3
  <2>8. Apart(new)
    BY <2>3, <2>6, <2>7 DEF Apart
  <2>9. \A t \in Int : (\E i \in 1..L + 1 : In(t, new[i]))
                          <=> (\E i \in 1..L : In(t, m[i])) \/ In(t, span)
    <3> SUFFICES ASSUME NEW t \in Int
                 PROVE  (\E i \in 1..L + 1 : In(t, new[i]))
                           <=> (\E i \in 1..L : In(t, m[i])) \/ In(t, span)
      OBVIOUS
    <3>1. \A i \in 1..L : i \in 1..L + 1
      BY <1>1
    <3>2. L + 1 \in 1..L + 1
      BY <1>1
    <3> QED BY <2>3, <2>5, <3>1, <3>2
  <2>10. L + 1 \in Nat \ {0} /\ new[L + 1][1] <= span[1]
    BY <1>1, <1>2, <2>3
  <2> QED BY <2>3, <2>8, <2>9, <2>10 DEF new, L
<1> QED BY <1>3, <1>4

\* The loop over the sorted spans, as a function of how many were seen.
Loop(f, s, n) ==
    f = [k \in 0..n |-> IF k = 0 THEN <<>> ELSE Joined(f[k - 1], s[k])]

LEMMA LoopExists ==
    ASSUME NEW s, NEW N \in Nat
    PROVE  \E f : Loop(f, s, N)
<1> DEFINE Bad == {n \in Nat : ~ \E f : Loop(f, s, n)}
<1>1. SUFFICES ASSUME Bad # {} PROVE FALSE
  OBVIOUS
<1>2. PICK n \in Bad : \A j \in Bad : n <= j
  <2>1. Bad \in SUBSET Nat
    OBVIOUS
  <2> HIDE DEF Bad
  <2> QED BY <1>1, <2>1, HasLeast
<1>3. CASE n = 0
  <2> DEFINE f == [k \in 0..n |-> <<>>]
  <2>1. f = [k \in 0..n |-> IF k = 0 THEN <<>> ELSE Joined(f[k - 1], s[k])]
    <3>1. \A k \in 0..n : k = 0
      BY <1>3
    <3> QED BY <3>1
  <2> HIDE DEF f
  <2>2. Loop(f, s, n)
    BY <2>1 DEF Loop
  <2> QED BY <2>2
<1>4. CASE n # 0
  <2>1. n - 1 \in Nat /\ n - 1 \notin Bad
    BY <1>2, <1>4
  <2>2. PICK f : Loop(f, s, n - 1)
    BY <2>1
  <2>3. \A k \in 0 .. n - 1 : f[k] = IF k = 0 THEN <<>> ELSE Joined(f[k - 1], s[k])
    BY <2>2 DEF Loop
  <2> DEFINE g == [k \in 0..n |-> IF k = n THEN Joined(f[n - 1], s[n]) ELSE f[k]]
  <2>4. \A k \in 0..n : g[k] = IF k = 0 THEN <<>> ELSE Joined(g[k - 1], s[k])
    <3> SUFFICES ASSUME NEW k \in 0..n
                 PROVE  g[k] = IF k = 0 THEN <<>> ELSE Joined(g[k - 1], s[k])
      OBVIOUS
    <3>1. k # 0 => k - 1 \in 0..n /\ k - 1 # n
      OBVIOUS
    <3>2. k # 0 => g[k - 1] = f[k - 1]
      BY <3>1
    <3>3. CASE k = n
      <4>1. g[k] = Joined(f[n - 1], s[n])
        BY <3>3
      <4> HIDE DEF g
      <4> QED BY <1>4, <3>2, <3>3, <4>1
    <3>4. CASE k # n
      <4>1. k \in 0 .. n - 1
        BY <3>4
      <4>2. g[k] = f[k]
        BY <3>4
      <4> HIDE DEF g
      <4> QED BY <2>3, <3>2, <4>1, <4>2
    <3> QED BY <3>3, <3>4
  <2>5. DOMAIN g = 0..n /\ g = [k \in 0..n |-> g[k]]
    OBVIOUS
  <2> HIDE DEF g
  <2>6. Loop(g, s, n)
    BY <2>4, <2>5 DEF Loop
  <2> QED BY <2>6
<1> QED BY <1>3, <1>4

\* union: the merged spans do not touch, and have the instants of the spans.
LEMMA MergedApart ==
    ASSUME NEW X \in SUBSET (Int \X Int), IsFiniteSet(X)
    PROVE  LET m == Merged(X)
           IN  /\ Apart(m) /\ Len(m) \in Nat
               /\ \A t \in Int : (\E i \in 1..Len(m) : In(t, m[i]))
                                   <=> \E x \in X : In(t, x)
<1> DEFINE P == {span \in X : span[1] < span[2]}
           s == InOrder(P, SpanOrder(P))
           n == Len(s)
           Fold == CHOOSE f : Loop(f, s, n)
<1>1. P \in SUBSET (Int \X Int) /\ IsFiniteSet(P)
  <2>1. P \in SUBSET X
    OBVIOUS
  <2> QED BY <2>1, FS_Subset
<1>2. Merged(X) = Fold[n]
  BY DEF Merged, Loop
<1>3. \A x \in P : x \in X /\ x \in Int \X Int /\ x[1] < x[2]
  OBVIOUS
<1>4. \A x \in X : \A t \in Int : In(t, x) => x \in P
  BY DEF In
<1> HIDE DEF P
<1>5. /\ s \in Seq(P) /\ n \in Nat
      /\ \A x \in P : \E k \in 1..n : s[k] = x
      /\ \A j, k \in 1..n : j < k => s[j][1] <= s[k][1]
  BY <1>1, SortedSpans
<1> HIDE DEF s
<1>6. \A k \in 1..n : s[k] \in P
  BY <1>5, ElementOfSeq
<1> HIDE DEF n
<1>7. Loop(Fold, s, n)
  BY <1>5, LoopExists
<1> HIDE DEF Fold
<1>8. \A k \in 0..n : Fold[k] = IF k = 0 THEN <<>> ELSE Joined(Fold[k - 1], s[k])
  BY <1>7 DEF Loop
<1> DEFINE Good(k) ==
      /\ Apart(Fold[k]) /\ Len(Fold[k]) \in Nat
      /\ Fold[k] # <<>> => k > 0 /\ Fold[k][Len(Fold[k])][1] <= s[k][1]
      /\ \A t \in Int : (\E i \in 1..Len(Fold[k]) : In(t, Fold[k][i]))
                          <=> \E j \in 1..k : In(t, s[j])
      Bad == {k \in 0..n : ~Good(k)}
<1>9. Bad = {}
  <2> SUFFICES ASSUME Bad # {} PROVE FALSE
    OBVIOUS
  <2>1. PICK k \in Bad : \A j \in Bad : k <= j
    <3>1. Bad \in SUBSET Nat
      BY <1>5
    <3> HIDE DEF Bad
    <3> QED BY <3>1, HasLeast
  <2>2. k \in 0..n /\ ~Good(k)
    BY <2>1
  <2>3. CASE k = 0
    <3>1. Fold[k] = <<>>
      BY <1>8, <2>2, <2>3
    <3>2. Apart(<<>>) /\ Len(<<>>) = 0
      BY DEF Apart
    <3>3. 1..0 = {}
      OBVIOUS
    <3>4. Good(k)
      BY <2>3, <3>1, <3>2, <3>3
    <3> QED BY <2>2, <3>4
  <2>4. CASE k # 0
    <3>1. k - 1 \in 0..n /\ k \in 1..n /\ ~(k <= k - 1)
      BY <1>5, <2>2, <2>4
    <3>2. k - 1 \notin Bad
      BY <2>1, <3>1
    <3>3. Good(k - 1)
      BY <3>1, <3>2
    <3> HIDE DEF Bad
    <3> DEFINE m == Fold[k - 1]  span == s[k]
    <3>4. Fold[k] = Joined(m, span)
      BY <1>8, <2>4, <3>1
    <3>5. span \in Int \X Int /\ span[1] < span[2]
      BY <1>3, <1>6, <3>1
    <3>6. m # <<>> => m[Len(m)][1] <= span[1]
      <4> SUFFICES ASSUME m # <<>> PROVE m[Len(m)][1] <= span[1]
        OBVIOUS
      <4>1. k - 1 > 0 /\ m[Len(m)][1] <= s[k - 1][1]
        BY <3>3
      <4>2. k - 1 \in 1..n /\ k - 1 < k
        BY <3>1, <4>1
      <4>3. s[k - 1][1] <= span[1]
        BY <1>5, <3>1, <4>2
      <4>4. s[k - 1][1] \in Int /\ span[1] \in Int
        BY <1>3, <1>6, <3>1, <4>2
      <4>5. m[Len(m)][1] \in Int
        <5>1. m \in Seq(Int \X Int)
          BY <3>3 DEF Apart
        <5>2. Len(m) \in 1..Len(m)
          BY <5>1, EmptySeq, LenProperties
        <5> HIDE DEF m
        <5>3. m[Len(m)] \in Int \X Int
          BY <5>1, <5>2, ElementOfSeq
        <5> QED BY <5>3
      <4> HIDE DEF m, span
      <4> QED BY <4>1, <4>3, <4>4, <4>5
    <3>7. Apart(m)
      BY <3>3
    <3> DEFINE new == Joined(m, span)
    <3>8. /\ Apart(new) /\ Len(new) \in Nat \ {0}
          /\ new[Len(new)][1] <= span[1]
          /\ \A t \in Int : (\E i \in 1..Len(new) : In(t, new[i]))
                              <=> (\E i \in 1..Len(m) : In(t, m[i])) \/ In(t, span)
      <4> HIDE DEF m, span
      <4> QED BY <3>5, <3>6, <3>7, JoinedApart
    <3>9. \A t \in Int : (\E i \in 1..Len(m) : In(t, m[i]))
                            <=> \E j \in 1 .. k - 1 : In(t, s[j])
      BY <3>3
    <3>10. \A j : j \in 1..k <=> (j \in 1 .. k - 1 \/ j = k)
      BY <3>1
    <3> HIDE DEF new, m
    <3>11. \A t \in Int : (\E i \in 1..Len(new) : In(t, new[i]))
                             <=> \E j \in 1..k : In(t, s[j])
      BY <3>8, <3>9, <3>10
    <3>12. k > 0
      BY <3>1
    <3>13. Good(k)
      BY <3>4, <3>8, <3>11, <3>12 DEF new
    <3> QED BY <2>2, <3>13
  <2> QED BY <2>3, <2>4
<1>10. n \in 0..n
  BY <1>5
<1>11. Good(n)
  BY <1>9, <1>10
<1>12. \A t \in Int : (\E j \in 1..n : In(t, s[j])) <=> \E x \in X : In(t, x)
  BY <1>3, <1>4, <1>5, <1>6
<1> QED BY <1>2, <1>11, <1>12

-----------------------------------------------------------------------------
(* Segments: the sweep over the events *)

\* Finitely many uses, of spans that are not empty.
UseSpans(U) ==
    /\ IsFiniteSet(U)
    /\ \A u \in U : u[2] \in Int \X Int /\ u[2][1] < u[2][2]

Open(U, t) == {u \in U : In(t, u[2])}

Segment == [start : Int, end : Int, count : Nat \ {0}]

\* Segments of the uses: in order, as long as they can be, and each with the
\* number of uses that are open all through it.
SegmentsOf(out, U) ==
    /\ out \in Seq(Segment)
    /\ \A i \in 1..Len(out) : out[i].start < out[i].end
    /\ \A i, j \in 1..Len(out) : i < j => out[i].end <= out[j].start
    /\ \A i \in 1 .. Len(out) - 1 :
          out[i].end = out[i + 1].start => out[i].count # out[i + 1].count
    /\ \A i \in 1..Len(out), t \in Int :
          out[i].start <= t /\ t < out[i].end => Cardinality(Open(U, t)) = out[i].count
    /\ \A i \in 1..Len(out) : out[i].start \in Events(U) /\ out[i].end \in Events(U)

\* What the loop knows after the event at t.
SweptTo(acc, U, t) ==
    /\ acc.at = t /\ t \in Events(U)
    /\ acc.active = Cardinality(Open(U, t))
    /\ SegmentsOf(acc.out, U)
    /\ \A i \in 1..Len(acc.out) : acc.out[i].end <= t
    /\ \A x \in Int : x < t /\ Open(U, x) # {} =>
          \E i \in 1..Len(acc.out) : acc.out[i].start <= x /\ x < acc.out[i].end

\* Open at t: what has begun and is not done.
LEMMA OpenCount ==
    ASSUME NEW U, UseSpans(U), NEW t \in Int
    PROVE  LET Begun == {u \in U : u[2][1] <= t}
               Done == {u \in U : u[2][2] <= t}
           IN  /\ IsFiniteSet(Begun) /\ IsFiniteSet(Done) /\ IsFiniteSet(Open(U, t))
               /\ Cardinality(Open(U, t)) = Cardinality(Begun) - Cardinality(Done)
               /\ Cardinality(Begun) \in Nat /\ Cardinality(Done) \in Nat
               /\ Cardinality(Open(U, t)) \in Nat
<1> DEFINE Begun == {u \in U : u[2][1] <= t}
           Done == {u \in U : u[2][2] <= t}
<1>1. \A u \in U : u[2][1] \in Int /\ u[2][2] \in Int /\ u[2][1] < u[2][2]
  BY DEF UseSpans
<1>2. Begun \in SUBSET U /\ Done \in SUBSET U /\ Open(U, t) \in SUBSET U
  BY DEF Open
<1>3. Open(U, t) = Begun \ Done /\ Begun \cap Done = Done
  BY <1>1 DEF Open, In
<1> HIDE DEF Begun, Done
<1>4. IsFiniteSet(Begun) /\ IsFiniteSet(Done) /\ IsFiniteSet(Open(U, t))
  BY <1>2, FS_Subset DEF UseSpans
<1>5. Cardinality(Begun \ Done) = Cardinality(Begun) - Cardinality(Begun \cap Done)
  BY <1>4, FS_Difference
<1>6. /\ Cardinality(Begun) \in Nat /\ Cardinality(Done) \in Nat
      /\ Cardinality(Open(U, t)) \in Nat
  BY <1>4, FS_CardinalityType
<1> QED BY <1>3, <1>4, <1>5, <1>6 DEF Begun, Done

LEMMA DisjointUnion ==
    ASSUME NEW S, NEW T, IsFiniteSet(S), IsFiniteSet(T), S \cap T = {}
    PROVE  Cardinality(S \cup T) = Cardinality(S) + Cardinality(T)
<1>1. Cardinality(S \cup T) = Cardinality(S) + Cardinality(T) - Cardinality({})
  BY FS_Union
<1>2. Cardinality(S) \in Nat /\ Cardinality(T) \in Nat /\ Cardinality({}) = 0
  BY FS_CardinalityType, FS_EmptySet
<1> QED BY <1>1, <1>2

\* From p on, up to the next event, the same uses are open; at that event the
\* number changes by its delta.
LEMMA OpenUntil ==
    ASSUME NEW U, UseSpans(U), NEW p \in Int, NEW t \in Int, p < t,
           \A e \in Events(U) : ~(p < e /\ e < t)
    PROVE  /\ \A x \in Int : p <= x /\ x < t => Open(U, x) = Open(U, p)
           /\ Cardinality(Open(U, t)) = Cardinality(Open(U, p)) + Delta(U, t)
<1>1. \A u \in U : /\ u[2][1] \in Int /\ u[2][2] \in Int /\ u[2][1] < u[2][2]
                   /\ u[2][1] \in Events(U) /\ u[2][2] \in Events(U)
  BY DEF UseSpans, Events
<1>2. ASSUME NEW x \in Int, p <= x, x < t PROVE Open(U, x) = Open(U, p)
  <2>1. ASSUME NEW u \in U PROVE In(x, u[2]) <=> In(p, u[2])
    <3>1. ~(p < u[2][1] /\ u[2][1] < t) /\ ~(p < u[2][2] /\ u[2][2] < t)
      BY <1>1
    <3> QED BY <1>1, <1>2, <3>1 DEF In
  <2> QED BY <2>1 DEF Open
<1> DEFINE Begun(x) == {u \in U : u[2][1] <= x}
           Done(x) == {u \in U : u[2][2] <= x}
           B == {u \in U : u[2][1] = t}
           D == {u \in U : u[2][2] = t}
<1>3. ASSUME NEW u \in U
      PROVE  /\ u[2][1] <= t <=> u[2][1] <= p \/ u[2][1] = t
             /\ u[2][2] <= t <=> u[2][2] <= p \/ u[2][2] = t
  <2>1. ~(p < u[2][1] /\ u[2][1] < t) /\ ~(p < u[2][2] /\ u[2][2] < t)
    BY <1>1
  <2> QED BY <1>1, <2>1
<1>4. /\ Begun(t) = Begun(p) \cup B /\ Done(t) = Done(p) \cup D
  BY <1>3
<1>5. Begun(p) \cap B = {} /\ Done(p) \cap D = {}
  BY <1>1
<1>6. B \in SUBSET U /\ D \in SUBSET U
  OBVIOUS
<1>7. Delta(U, t) = Cardinality(B) - Cardinality(D)
  BY DEF Delta
<1>8. /\ IsFiniteSet(Begun(p)) /\ IsFiniteSet(Done(p))
      /\ Cardinality(Open(U, p)) = Cardinality(Begun(p)) - Cardinality(Done(p))
      /\ Cardinality(Begun(p)) \in Nat /\ Cardinality(Done(p)) \in Nat
  BY OpenCount
<1>9. Cardinality(Open(U, t)) = Cardinality(Begun(t)) - Cardinality(Done(t))
  BY OpenCount
<1> HIDE DEF Begun, Done, B, D
<1>10. /\ IsFiniteSet(B) /\ IsFiniteSet(D)
       /\ Cardinality(B) \in Nat /\ Cardinality(D) \in Nat
  BY <1>6, FS_Subset, FS_CardinalityType DEF UseSpans
<1>11. Cardinality(Begun(p) \cup B) = Cardinality(Begun(p)) + Cardinality(B)
  BY <1>5, <1>8, <1>10, DisjointUnion
<1>12. Cardinality(Done(p) \cup D) = Cardinality(Done(p)) + Cardinality(D)
  BY <1>5, <1>8, <1>10, DisjointUnion
<1>13. Cardinality(Open(U, t)) = Cardinality(Open(U, p)) + Delta(U, t)
  BY <1>4, <1>7, <1>8, <1>9, <1>10, <1>11, <1>12
<1> QED BY <1>2, <1>13

\* The loop before its first event.
LEMMA SweptFirst ==
    ASSUME NEW U, UseSpans(U), NEW t \in Events(U), \A e \in Events(U) : t <= e,
           NEW acc, acc.active = 0, acc.out = <<>>
    PROVE  SweptTo(Swept(acc, U, t), U, t)
<1> DEFINE new == Swept(acc, U, t)
<1>1. \A u \in U : /\ u[2][1] \in Int /\ u[2][2] \in Int /\ u[2][1] < u[2][2]
                   /\ u[2][1] \in Events(U) /\ u[2][2] \in Events(U)
  BY DEF UseSpans, Events
<1>2. t \in Int /\ \A e \in Events(U) : e \in Int
  BY DEF UseSpans, Events
<1>3. \A x \in Int : x < t => Open(U, x) = {}
  <2> SUFFICES ASSUME NEW x \in Int, x < t, NEW u \in U, In(x, u[2]) PROVE FALSE
    BY DEF Open
  <2>1. t <= u[2][1] /\ u[2][1] <= x
    BY <1>1 DEF In
  <2> QED BY <1>1, <1>2, <2>1
<1>4. new.at = t /\ new.out = <<>> /\ new.active = 0 + Delta(U, t)
  BY DEF Swept
<1>5. Cardinality(Open(U, t)) = Cardinality(Open(U, t - 1)) + Delta(U, t)
  <2>1. t - 1 \in Int /\ t - 1 < t /\ \A e \in Events(U) : ~(t - 1 < e /\ e < t)
    BY <1>2
  <2> DEFINE p == t - 1
  <2> HIDE DEF p
  <2>2. p \in Int /\ p < t /\ \A e \in Events(U) : ~(p < e /\ e < t)
    BY <2>1 DEF p
  <2>3. Cardinality(Open(U, t)) = Cardinality(Open(U, p)) + Delta(U, t)
    BY <1>2, <2>2, OpenUntil
  <2> QED BY <2>3 DEF p
<1>6. Cardinality(Open(U, t - 1)) = 0
  <2>1. t - 1 \in Int /\ t - 1 < t
    BY <1>2
  <2>2. Open(U, t - 1) = {}
    BY <1>3, <2>1
  <2> QED BY <2>2, FS_EmptySet
<1>7. SegmentsOf(<<>>, U)
  BY DEF SegmentsOf
<1> HIDE DEF new
<1>8. new.active = Cardinality(Open(U, t))
  BY <1>4, <1>5, <1>6
<1> QED BY <1>3, <1>4, <1>7, <1>8 DEF SweptTo, new

\* The last segment goes on from p until t.
LEMMA SegmentGoesOn ==
    ASSUME NEW U, NEW out, SegmentsOf(out, U), out # <<>>,
           NEW p \in Int, NEW t \in Events(U), t \in Int, p < t,
           out[Len(out)].end = p,
           \A x \in Int : p <= x /\ x < t => Cardinality(Open(U, x)) = out[Len(out)].count
    PROVE  LET new == [out EXCEPT ![Len(out)].end = t]
           IN  /\ SegmentsOf(new, U) /\ Len(new) = Len(out)
               /\ \A i \in 1..Len(out) : i # Len(out) => new[i] = out[i]
               /\ new[Len(out)].start = out[Len(out)].start
               /\ new[Len(out)].end = t
<1> DEFINE L == Len(out)
           new == [out EXCEPT ![L].end = t]
           last == [start |-> out[L].start, end |-> t, count |-> out[L].count]
<1>1. out \in Seq(Segment) /\ L \in Nat /\ L \in 1..L
  BY EmptySeq, LenProperties DEF SegmentsOf
<1>2. \A i \in 1..L : out[i] \in Segment
  BY <1>1, ElementOfSeq
<1>3. /\ \A i \in 1..L : /\ out[i].start \in Int /\ out[i].end \in Int
                         /\ out[i].count \in Nat \ {0}
                         /\ out[i].start < out[i].end
                         /\ out[i].start \in Events(U) /\ out[i].end \in Events(U)
      /\ \A i, j \in 1..L : i < j => out[i].end <= out[j].start
      /\ \A i \in 1 .. L - 1 :
            out[i].end = out[i + 1].start => out[i].count # out[i + 1].count
      /\ \A i \in 1..L, x \in Int : out[i].start <= x /\ x < out[i].end =>
                                       Cardinality(Open(U, x)) = out[i].count
  <2>1. \A i \in 1..L : /\ out[i].start \in Int /\ out[i].end \in Int
                        /\ out[i].count \in Nat \ {0}
    BY <1>2 DEF Segment
  <2> QED BY <2>1 DEF SegmentsOf
<1>4. last \in Segment
  BY <1>1, <1>3 DEF Segment
<1>5. new = [out EXCEPT ![L] = last]
  <2>1. out[L] = [start |-> out[L].start, end |-> out[L].end, count |-> out[L].count]
    BY <1>1, <1>2 DEF Segment
  <2>2. [out[L] EXCEPT !.end = t] = last
    BY <2>1
  <2> QED BY <2>2
<1> HIDE DEF new
<1>6. /\ new \in Seq(Segment) /\ Len(new) = L
      /\ new[L] = last /\ \A i \in 1..L : i # L => new[i] = out[i]
  <2> HIDE DEF last
  <2> QED BY <1>1, <1>4, <1>5
<1>7. /\ new[L].start = out[L].start /\ new[L].end = t /\ new[L].count = out[L].count
  BY <1>6
<1> HIDE DEF last, L
<1>8. /\ out[L].end = p /\ out[L].start < t /\ out[L].start \in Int
      /\ \A x \in Int : p <= x /\ x < t => Cardinality(Open(U, x)) = out[L].count
  BY <1>1, <1>3 DEF L
<1>9. ASSUME NEW i \in 1..L
      PROVE  /\ new[i].start = out[i].start /\ new[i].count = out[i].count
             /\ new[i].start < new[i].end
             /\ new[i].start \in Events(U) /\ new[i].end \in Events(U)
  BY <1>3, <1>6, <1>7, <1>8
<1>10. ASSUME NEW i \in 1..L, NEW j \in 1..L, i < j
       PROVE  new[i].end <= new[j].start
  <2>1. i # L
    BY <1>10
  <2> QED BY <1>3, <1>6, <1>9, <1>10, <2>1
<1>11. ASSUME NEW i \in 1 .. L - 1, new[i].end = new[i + 1].start
       PROVE  new[i].count # new[i + 1].count
  <2>1. i \in 1..L /\ i + 1 \in 1..L /\ i # L
    BY <1>1
  <2>2. out[i].end = out[i + 1].start
    BY <1>6, <1>9, <1>11, <2>1
  <2> QED BY <1>3, <1>9, <2>1, <2>2
<1>12. ASSUME NEW i \in 1..L, NEW x \in Int, new[i].start <= x, x < new[i].end
       PROVE  Cardinality(Open(U, x)) = new[i].count
  <2>1. CASE i # L
    BY <1>3, <1>6, <1>12, <2>1
  <2>2. CASE i = L
    <3>1. out[L].start <= x /\ x < t /\ new[i].count = out[L].count
      BY <1>7, <1>12, <2>2
    <3>2. CASE x < p
      BY <1>1, <1>3, <1>8, <3>1, <3>2
    <3>3. CASE ~(x < p)
      BY <1>8, <3>1, <3>3
    <3> QED BY <3>2, <3>3
  <2> QED BY <2>1, <2>2
<1>13. SegmentsOf(new, U)
  BY <1>6, <1>9, <1>10, <1>11, <1>12 DEF SegmentsOf
<1> QED BY <1>6, <1>7, <1>13 DEF new, L

\* A new segment from p until t, which the last one does not reach with the
\* same number.
LEMMA SegmentIsAdded ==
    ASSUME NEW U, NEW out, SegmentsOf(out, U),
           NEW p \in Events(U), NEW t \in Events(U), p \in Int, t \in Int, p < t,
           NEW c \in Nat \ {0},
           \A i \in 1..Len(out) : out[i].end <= p,
           out # <<>> => ~(out[Len(out)].end = p /\ out[Len(out)].count = c),
           \A x \in Int : p <= x /\ x < t => Cardinality(Open(U, x)) = c
    PROVE  LET new == Append(out, [start |-> p, end |-> t, count |-> c])
           IN  SegmentsOf(new, U)
<1> DEFINE L == Len(out)
           last == [start |-> p, end |-> t, count |-> c]
           new == Append(out, last)
<1>1. out \in Seq(Segment) /\ L \in Nat /\ last \in Segment /\ (out # <<>> => L \in 1..L)
  BY EmptySeq, LenProperties DEF SegmentsOf, Segment
<1>2. \A i \in 1..L : out[i] \in Segment
  BY <1>1, ElementOfSeq
<1>3. /\ \A i \in 1..L : /\ out[i].start \in Int /\ out[i].end \in Int
                         /\ out[i].start < out[i].end
                         /\ out[i].start \in Events(U) /\ out[i].end \in Events(U)
      /\ \A i, j \in 1..L : i < j => out[i].end <= out[j].start
      /\ \A i \in 1 .. L - 1 :
            out[i].end = out[i + 1].start => out[i].count # out[i + 1].count
      /\ \A i \in 1..L, x \in Int : out[i].start <= x /\ x < out[i].end =>
                                       Cardinality(Open(U, x)) = out[i].count
      /\ \A i \in 1..L : out[i].end <= p
  <2>1. \A i \in 1..L : out[i].start \in Int /\ out[i].end \in Int
    BY <1>2 DEF Segment
  <2> QED BY <2>1 DEF SegmentsOf
<1>4. last.start = p /\ last.end = t /\ last.count = c
  OBVIOUS
<1>5. /\ new \in Seq(Segment) /\ Len(new) = L + 1
      /\ new[L + 1] = last /\ \A i \in 1..L : new[i] = out[i]
  <2> HIDE DEF last
  <2> QED BY <1>1, AppendProperties
<1>6. \A i \in 1..L + 1 : i \in 1..L \/ i = L + 1
  BY <1>1
<1>7. 1..L # {} => out # <<>>
  BY <1>1
<1>8. out # <<>> => ~(out[L].end = p /\ out[L].count = c)
  OBVIOUS
<1> HIDE DEF new, last, L
<1>9. ASSUME NEW i \in 1..L + 1
      PROVE  /\ new[i].start < new[i].end
             /\ new[i].start \in Events(U) /\ new[i].end \in Events(U)
  BY <1>3, <1>4, <1>5, <1>6
<1>10. ASSUME NEW i \in 1..L + 1, NEW j \in 1..L + 1, i < j
       PROVE  new[i].end <= new[j].start
  <2>1. i \in 1..L
    BY <1>1, <1>10
  <2> QED BY <1>3, <1>4, <1>5, <1>6, <1>10, <2>1
<1>11. ASSUME NEW i \in 1 .. (L + 1) - 1, new[i].end = new[i + 1].start
       PROVE  new[i].count # new[i + 1].count
  <2>1. i \in 1..L /\ (i = L \/ i \in 1 .. L - 1)
    BY <1>1
  <2>2. CASE i = L
    BY <1>4, <1>5, <1>7, <1>8, <1>11, <2>1, <2>2
  <2>3. CASE i \in 1 .. L - 1
    <3>1. i + 1 \in 1..L
      BY <1>1, <2>3
    <3> QED BY <1>3, <1>5, <1>11, <2>1, <2>3, <3>1
  <2> QED BY <2>1, <2>2, <2>3
<1>12. ASSUME NEW i \in 1..L + 1, NEW x \in Int, new[i].start <= x, x < new[i].end
       PROVE  Cardinality(Open(U, x)) = new[i].count
  BY <1>3, <1>4, <1>5, <1>6, <1>12
<1>13. SegmentsOf(new, U)
  BY <1>5, <1>9, <1>10, <1>11, <1>12 DEF SegmentsOf
<1> QED BY <1>13 DEF new, last

\* One turn of the loop.
LEMMA SweptNext ==
    ASSUME NEW U, UseSpans(U), NEW p, NEW t \in Events(U), p < t,
           \A e \in Events(U) : ~(p < e /\ e < t),
           NEW acc, SweptTo(acc, U, p)
    PROVE  SweptTo(Swept(acc, U, t), U, t)
<1> DEFINE new == Swept(acc, U, t)
           out == acc.out
           L == Len(out)
           c == acc.active
<1>1. /\ acc.at = p /\ p \in Events(U) /\ c = Cardinality(Open(U, p))
      /\ SegmentsOf(out, U)
      /\ \A i \in 1..L : out[i].end <= p
      /\ \A x \in Int : x < p /\ Open(U, x) # {} =>
            \E i \in 1..L : out[i].start <= x /\ x < out[i].end
  BY DEF SweptTo
<1>2. p \in Int /\ t \in Int
  BY <1>1 DEF UseSpans, Events
<1>3. /\ \A x \in Int : p <= x /\ x < t => Open(U, x) = Open(U, p)
      /\ Cardinality(Open(U, t)) = c + Delta(U, t)
  BY <1>1, <1>2, OpenUntil
<1>4. IsFiniteSet(Open(U, p)) /\ c \in Nat
  BY <1>1, <1>2, OpenCount
<1>5. L \in Nat /\ out \in Seq(Segment)
  BY <1>1, LenProperties DEF SegmentsOf
<1>6. \A i \in 1..L : out[i].start \in Int /\ out[i].end \in Int
  <2>1. \A i \in 1..L : out[i] \in Segment
    BY <1>5, ElementOfSeq
  <2> QED BY <2>1 DEF Segment
<1>7. new.active = c + Delta(U, t) /\ new.at = t
  BY DEF Swept
<1>8. CASE c = 0
  <2>1. new.out = out
    BY <1>8 DEF Swept
  <2>2. Open(U, p) = {}
    BY <1>1, <1>4, <1>8, FS_EmptySet
  <2>3. ASSUME NEW i \in 1..L PROVE out[i].end <= t
    BY <1>1, <1>2, <1>6
  <2>4. ASSUME NEW x \in Int, x < t, Open(U, x) # {}
        PROVE  \E i \in 1..L : out[i].start <= x /\ x < out[i].end
    <3>1. x < p
      BY <1>2, <1>3, <2>2, <2>4
    <3> QED BY <1>1, <2>4, <3>1
  <2> HIDE DEF new, out, L, c
  <2> QED BY <1>1, <1>3, <1>7, <2>1, <2>3, <2>4 DEF SweptTo, new, L
<1>9. CASE c # 0
  <2>1. \A x \in Int : p <= x /\ x < t => Cardinality(Open(U, x)) = c
    BY <1>1, <1>3
  <2>2. ~(~(c # 0 /\ t > acc.at))
    BY <1>1, <1>2, <1>9
  <2>3. CASE out # <<>> /\ out[L].end = p /\ out[L].count = c
    <3> DEFINE more == [out EXCEPT ![L].end = t]
    <3>1. new.out = more
      BY <1>1, <2>2, <2>3 DEF Swept, Last
    <3>2. /\ SegmentsOf(more, U) /\ Len(more) = L
          /\ \A i \in 1..L : i # L => more[i] = out[i]
          /\ more[L].start = out[L].start /\ more[L].end = t
      <4> HIDE DEF out, c
      <4> QED BY <1>1, <1>2, <2>1, <2>3, SegmentGoesOn
    <3> HIDE DEF more, new, out, c
    <3>3. ASSUME NEW i \in 1..L PROVE more[i].end <= t
      BY <1>1, <1>2, <1>6, <3>2
    <3>4. ASSUME NEW x \in Int, x < t, Open(U, x) # {}
          PROVE  \E i \in 1..L : more[i].start <= x /\ x < more[i].end
      <4>1. L \in 1..L
        BY <1>5, <2>3, EmptySeq
      <4> HIDE DEF L
      <4>2. CASE x < p
        <5>1. PICK i \in 1..L : out[i].start <= x /\ x < out[i].end
          BY <1>1, <3>4, <4>2
        <5>2. more[i].start <= x /\ x < more[i].end
          BY <3>2, <3>4, <5>1
        <5> QED BY <5>2
      <4>3. CASE ~(x < p)
        <5>1. out[L].start <= p
          <6>1. out[L].start < out[L].end
            BY <1>1, <4>1 DEF SegmentsOf, L
          <6> QED BY <1>6, <2>3, <4>1, <6>1
        <5>2. more[L].start <= x /\ x < more[L].end
          BY <1>2, <1>6, <3>2, <3>4, <4>1, <4>3, <5>1
        <5> QED BY <4>1, <5>2
      <4> QED BY <4>2, <4>3
    <3>5. new.at = t /\ new.active = Cardinality(Open(U, t))
      BY <1>3, <1>7
    <3> QED BY <3>1, <3>2, <3>3, <3>4, <3>5 DEF SweptTo, new
  <2>4. CASE ~(out # <<>> /\ out[L].end = p /\ out[L].count = c)
    <3> DEFINE last == [start |-> p, end |-> t, count |-> c]
               more == Append(out, last)
    <3>1. new.out = more
      BY <1>1, <2>2, <2>4 DEF Swept, Last
    <3>2. SegmentsOf(more, U)
      <4> HIDE DEF out, c
      <4>1. c \in Nat \ {0}
        BY <1>4, <1>9
      <4> QED BY <1>1, <1>2, <2>1, <2>4, <4>1, SegmentIsAdded
    <3>3. last.start = p /\ last.end = t /\ last \in Segment
      BY <1>2, <1>4, <1>9 DEF Segment
    <3> HIDE DEF last, new, out, c
    <3>4. Len(more) = L + 1 /\ more[L + 1] = last /\ \A i \in 1..L : more[i] = out[i]
      BY <1>5, <3>3, AppendProperties
    <3> HIDE DEF more, L
    <3>5. \A i \in 1..L + 1 : i \in 1..L \/ i = L + 1
      BY <1>5
    <3>6. \A i \in 1..L : i \in 1..L + 1
      BY <1>5
    <3>7. ASSUME NEW i \in 1..L + 1 PROVE more[i].end <= t
      BY <1>1, <1>2, <1>6, <3>3, <3>4, <3>5
    <3>8. ASSUME NEW x \in Int, x < t, Open(U, x) # {}
          PROVE  \E i \in 1..L + 1 : more[i].start <= x /\ x < more[i].end
      <4>1. CASE x < p
        <5>1. PICK i \in 1..L : out[i].start <= x /\ x < out[i].end
          BY <1>1, <3>8, <4>1
        <5> QED BY <3>4, <3>6, <5>1
      <4>2. CASE ~(x < p)
        <5>1. more[L + 1].start <= x /\ x < more[L + 1].end /\ L + 1 \in 1..L + 1
          BY <1>2, <1>5, <3>3, <3>4, <3>8, <4>2
        <5> QED BY <5>1
      <4> QED BY <4>1, <4>2
    <3>9. new.at = t /\ new.active = Cardinality(Open(U, t))
      BY <1>3, <1>7
    <3> QED BY <3>1, <3>2, <3>4, <3>7, <3>8, <3>9 DEF SweptTo, new
  <2> QED BY <2>3, <2>4
<1> QED BY <1>8, <1>9

\* The loop over the sorted events, as a function of how many were seen.
Sweep(f, U, start, s, n) ==
    f = [k \in 0..n |-> IF k = 0 THEN [active |-> 0, at |-> start, out |-> <<>>]
                        ELSE Swept(f[k - 1], U, s[k])]

LEMMA SweepExists ==
    ASSUME NEW U, NEW start, NEW s, NEW N \in Nat
    PROVE  \E f : Sweep(f, U, start, s, N)
<1> DEFINE base == [active |-> 0, at |-> start, out |-> <<>>]
           Bad == {n \in Nat : ~ \E f : Sweep(f, U, start, s, n)}
<1>1. SUFFICES ASSUME Bad # {} PROVE FALSE
  OBVIOUS
<1>2. PICK n \in Bad : \A j \in Bad : n <= j
  <2>1. Bad \in SUBSET Nat
    OBVIOUS
  <2> HIDE DEF Bad
  <2> QED BY <1>1, <2>1, HasLeast
<1>3. CASE n = 0
  <2> DEFINE f == [k \in 0..n |-> base]
  <2>1. f = [k \in 0..n |-> IF k = 0 THEN base ELSE Swept(f[k - 1], U, s[k])]
    <3>1. \A k \in 0..n : k = 0
      BY <1>3
    <3> HIDE DEF base
    <3> QED BY <3>1
  <2> HIDE DEF f
  <2>2. Sweep(f, U, start, s, n)
    BY <2>1 DEF Sweep
  <2> QED BY <2>2
<1>4. CASE n # 0
  <2>1. n - 1 \in Nat /\ n - 1 \notin Bad
    BY <1>2, <1>4
  <2>2. PICK f : Sweep(f, U, start, s, n - 1)
    BY <2>1
  <2>3. \A k \in 0 .. n - 1 : f[k] = IF k = 0 THEN base ELSE Swept(f[k - 1], U, s[k])
    BY <2>2 DEF Sweep
  <2> HIDE DEF base
  <2> DEFINE g == [k \in 0..n |-> IF k = n THEN Swept(f[n - 1], U, s[n]) ELSE f[k]]
  <2>4. \A k \in 0..n : g[k] = IF k = 0 THEN base ELSE Swept(g[k - 1], U, s[k])
    <3> SUFFICES ASSUME NEW k \in 0..n
                 PROVE  g[k] = IF k = 0 THEN base ELSE Swept(g[k - 1], U, s[k])
      OBVIOUS
    <3>1. k # 0 => k - 1 \in 0..n /\ k - 1 # n
      OBVIOUS
    <3>2. k # 0 => g[k - 1] = f[k - 1]
      BY <3>1
    <3>3. CASE k = n
      <4>1. g[k] = Swept(f[n - 1], U, s[n])
        BY <3>3
      <4> HIDE DEF g
      <4> QED BY <1>4, <3>2, <3>3, <4>1
    <3>4. CASE k # n
      <4>1. k \in 0 .. n - 1
        BY <3>4
      <4>2. g[k] = f[k]
        BY <3>4
      <4> HIDE DEF g
      <4> QED BY <2>3, <3>2, <4>1, <4>2
    <3> QED BY <3>3, <3>4
  <2>5. DOMAIN g = 0..n /\ g = [k \in 0..n |-> g[k]]
    OBVIOUS
  <2> HIDE DEF g
  <2>6. Sweep(g, U, start, s, n)
    BY <2>4, <2>5 DEF Sweep, base
  <2> QED BY <2>6
<1> QED BY <1>3, <1>4

\* An image of a finite set.
LEMMA ImageIsFinite ==
    ASSUME NEW S, IsFiniteSet(S), NEW f
    PROVE  IsFiniteSet({f[x] : x \in S})
<1> DEFINE T == {f[x] : x \in S}
           g == [x \in S |-> f[x]]
<1>1. g \in Surjection(S, T)
  BY DEF Surjection
<1> HIDE DEF T, g
<1>2. IsFiniteSet(T)
  BY <1>1, FS_Surjection
<1> QED BY <1>2 DEF T

LEMMA EventsFinite ==
    ASSUME NEW U, UseSpans(U)
    PROVE  IsFiniteSet(Events(U)) /\ Events(U) \in SUBSET Int
<1> DEFINE f == [u \in U |-> u[2][1]]
           g == [u \in U |-> u[2][2]]
<1>1. {f[u] : u \in U} = {u[2][1] : u \in U} /\ {g[u] : u \in U} = {u[2][2] : u \in U}
  OBVIOUS
<1> HIDE DEF f, g
<1>2. IsFiniteSet(U)
  BY DEF UseSpans
<1>3. IsFiniteSet({f[u] : u \in U}) /\ IsFiniteSet({g[u] : u \in U})
  BY <1>2, ImageIsFinite
<1>4. IsFiniteSet(Events(U))
  BY <1>1, <1>3, FS_Union DEF Events
<1>5. Events(U) \in SUBSET Int
  BY DEF Events, UseSpans
<1> QED BY <1>4, <1>5

\* The segments of the uses, in which every instant of one lies.
LEMMA SegmentsAreOf ==
    ASSUME NEW records, NEW start, NEW end, UseSpans(InUse(records, start, end))
    PROVE  LET U == InUse(records, start, end)
               out == Segments(records, start, end)
           IN  /\ SegmentsOf(out, U)
               /\ \A x \in Int : Open(U, x) # {} =>
                     \E i \in 1..Len(out) : out[i].start <= x /\ x < out[i].end
<1> DEFINE U == InUse(records, start, end)
           E == Events(U)
           s == InOrder(E, TimeOrder(E))
           n == Len(s)
           Fold == CHOOSE f : Sweep(f, U, start, s, n)
<1>1. Segments(records, start, end) = Fold[n].out
  BY DEF Segments, Sweep
<1>2. UseSpans(U)
  OBVIOUS
<1> HIDE DEF U
<1>3. IsFiniteSet(E) /\ E \in SUBSET Int
  BY <1>2, EventsFinite
<1> HIDE DEF E
<1>4. /\ s \in Seq(E) /\ n \in Nat
      /\ \A x \in E : \E k \in 1..n : s[k] = x
      /\ \A j, k \in 1..n : j < k => s[j] < s[k]
  BY <1>3, SortedTimes
<1> HIDE DEF s
<1>5. \A k \in 1..n : s[k] \in E /\ s[k] \in Int
  <2>1. \A k \in 1..n : s[k] \in E
    BY <1>4, ElementOfSeq
  <2> QED BY <1>3, <2>1
<1> HIDE DEF n
<1>6. Sweep(Fold, U, start, s, n)
  BY <1>4, SweepExists
<1> HIDE DEF Fold
<1>7. \A k \in 0..n : Fold[k] = IF k = 0 THEN [active |-> 0, at |-> start, out |-> <<>>]
                                ELSE Swept(Fold[k - 1], U, s[k])
  BY <1>6 DEF Sweep
<1> DEFINE Bad == {k \in 1..n : ~SweptTo(Fold[k], U, s[k])}
<1>8. Bad = {}
  <2> SUFFICES ASSUME Bad # {} PROVE FALSE
    OBVIOUS
  <2>1. PICK k \in Bad : \A j \in Bad : k <= j
    <3>1. Bad \in SUBSET Nat
      BY <1>4
    <3> HIDE DEF Bad
    <3> QED BY <3>1, HasLeast
  <2>2. k \in 1..n /\ ~SweptTo(Fold[k], U, s[k])
    BY <2>1
  <2>3. Fold[k] = Swept(Fold[k - 1], U, s[k])
    BY <1>4, <1>7, <2>2
  <2>4. s[k] \in E
    BY <1>5, <2>2
  <2>5. CASE k = 1
    <3>1. Fold[k - 1].active = 0 /\ Fold[k - 1].out = <<>>
      BY <1>4, <1>7, <2>5
    <3>2. \A e \in E : s[k] <= e
      <4> SUFFICES ASSUME NEW e \in E PROVE s[k] <= e
        OBVIOUS
      <4>1. PICK j \in 1..n : s[j] = e
        BY <1>4
      <4>2. j = 1 \/ 1 < j
        BY <1>4
      <4> QED BY <1>4, <1>5, <2>2, <2>5, <4>1, <4>2
    <3>3. SweptTo(Swept(Fold[k - 1], U, s[k]), U, s[k])
      BY <1>2, <2>4, <3>1, <3>2, SweptFirst DEF E
    <3> QED BY <2>2, <2>3, <3>3
  <2>6. CASE k # 1
    <3>1. k - 1 \in 1..n /\ k - 1 < k /\ ~(k <= k - 1)
      BY <1>4, <2>2, <2>6
    <3>2. SweptTo(Fold[k - 1], U, s[k - 1])
      BY <2>1, <3>1
    <3>3. s[k - 1] < s[k]
      BY <1>4, <2>2, <3>1
    <3>4. ASSUME NEW e \in E, s[k - 1] < e, e < s[k] PROVE FALSE
      <4>1. PICK j \in 1..n : s[j] = e
        BY <1>4
      <4>2. j < k - 1 \/ j = k - 1 \/ j = k \/ k < j
        BY <1>4, <2>2, <4>1
      <4>3. e \in Int /\ s[k - 1] \in Int /\ s[k] \in Int
        BY <1>3, <1>5, <2>2, <3>1
      <4>4. CASE j < k - 1
        BY <1>4, <3>1, <3>4, <4>1, <4>3, <4>4
      <4>5. CASE k < j
        BY <1>4, <2>2, <3>4, <4>1, <4>3, <4>5
      <4> QED BY <3>4, <4>1, <4>2, <4>3, <4>4, <4>5
    <3>5. SweptTo(Swept(Fold[k - 1], U, s[k]), U, s[k])
      BY <1>2, <2>4, <3>2, <3>3, <3>4, SweptNext DEF E
    <3> QED BY <2>2, <2>3, <3>5
  <2> QED BY <2>5, <2>6
<1> DEFINE out == Fold[n].out
<1>9. SegmentsOf(out, U) /\ \A x \in Int : Open(U, x) # {} =>
                              \E i \in 1..Len(out) : out[i].start <= x /\ x < out[i].end
  <2>1. CASE n = 0
    <3>1. out = <<>>
      BY <1>4, <1>7, <2>1
    <3>2. \A u \in U : u[2][1] \in E
      BY DEF E, Events
    <3>3. E = {}
      BY <1>4, <2>1
    <3>4. \A x : Open(U, x) = {}
      BY <3>2, <3>3 DEF Open
    <3>5. SegmentsOf(<<>>, U)
      BY DEF SegmentsOf
    <3> QED BY <3>1, <3>4, <3>5
  <2>2. CASE n # 0
    <3>1. n \in 1..n
      BY <1>4, <2>2
    <3>2. SweptTo(Fold[n], U, s[n])
      BY <1>8, <3>1
    <3>3. ASSUME NEW x \in Int, Open(U, x) # {} PROVE x < s[n]
      <4>1. PICK u \in U : In(x, u[2])
        BY <3>3 DEF Open
      <4>2. u[2][2] \in E /\ x < u[2][2] /\ u[2][2] \in Int
        BY <1>3, <4>1 DEF E, Events, In
      <4>3. PICK j \in 1..n : s[j] = u[2][2]
        BY <1>4, <4>2
      <4>4. j = n \/ j < n
        BY <1>4
      <4>5. s[j] = s[n] \/ s[j] < s[n]
        BY <1>4, <3>1, <4>4
      <4> QED BY <1>5, <3>1, <4>2, <4>3, <4>5
    <3> HIDE DEF out
    <3> QED BY <3>2, <3>3 DEF SweptTo, out
  <2> QED BY <2>1, <2>2
<1> QED BY <1>1, <1>9 DEF U

-----------------------------------------------------------------------------
(* Segments: what cards were in use *)

\* Finitely many records, with times.
Timed(records) ==
    IsFiniteSet(records) /\ \A r \in records : r.start \in Int /\ r.end \in Int

\* The cards in use at t, of what of the records is between start and end.
CardsIn(records, start, end, t) ==
    {r.card : r \in {q \in records : In(t, Cut(q, start, end))}}

\* The merged spans of one card.
SpansOfCard(records, start, end, c) ==
    Merged({Cut(r, start, end) : r \in {q \in records : q.card = c}})

LEMMA CardSpans ==
    ASSUME NEW records, Timed(records), NEW start \in Int, NEW end \in Int, NEW c
    PROVE  LET m == SpansOfCard(records, start, end, c)
           IN  /\ Apart(m) /\ Len(m) \in Nat
               /\ \A t \in Int : (\E i \in 1..Len(m) : In(t, m[i]))
                                   <=> c \in CardsIn(records, start, end, t)
<1> DEFINE Q == {q \in records : q.card = c}
           X == {Cut(r, start, end) : r \in Q}
           m == Merged(X)
<1>1. Q \in SUBSET records
  OBVIOUS
<1>2. IsFiniteSet(Q)
  BY <1>1, FS_Subset DEF Timed
<1>3. ASSUME NEW r \in records PROVE Cut(r, start, end) \in Int \X Int
  BY DEF Timed, Cut, AtLeast, AtMost
<1>4. IsFiniteSet(X)
  <2> DEFINE f == [r \in Q |-> Cut(r, start, end)]
  <2>1. {f[r] : r \in Q} = X
    OBVIOUS
  <2> HIDE DEF f, X, Q
  <2> QED BY <1>2, <2>1, ImageIsFinite
<1>5. X \in SUBSET (Int \X Int)
  BY <1>1, <1>3
<1>6. \A t \in Int : (\E x \in X : In(t, x)) <=> c \in CardsIn(records, start, end, t)
  BY DEF CardsIn
<1> HIDE DEF X
<1>7. /\ Apart(m) /\ Len(m) \in Nat
      /\ \A t \in Int : (\E i \in 1..Len(m) : In(t, m[i])) <=> \E x \in X : In(t, x)
  <2>1. m = Merged(X)
    OBVIOUS
  <2> HIDE DEF m
  <2>2. /\ Apart(Merged(X)) /\ Len(Merged(X)) \in Nat
        /\ \A t \in Int : (\E i \in 1..Len(Merged(X)) : In(t, Merged(X)[i]))
                            <=> \E x \in X : In(t, x)
    BY <1>4, <1>5, MergedApart
  <2> QED BY <2>1, <2>2
<1> QED BY <1>6, <1>7 DEF SpansOfCard, X

\* What is in use: of each card the merged spans, so that at any instant there
\* are as many as cards in use.
LEMMA InUseCounts ==
    ASSUME NEW records, Timed(records), NEW start \in Int, NEW end \in Int
    PROVE  LET U == InUse(records, start, end)
           IN  /\ UseSpans(U)
               /\ \A t \in Int :
                     /\ IsFiniteSet(CardsIn(records, start, end, t))
                     /\ Cardinality(Open(U, t)) = Cardinality(CardsIn(records, start, end, t))
                     /\ Open(U, t) # {} <=> CardsIn(records, start, end, t) # {}
               /\ \A e \in Events(U) : start <= e /\ e <= end
<1> DEFINE U == InUse(records, start, end)
           cards == {r.card : r \in records}
           m(c) == SpansOfCard(records, start, end, c)
           Cards(t) == CardsIn(records, start, end, t)
           F == [c \in cards |-> {c} \X Range(m(c))]
<1>1. U = UNION {F[c] : c \in cards}
  <2>1. U = UNION {{c} \X Range(SpansOfCard(records, start, end, c)) : c \in cards}
    BY DEF InUse, SpansOfCard
  <2> HIDE DEF U
  <2> QED BY <2>1
<1>2. ASSUME NEW c
      PROVE  /\ Apart(m(c)) /\ Len(m(c)) \in Nat
             /\ \A t \in Int : (\E i \in 1..Len(m(c)) : In(t, m(c)[i])) <=> c \in Cards(t)
  BY CardSpans
<1>3. \A t : Cards(t) \subseteq cards
  BY DEF CardsIn
<1> HIDE DEF m, Cards
<1>4. ASSUME NEW c
      PROVE  /\ Range(m(c)) = {m(c)[i] : i \in 1..Len(m(c))}
             /\ IsFiniteSet(Range(m(c)))
             /\ \A x \in Range(m(c)) : x \in Int \X Int /\ x[1] < x[2]
  <2> DEFINE s == m(c)
  <2>1. s \in Seq(Int \X Int) /\ Len(s) \in Nat /\ \A i \in 1..Len(s) : s[i][1] < s[i][2]
    BY <1>2 DEF Apart
  <2> HIDE DEF s
  <2>2. DOMAIN s = 1..Len(s)
    BY <2>1
  <2>3. Range(s) = {s[i] : i \in 1..Len(s)}
    BY <2>2 DEF Range
  <2>4. IsFiniteSet(1..Len(s))
    BY <2>1, FS_Interval
  <2>5. IsFiniteSet({s[i] : i \in 1..Len(s)})
    BY <2>4, ImageIsFinite
  <2>6. \A i \in 1..Len(s) : s[i] \in Int \X Int
    BY <2>1, ElementOfSeq
  <2> QED BY <2>1, <2>3, <2>5, <2>6 DEF s
<1>5. IsFiniteSet(U)
  <2>1. IsFiniteSet(cards)
    <3> DEFINE f == [r \in records |-> r.card]
    <3>1. {f[r] : r \in records} = cards
      OBVIOUS
    <3> HIDE DEF f, cards
    <3> QED BY <3>1, ImageIsFinite DEF Timed
  <2>2. ASSUME NEW c \in cards PROVE IsFiniteSet(F[c])
    <3>1. F[c] = {c} \X Range(m(c))
      OBVIOUS
    <3>2. IsFiniteSet({c}) /\ IsFiniteSet(Range(m(c)))
      BY <1>4, FS_Singleton
    <3> HIDE DEF F
    <3>3. IsFiniteSet({c} \X Range(m(c)))
      BY <3>2, FS_Product
    <3> QED BY <3>1, <3>3
  <2> HIDE DEF F, U, cards
  <2>3. IsFiniteSet({F[c] : c \in cards})
    BY <2>1, ImageIsFinite
  <2>4. \A T \in {F[c] : c \in cards} : IsFiniteSet(T)
    BY <2>2
  <2> QED BY <1>1, <2>3, <2>4, FS_UNION
<1>6. \A u : u \in U <=> \E c \in cards : \E x \in Range(m(c)) : u = <<c, x>>
  <2>1. \A c \in cards : F[c] = {c} \X Range(m(c))
    OBVIOUS
  <2> HIDE DEF F, U, cards
  <2> QED BY <1>1, <2>1
<1> HIDE DEF U, F, cards
<1>7. ASSUME NEW u \in U
      PROVE  /\ u[1] \in cards /\ u[2] \in Range(m(u[1])) /\ u = <<u[1], u[2]>>
             /\ u[2] \in Int \X Int /\ u[2][1] < u[2][2]
             /\ \E i \in 1..Len(m(u[1])) : u[2] = m(u[1])[i]
  <2>1. PICK c \in cards : \E x \in Range(m(c)) : u = <<c, x>>
    BY <1>6
  <2>2. PICK x \in Range(m(c)) : u = <<c, x>>
    BY <2>1
  <2>3. x \in Int \X Int /\ x[1] < x[2] /\ \E i \in 1..Len(m(c)) : x = m(c)[i]
    BY <1>4
  <2>4. u[1] = c /\ u[2] = x
    BY <2>2
  <2> QED BY <2>2, <2>3, <2>4
<1>8. UseSpans(U)
  BY <1>5, <1>7 DEF UseSpans
<1>9. ASSUME NEW t \in Int
      PROVE  /\ IsFiniteSet(Cards(t))
             /\ Cardinality(Open(U, t)) = Cardinality(Cards(t))
             /\ Open(U, t) # {} <=> Cards(t) # {}
  <2> DEFINE O == Open(U, t)
             G == [u \in O |-> u[1]]
  <2>1. O \in SUBSET U /\ \A u \in O : u \in U /\ In(t, u[2])
    BY DEF Open
  <2>2. \A u \in U : In(t, u[2]) => u \in O
    BY DEF Open
  <2> HIDE DEF O
  <2>3. IsFiniteSet(O)
    BY <1>5, <2>1, FS_Subset
  <2>4. \A u \in O : G[u] \in Cards(t)
    <3> SUFFICES ASSUME NEW u \in O PROVE u[1] \in Cards(t)
      OBVIOUS
    <3>1. PICK i \in 1..Len(m(u[1])) : u[2] = m(u[1])[i]
      BY <1>7, <2>1
    <3> QED BY <1>2, <2>1, <3>1
  <2>5. \A u, v \in O : G[u] = G[v] => u = v
    <3> SUFFICES ASSUME NEW u \in O, NEW v \in O, u[1] = v[1] PROVE u = v
      OBVIOUS
    <3> DEFINE s == m(u[1])
    <3>1. PICK i \in 1..Len(s) : u[2] = s[i]
      BY <1>7, <2>1
    <3>2. PICK j \in 1..Len(s) : v[2] = s[j]
      BY <1>7, <2>1
    <3>3. Len(s) \in Nat /\ \A k, l \in 1..Len(s) : k < l => s[k][2] < s[l][1]
      BY <1>2 DEF Apart
    <3> HIDE DEF s
    <3>4. In(t, s[i]) /\ In(t, s[j]) /\ s[i][1] \in Int /\ s[i][2] \in Int
          /\ s[j][1] \in Int /\ s[j][2] \in Int
      BY <1>7, <2>1, <3>1, <3>2
    <3>5. ~(i < j) /\ ~(j < i)
      BY <3>3, <3>4 DEF In
    <3>6. i = j
      BY <3>3, <3>5
    <3>7. u[2] = v[2]
      BY <3>1, <3>2, <3>6
    <3> QED BY <1>7, <2>1, <3>7
  <2>6. \A c \in Cards(t) : \E u \in O : G[u] = c
    <3> SUFFICES ASSUME NEW c \in Cards(t) PROVE \E u \in O : G[u] = c
      OBVIOUS
    <3>1. PICK i \in 1..Len(m(c)) : In(t, m(c)[i])
      BY <1>2
    <3>2. c \in cards /\ m(c)[i] \in Range(m(c))
      BY <1>3, <1>4
    <3>3. <<c, m(c)[i]>> \in U /\ <<c, m(c)[i]>>[1] = c /\ <<c, m(c)[i]>>[2] = m(c)[i]
      BY <1>6, <3>2
    <3>4. <<c, m(c)[i]>> \in O
      BY <2>2, <3>1, <3>3
    <3>5. G[<<c, m(c)[i]>>] = c
      BY <3>3, <3>4
    <3> HIDE DEF G
    <3> QED BY <3>4, <3>5
  <2>7. G \in Bijection(O, Cards(t))
    <3>1. G \in [O -> Cards(t)]
      BY <2>4
    <3> HIDE DEF G
    <3> QED BY <2>5, <2>6, <3>1 DEF Bijection, Injection, Surjection, IsInjective
  <2> HIDE DEF G
  <2>8. IsFiniteSet(Cards(t)) /\ Cardinality(Cards(t)) = Cardinality(O)
    BY <2>3, <2>7, FS_Bijection DEF ExistsBijection
  <2>9. O # {} <=> Cards(t) # {}
    BY <2>3, <2>8, FS_EmptySet
  <2> QED BY <2>8, <2>9 DEF O
<1>10. ASSUME NEW u \in U PROVE start <= u[2][1] /\ u[2][2] <= end
  <2> DEFINE a == u[2][1]  b == u[2][2]
  <2>1. a \in Int /\ b \in Int /\ a < b
    BY <1>7
  <2>2. In(a, u[2]) /\ In(b - 1, u[2]) /\ b - 1 \in Int
    BY <2>1 DEF In
  <2>3. PICK i \in 1..Len(m(u[1])) : u[2] = m(u[1])[i]
    BY <1>7
  <2> HIDE DEF a, b
  <2>4. u[1] \in Cards(a) /\ u[1] \in Cards(b - 1)
    BY <1>2, <2>1, <2>2, <2>3
  <2>5. ASSUME NEW t \in Int, u[1] \in Cards(t) PROVE start <= t /\ t < end
    <3>1. PICK r \in records : In(t, Cut(r, start, end))
      BY <2>5 DEF Cards, CardsIn
    <3>2. r.start \in Int /\ r.end \in Int
      BY DEF Timed
    <3> QED BY <3>1, <3>2 DEF In, Cut, AtLeast, AtMost
  <2>6. start <= a /\ b - 1 < end
    BY <2>1, <2>2, <2>4, <2>5
  <2> QED BY <2>1, <2>6 DEF a, b
<1>11. ASSUME NEW e \in Events(U) PROVE start <= e /\ e <= end
  <2>1. PICK u \in U : e = u[2][1] \/ e = u[2][2]
    BY DEF Events
  <2>2. u[2][1] \in Int /\ u[2][2] \in Int /\ u[2][1] < u[2][2]
    BY <1>7
  <2>3. start <= u[2][1] /\ u[2][2] <= end
    BY <1>10
  <2> QED BY <2>1, <2>2, <2>3
<1> QED BY <1>8, <1>9, <1>11 DEF U, Cards

\* What the segments tell of the cards C[t] in use at each time t.
Tells(out, C, start, end) ==
    /\ Len(out) \in Nat /\ DOMAIN out = 1..Len(out)
    /\ \A i \in 1..Len(out) :
          /\ out[i].start \in Int /\ out[i].end \in Int /\ out[i].count \in Nat \ {0}
          /\ start <= out[i].start /\ out[i].start < out[i].end /\ out[i].end <= end
    /\ \A i, j \in 1..Len(out) : i < j => out[i].end <= out[j].start
    /\ \A t \in Int : IsFiniteSet(C[t]) /\ Cardinality(C[t]) \in Nat
    /\ \A i \in 1..Len(out), t \in Int :
          out[i].start <= t /\ t < out[i].end => Cardinality(C[t]) = out[i].count
    /\ \A t \in Int : C[t] # {} => \E i \in 1..Len(out) : out[i].start <= t /\ t < out[i].end

\* The cards in use, as a function.
CardsOf(records, start, end) == [t \in Int |-> CardsIn(records, start, end, t)]

\* The segments count, instant by instant, the cards in use, and are as long as
\* they can be.
LEMMA SegmentsCount ==
    ASSUME NEW records, Timed(records), NEW start \in Int, NEW end \in Int
    PROVE  LET out == Segments(records, start, end)
               C == CardsOf(records, start, end)
           IN  /\ Tells(out, C, start, end)
               /\ \A i \in 1 .. Len(out) - 1 :
                     out[i].end = out[i + 1].start => out[i].count # out[i + 1].count
               /\ \A t \in Int : C[t] = CardsIn(records, start, end, t)
<1> DEFINE out == Segments(records, start, end)
           Cards(t) == CardsIn(records, start, end, t)
           U == InUse(records, start, end)
<1>1. /\ UseSpans(U)
      /\ \A t \in Int : /\ IsFiniteSet(Cards(t))
                        /\ Cardinality(Open(U, t)) = Cardinality(Cards(t))
                        /\ Open(U, t) # {} <=> Cards(t) # {}
      /\ \A e \in Events(U) : start <= e /\ e <= end
  BY InUseCounts
<1>2. /\ SegmentsOf(out, U)
      /\ \A x \in Int : Open(U, x) # {} =>
            \E i \in 1..Len(out) : out[i].start <= x /\ x < out[i].end
  BY <1>1, SegmentsAreOf
<1> HIDE DEF out, U, Cards
<1>3. out \in Seq(Segment) /\ Len(out) \in Nat /\ DOMAIN out = 1..Len(out)
  BY <1>2, LenProperties DEF SegmentsOf
<1>4. \A i \in 1..Len(out) : /\ out[i].start \in Int /\ out[i].end \in Int
                             /\ out[i].count \in Nat \ {0}
  <2>1. \A i \in 1..Len(out) : out[i] \in Segment
    BY <1>3, ElementOfSeq
  <2> QED BY <2>1 DEF Segment
<1>5. \A i \in 1..Len(out) : /\ start <= out[i].start /\ out[i].start < out[i].end
                             /\ out[i].end <= end
  BY <1>1, <1>2 DEF SegmentsOf
<1>6. \A t \in Int : IsFiniteSet(Cards(t)) /\ Cardinality(Cards(t)) \in Nat
  BY <1>1, FS_CardinalityType
<1>7. ASSUME NEW i \in 1..Len(out), NEW t \in Int, out[i].start <= t, t < out[i].end
      PROVE  Cardinality(Cards(t)) = out[i].count
  BY <1>1, <1>2, <1>7 DEF SegmentsOf
<1>8. \A t \in Int : Cards(t) # {} =>
         \E i \in 1..Len(out) : out[i].start <= t /\ t < out[i].end
  BY <1>1, <1>2
<1>9. /\ \A i, j \in 1..Len(out) : i < j => out[i].end <= out[j].start
      /\ \A i \in 1 .. Len(out) - 1 :
            out[i].end = out[i + 1].start => out[i].count # out[i + 1].count
  BY <1>2 DEF SegmentsOf
<1> DEFINE C == CardsOf(records, start, end)
<1>10. \A t \in Int : C[t] = Cards(t)
  BY DEF CardsOf, Cards
<1> HIDE DEF C
<1>11. Tells(out, C, start, end)
  <2>1. \A t \in Int : IsFiniteSet(C[t]) /\ Cardinality(C[t]) \in Nat
    BY <1>6, <1>10
  <2>2. \A i \in 1..Len(out), t \in Int :
           out[i].start <= t /\ t < out[i].end => Cardinality(C[t]) = out[i].count
    BY <1>7, <1>10
  <2>3. \A t \in Int : C[t] # {} =>
           \E i \in 1..Len(out) : out[i].start <= t /\ t < out[i].end
    BY <1>8, <1>10
  <2>4. \A i \in 1..Len(out) :
           /\ out[i].start \in Int /\ out[i].end \in Int /\ out[i].count \in Nat \ {0}
           /\ start <= out[i].start /\ out[i].start < out[i].end /\ out[i].end <= end
    BY <1>4, <1>5
  <2> QED BY <1>3, <1>9, <2>1, <2>2, <2>3, <2>4 DEF Tells
<1>12. \A t \in Int : C[t] = CardsIn(records, start, end, t)
  BY <1>10 DEF Cards
<1> QED BY <1>9, <1>11, <1>12 DEF out, C

\* Every unit of time with every card in use in it.
Worked(records, start, end) ==
    UNION {{t} \X CardsIn(records, start, end, t) : t \in start .. end - 1}

LEMMA WorkedCounts ==
    ASSUME NEW records, Timed(records), NEW start \in Int, NEW end \in Int
    PROVE  /\ IsFiniteSet(Worked(records, start, end))
           /\ Cardinality(Worked(records, start, end)) \in Nat
           /\ Total([t \in start .. end - 1 |-> Cardinality(CardsIn(records, start, end, t))])
                = Cardinality(Worked(records, start, end))
<1> DEFINE Cards(t) == CardsIn(records, start, end, t)
           units == start .. end - 1
           M == [t \in units |-> {t} \X Cards(t)]
<1>1. \A t \in Int : IsFiniteSet(Cards(t)) /\ Cardinality(Cards(t)) \in Nat
  <2> DEFINE C == CardsOf(records, start, end)
             out == Segments(records, start, end)
  <2>1. Tells(out, C, start, end) /\ \A t \in Int : C[t] = Cards(t)
    BY SegmentsCount
  <2> HIDE DEF C, Cards, out
  <2> QED BY <2>1 DEF Tells
<1> HIDE DEF Cards
<1>2. IsFiniteSet(units)
  <2>1. start \in Int /\ end - 1 \in Int
    OBVIOUS
  <2> QED BY <2>1, FS_Interval
<1>3. ASSUME NEW t \in units
      PROVE  IsFiniteSet({t} \X Cards(t)) /\ Cardinality({t} \X Cards(t)) = Cardinality(Cards(t))
  <2>0. t \in Int
    OBVIOUS
  <2>1. IsFiniteSet({t}) /\ Cardinality({t}) = 1 /\ IsFiniteSet(Cards(t))
        /\ Cardinality(Cards(t)) \in Nat
    BY <1>1, <2>0, FS_Singleton
  <2>2. IsFiniteSet({t} \X Cards(t)) /\
        Cardinality({t} \X Cards(t)) = Cardinality({t}) * Cardinality(Cards(t))
    BY <2>1, FS_Product
  <2> QED BY <2>1, <2>2
<1>4. \A t \in units : M[t] = {t} \X Cards(t)
  OBVIOUS
<1>5. DOMAIN M = units /\ \A x, y \in units : x # y => M[x] \cap M[y] = {}
  OBVIOUS
<1>6. Worked(records, start, end) = UNION {M[t] : t \in units}
  BY DEF Worked, Cards
<1> HIDE DEF units
<1>7. [t \in units |-> Cardinality(M[t])] = [t \in units |-> Cardinality(Cards(t))]
  <2> HIDE DEF M
  <2> QED BY <1>3, <1>4
<1> HIDE DEF M
<1>8. \A t \in units : IsFiniteSet(M[t])
  BY <1>3, <1>4
<1>9. /\ IsFiniteSet(UNION {M[t] : t \in units})
      /\ Total([t \in units |-> Cardinality(M[t])]) = Cardinality(UNION {M[t] : t \in units})
  <2>1. Family(M, units)
    BY <1>2, <1>5, <1>8 DEF Family
  <2>2. AddsUp(M, units)
    BY <2>1, Counted
  <2> QED BY <2>2 DEF AddsUp
<1> QED BY <1>6, <1>7, <1>9, FS_CardinalityType DEF units, Cards

\* The units of time of each segment.
UnitsOf(out) == [i \in 1..Len(out) |-> out[i].start .. out[i].end - 1]

LEMMA SegmentUnits ==
    ASSUME NEW out, NEW C, NEW start \in Int, NEW end \in Int, Tells(out, C, start, end)
    PROVE  LET T == UnitsOf(out)
           IN  /\ IsFiniteSet(1..Len(out)) /\ DOMAIN T = 1..Len(out)
               /\ \A i \in 1..Len(out) :
                     /\ IsFiniteSet(T[i])
                     /\ Cardinality(T[i]) = out[i].end - out[i].start
                     /\ \A t \in T[i] : /\ t \in Int /\ t \in start .. end - 1
                                        /\ IsFiniteSet(C[t])
                                        /\ Cardinality(C[t]) = out[i].count
                                        /\ C[t] # {}
               /\ \A i, j \in 1..Len(out) : i # j => T[i] \cap T[j] = {}
               /\ \A t \in Int : C[t] # {} => \E i \in 1..Len(out) : t \in T[i]
<1> DEFINE T == UnitsOf(out)
<1>1. IsFiniteSet(1..Len(out)) /\ DOMAIN T = 1..Len(out)
  <2>1. 1 \in Int /\ Len(out) \in Int
    BY DEF Tells
  <2> QED BY <2>1, FS_Interval DEF UnitsOf
<1>2. ASSUME NEW i \in 1..Len(out)
      PROVE  /\ IsFiniteSet(T[i])
             /\ Cardinality(T[i]) = out[i].end - out[i].start
             /\ \A t \in T[i] : /\ t \in Int /\ t \in start .. end - 1
                                /\ IsFiniteSet(C[t])
                                /\ Cardinality(C[t]) = out[i].count
                                /\ C[t] # {}
  <2> DEFINE a == out[i].start  e == out[i].end  b == e - 1  n == out[i].count
  <2>1. /\ a \in Int /\ b \in Int /\ e \in Int /\ b = e - 1 /\ a < e /\ start <= a /\ e <= end
        /\ n \in Nat \ {0}
    <3>1. /\ out[i].start \in Int /\ out[i].end \in Int /\ out[i].count \in Nat \ {0}
          /\ start <= out[i].start /\ out[i].start < out[i].end /\ out[i].end <= end
      BY DEF Tells
    <3> QED BY <3>1
  <2>2. T[i] = a..b
    BY DEF UnitsOf
  <2>3. \A t \in Int : a <= t /\ t < e => Cardinality(C[t]) = n
    BY DEF Tells
  <2>4. \A t \in Int : IsFiniteSet(C[t])
    BY DEF Tells
  <2> HIDE DEF a, b, e, n, T
  <2>5. IsFiniteSet(T[i]) /\ Cardinality(T[i]) = e - a
    <3>1. ~(a > b) /\ b - a + 1 = e - a
      BY <2>1
    <3> QED BY <2>1, <2>2, <3>1, FS_Interval
  <2>6. ASSUME NEW t \in T[i]
        PROVE  t \in Int /\ t \in start .. end - 1 /\ IsFiniteSet(C[t])
               /\ Cardinality(C[t]) = n /\ C[t] # {}
    <3>1. t \in Int /\ a <= t /\ t < e
      BY <2>1, <2>2
    <3>2. t \in start .. end - 1
      BY <2>1, <3>1
    <3>3. Cardinality(C[t]) = n /\ IsFiniteSet(C[t])
      BY <2>3, <2>4, <3>1
    <3>4. C[t] # {}
      BY <2>1, <3>3, FS_EmptySet
    <3> QED BY <3>1, <3>2, <3>3, <3>4
  <2> QED BY <2>5, <2>6 DEF a, e, n
<1>3. ASSUME NEW i \in 1..Len(out), NEW j \in 1..Len(out), i < j PROVE T[i] \cap T[j] = {}
  <2>1. /\ out[i].start \in Int /\ out[i].end \in Int
        /\ out[j].start \in Int /\ out[j].end \in Int /\ out[i].end <= out[j].start
    BY <1>3 DEF Tells
  <2>2. T[i] = out[i].start .. out[i].end - 1 /\ T[j] = out[j].start .. out[j].end - 1
    BY DEF UnitsOf
  <2> HIDE DEF T
  <2> QED BY <2>1, <2>2
<1>4. ASSUME NEW i \in 1..Len(out), NEW j \in 1..Len(out), i # j PROVE T[i] \cap T[j] = {}
  <2>1. i < j \/ j < i
    BY <1>4 DEF Tells
  <2> HIDE DEF T
  <2> QED BY <1>3, <2>1
<1>5. ASSUME NEW t \in Int, C[t] # {} PROVE \E i \in 1..Len(out) : t \in T[i]
  <2>1. PICK i \in 1..Len(out) : out[i].start <= t /\ t < out[i].end
    BY <1>5 DEF Tells
  <2>2. out[i].start \in Int /\ out[i].end \in Int
    BY DEF Tells
  <2>3. T[i] = out[i].start .. out[i].end - 1
    BY DEF UnitsOf
  <2>4. t \in T[i]
    BY <2>1, <2>2, <2>3
  <2> QED BY <2>4
<1> QED
  <2> HIDE DEF T
  <2> QED BY <1>1, <1>2, <1>4, <1>5 DEF T

\* summary: the GPU time is the number of pairs of a unit and a card in use.
LEMMA GpuTimeCounts ==
    ASSUME NEW out, NEW C, NEW start \in Int, NEW end \in Int, Tells(out, C, start, end)
    PROVE  GpuTime(out) = Cardinality(UNION {{t} \X C[t] : t \in start .. end - 1})
<1> DEFINE D == 1..Len(out)
           T == UnitsOf(out)
           M == [i \in D |-> UNION {{t} \X C[t] : t \in T[i]}]
           W == UNION {{t} \X C[t] : t \in start .. end - 1}
<1>1. /\ IsFiniteSet(D) /\ DOMAIN T = D
      /\ \A i \in D :
            /\ IsFiniteSet(T[i])
            /\ Cardinality(T[i]) = out[i].end - out[i].start
            /\ \A t \in T[i] : /\ t \in Int /\ t \in start .. end - 1
                               /\ IsFiniteSet(C[t])
                               /\ Cardinality(C[t]) = out[i].count
                               /\ C[t] # {}
      /\ \A i, j \in D : i # j => T[i] \cap T[j] = {}
      /\ \A t \in Int : C[t] # {} => \E i \in D : t \in T[i]
  BY SegmentUnits
<1>2. DOMAIN out = D /\ \A i \in D : out[i].count \in Nat
  BY DEF Tells
<1> HIDE DEF D, T
<1>3. \A i \in D : \A e : e \in M[i] <=> \E t \in T[i] : e \in {t} \X C[t]
  OBVIOUS
<1>4. \A e : e \in W <=> \E t \in start .. end - 1 : e \in {t} \X C[t]
  OBVIOUS
<1>5. ASSUME NEW i \in D
      PROVE  IsFiniteSet(M[i]) /\ Cardinality(M[i]) = (out[i].end - out[i].start) * out[i].count
  <2> DEFINE n == out[i].count
             A == [t \in T[i] |-> C[t]]
             P == UNION {{t} \X A[t] : t \in T[i]}
  <2>1. DOMAIN A = T[i] /\ \A t \in T[i] : IsFiniteSet(A[t]) /\ Cardinality(A[t]) = n
    BY <1>1
  <2>2. M[i] = P
    OBVIOUS
  <2>3. n \in Nat /\ IsFiniteSet(T[i])
    BY <1>1, <1>2
  <2> HIDE DEF M, A, n
  <2>4. IsFiniteSet(P) /\ Cardinality(P) = Cardinality(T[i]) * n
    BY <2>1, <2>3, CountedEqually
  <2> QED BY <1>1, <2>2, <2>4 DEF n
<1>6. DOMAIN M = D
  OBVIOUS
<1> HIDE DEF M, W
<1>7. \A i, j \in D : i # j => M[i] \cap M[j] = {}
  <2> SUFFICES ASSUME NEW i \in D, NEW j \in D, i # j, NEW e \in M[i], e \in M[j]
               PROVE  FALSE
    OBVIOUS
  <2>1. PICK t \in T[i] : e \in {t} \X C[t]
    BY <1>3
  <2>2. PICK u \in T[j] : e \in {u} \X C[u]
    BY <1>3
  <2>3. t = u
    BY <2>1, <2>2
  <2>4. T[i] \cap T[j] = {}
    BY <1>1
  <2> QED BY <2>3, <2>4
<1>8. UNION {M[i] : i \in D} = W
  <2>1. ASSUME NEW i \in D, NEW e \in M[i] PROVE e \in W
    <3>1. PICK t \in T[i] : e \in {t} \X C[t]
      BY <1>3
    <3>2. t \in start .. end - 1
      BY <1>1
    <3> QED BY <1>4, <3>1, <3>2
  <2>2. ASSUME NEW e \in W PROVE \E i \in D : e \in M[i]
    <3>1. PICK t \in start .. end - 1 : e \in {t} \X C[t]
      BY <1>4
    <3>2. t \in Int /\ C[t] # {}
      BY <3>1
    <3>3. PICK i \in D : t \in T[i]
      BY <1>1, <3>2
    <3> QED BY <1>3, <3>1, <3>3
  <2> QED BY <2>1, <2>2
<1> DEFINE g == [i \in D |-> (out[i].end - out[i].start) * out[i].count]
<1>9. GpuTime(out) = Total(g)
  BY <1>2 DEF GpuTime
<1>10. [i \in D |-> Cardinality(M[i])] = g
  BY <1>5
<1> HIDE DEF g
<1>11. Total([i \in D |-> Cardinality(M[i])]) = Cardinality(UNION {M[i] : i \in D})
  <2>1. \A i \in D : IsFiniteSet(M[i])
    BY <1>5
  <2>2. IsFiniteSet(D)
    BY <1>1
  <2>3. DOMAIN M = D
    BY <1>6
  <2>4. \A i, j \in D : i # j => M[i] \cap M[j] = {}
    BY <1>7
  <2>5. /\ IsFiniteSet(UNION {M[x] : x \in D})
        /\ Total([x \in D |-> Cardinality(M[x])]) = Cardinality(UNION {M[x] : x \in D})
    <3>1. Family(M, D)
      BY <2>1, <2>2, <2>3, <2>4 DEF Family
    <3>2. AddsUp(M, D)
      BY <3>1, Counted
    <3> QED BY <3>2 DEF AddsUp
  <2> QED BY <2>5
<1> QED BY <1>8, <1>9, <1>10, <1>11 DEF W

\* The active time is the number of the units in which some card was in use.
LEMMA ActiveCounts ==
    ASSUME NEW out, NEW C, NEW start \in Int, NEW end \in Int, Tells(out, C, start, end)
    PROVE  Total([i \in DOMAIN out |-> out[i].end - out[i].start])
             = Cardinality({t \in start .. end - 1 : C[t] # {}})
<1> DEFINE D == 1..Len(out)
           T == UnitsOf(out)
           busy == {t \in start .. end - 1 : C[t] # {}}
<1>1. /\ IsFiniteSet(D) /\ DOMAIN T = D
      /\ \A i \in D :
            /\ IsFiniteSet(T[i])
            /\ Cardinality(T[i]) = out[i].end - out[i].start
            /\ \A t \in T[i] : /\ t \in Int /\ t \in start .. end - 1
                               /\ C[t] # {}
      /\ \A i, j \in D : i # j => T[i] \cap T[j] = {}
      /\ \A t \in Int : C[t] # {} => \E i \in D : t \in T[i]
  BY SegmentUnits
<1>2. DOMAIN out = D
  BY DEF Tells
<1>3. \A t : t \in busy <=> t \in start .. end - 1 /\ C[t] # {}
  OBVIOUS
<1> HIDE DEF D, T, busy
<1>4. UNION {T[i] : i \in D} = busy
  <2>1. \A i \in D : \A t \in T[i] : t \in busy
    BY <1>1, <1>3
  <2>2. ASSUME NEW t \in busy PROVE \E i \in D : t \in T[i]
    <3>1. t \in Int /\ C[t] # {}
      BY <1>3
    <3> QED BY <1>1, <3>1
  <2> QED BY <2>1, <2>2
<1>5. [i \in D |-> Cardinality(T[i])] = [i \in DOMAIN out |-> out[i].end - out[i].start]
  BY <1>1, <1>2
<1>6. Total([i \in D |-> Cardinality(T[i])]) = Cardinality(UNION {T[i] : i \in D})
  <2>1. \A i \in D : IsFiniteSet(T[i])
    BY <1>1
  <2>2. \A i, j \in D : i # j => T[i] \cap T[j] = {}
    BY <1>1
  <2>3. IsFiniteSet(D)
    BY <1>1
  <2>4. DOMAIN T = D
    BY <1>1
  <2>5. /\ IsFiniteSet(UNION {T[x] : x \in D})
        /\ Total([x \in D |-> Cardinality(T[x])]) = Cardinality(UNION {T[x] : x \in D})
    <3>1. Family(T, D)
      BY <2>1, <2>2, <2>3, <2>4 DEF Family
    <3>2. AddsUp(T, D)
      BY <3>1, Counted
    <3> QED BY <3>2 DEF AddsUp
  <2> QED BY <2>5
<1> QED BY <1>4, <1>5, <1>6 DEF busy

\* The segments that reach over a unit count the cards in use in it.
LEMMA UnitCounts ==
    ASSUME NEW out, NEW C, NEW start \in Int, NEW end \in Int, Tells(out, C, start, end),
           NEW t \in Int
    PROVE  Total([i \in {j \in DOMAIN out : out[j].start <= t /\ t < out[j].end}
                    |-> out[i].count])
             = Cardinality(C[t])
<1> DEFINE here == {j \in DOMAIN out : out[j].start <= t /\ t < out[j].end}
           n == Cardinality(C[t])
           f == [i \in here |-> out[i].count]
<1>1. DOMAIN out = 1..Len(out) /\ n \in Nat
  BY DEF Tells
<1>2. \A i \in here : out[i].count = n /\ n # 0
  BY <1>1 DEF Tells
<1>3. f = [i \in here |-> n]
  <2> HIDE DEF here, n
  <2> QED BY <1>2
<1>4. \A i, j \in here : i = j
  <2> SUFFICES ASSUME NEW i \in here, NEW j \in here, i # j
               PROVE  FALSE
    OBVIOUS
  <2>1. /\ i \in 1..Len(out) /\ j \in 1..Len(out) /\ Len(out) \in Nat
        /\ out[i].start <= t /\ t < out[i].end /\ out[j].start <= t /\ t < out[j].end
    BY <1>1 DEF Tells
  <2>2. /\ out[i].start \in Int /\ out[i].end \in Int /\ out[j].start \in Int /\ out[j].end \in Int
    BY <2>1 DEF Tells
  <2>3. i < j => out[i].end <= out[j].start
    BY <2>1 DEF Tells
  <2>4. j < i => out[j].end <= out[i].start
    BY <2>1 DEF Tells
  <2> QED BY <2>1, <2>2, <2>3, <2>4
<1>5. C[t] # {} => here # {}
  BY <1>1 DEF Tells
<1>6. IsFiniteSet(here) /\ Cardinality(here) * n = n
  <2> HIDE DEF here
  <2>1. CASE here = {}
    <3>1. C[t] = {}
      BY <1>5, <2>1
    <3>2. n = 0
      BY <3>1, FS_EmptySet
    <3> HIDE DEF n
    <3> QED BY <2>1, <3>2, FS_EmptySet
  <2>2. CASE here # {}
    <3>1. PICK i \in here : TRUE
      BY <2>2
    <3>2. here = {i}
      BY <1>4, <3>1
    <3>3. IsFiniteSet(here) /\ Cardinality(here) = 1
      BY <3>2, FS_Singleton
    <3> HIDE DEF n
    <3> QED BY <1>1, <3>3
  <2> QED BY <2>1, <2>2
<1> HIDE DEF here, n, f
<1>7. Total([i \in here |-> n]) = Cardinality(here) * n
  BY <1>1, <1>6, TotalOfEqual
<1> QED BY <1>3, <1>6, <1>7 DEF f, here, n

\* The units in which some card was in use.
BusyIn(records, start, end) ==
    {t \in start .. end - 1 : CardsIn(records, start, end, t) # {}}

\* What a summary has, by the cards in use in each unit of time.
LEMMA SummaryCounts ==
    ASSUME NEW records, Timed(records), NEW start \in Int, NEW end \in Int
    PROVE  LET sum == Summary(records, start, end)
           IN  /\ sum.gpu = Cardinality(Worked(records, start, end))
               /\ sum.active = Cardinality(BusyIn(records, start, end))
<1> DEFINE out == Segments(records, start, end)
           C == CardsOf(records, start, end)
<1>1. Tells(out, C, start, end)
  BY SegmentsCount
<1>2. \A t \in start .. end - 1 : C[t] = CardsIn(records, start, end, t)
  BY DEF CardsOf
<1>3. Summary(records, start, end).gpu = GpuTime(out)
      /\ Summary(records, start, end).active
           = Total([i \in DOMAIN out |-> out[i].end - out[i].start])
  BY DEF Summary
<1> HIDE DEF out, C
<1>4. GpuTime(out) = Cardinality(UNION {{t} \X C[t] : t \in start .. end - 1})
  BY <1>1, GpuTimeCounts
<1>5. Total([i \in DOMAIN out |-> out[i].end - out[i].start])
        = Cardinality({t \in start .. end - 1 : C[t] # {}})
  BY <1>1, ActiveCounts
<1>6. UNION {{t} \X C[t] : t \in start .. end - 1} = Worked(records, start, end)
  BY <1>2 DEF Worked
<1>7. {t \in start .. end - 1 : C[t] # {}}
        = BusyIn(records, start, end)
  BY <1>2 DEF BusyIn
<1> QED BY <1>3, <1>4, <1>5, <1>6, <1>7

\* A pair of a unit and a card is worked when a record has them.
LEMMA WorkedBy ==
    ASSUME NEW records, NEW start, NEW end
    PROVE  \A e : e \in Worked(records, start, end) <=>
               \E t \in start .. end - 1 : \E r \in records :
                  In(t, Cut(r, start, end)) /\ e = <<t, r.card>>
<1> SUFFICES ASSUME NEW e
             PROVE  e \in Worked(records, start, end) <=>
                       \E t \in start .. end - 1 : \E r \in records :
                          In(t, Cut(r, start, end)) /\ e = <<t, r.card>>
  OBVIOUS
<1>1. e \in Worked(records, start, end) <=>
         \E t \in start .. end - 1 : e \in {t} \X CardsIn(records, start, end, t)
  BY DEF Worked
<1>2. ASSUME NEW t
      PROVE  e \in {t} \X CardsIn(records, start, end, t)
               <=> \E r \in records : In(t, Cut(r, start, end)) /\ e = <<t, r.card>>
  <2>1. \A c : c \in CardsIn(records, start, end, t)
                 <=> \E r \in records : In(t, Cut(r, start, end)) /\ c = r.card
    BY DEF CardsIn
  <2>2. e \in {t} \X CardsIn(records, start, end, t)
          <=> \E c \in CardsIn(records, start, end, t) : e = <<t, c>>
    OBVIOUS
  <2> QED BY <2>1, <2>2
<1> QED BY <1>1, <1>2

\* The models' shares add up: the work of a card counts for its model.
LEMMA ModelShares ==
    ASSUME NEW records, Timed(records), NEW start \in Int, NEW end \in Int,
           \A q, r \in records : q.card = r.card => q.model = r.model
    PROVE  Total(ModelStatistics(records, start, end)) = Summary(records, start, end).gpu
<1> DEFINE D == {r.model : r \in records}
           Of(m) == {r \in records : r.model = m}
           M == [m \in D |-> Worked(Of(m), start, end)]
           W == Worked(records, start, end)
<1>1. IsFiniteSet(D)
  <2>1. DEFINE f == [r \in records |-> r.model]
  <2>2. D = {f[r] : r \in records}
    OBVIOUS
  <2>3. IsFiniteSet(records)
    BY DEF Timed
  <2> HIDE DEF f
  <2>4. IsFiniteSet({f[r] : r \in records})
    BY <2>3, ImageIsFinite
  <2> QED BY <2>2, <2>4
<1>2. \A m \in D : Timed(Of(m))
  <2> SUFFICES ASSUME NEW m \in D PROVE Timed(Of(m))
    OBVIOUS
  <2>1. IsFiniteSet(Of(m))
    <3>1. IsFiniteSet(records) /\ Of(m) \subseteq records
      BY DEF Timed
    <3> QED BY <3>1, FS_Subset
  <2> QED BY <2>1 DEF Timed
<1>3. \A m \in D : /\ IsFiniteSet(M[m])
                   /\ Summary(Of(m), start, end).gpu = Cardinality(M[m])
  <2> SUFFICES ASSUME NEW m \in D
               PROVE  /\ IsFiniteSet(Worked(Of(m), start, end))
                      /\ Summary(Of(m), start, end).gpu = Cardinality(Worked(Of(m), start, end))
    OBVIOUS
  <2>1. Timed(Of(m))
    BY <1>2
  <2> HIDE DEF Of
  <2> QED BY <2>1, SummaryCounts, WorkedCounts
<1>4. ModelStatistics(records, start, end) = [m \in D |-> Summary(Of(m), start, end).gpu]
  BY DEF ModelStatistics
<1>5. DOMAIN M = D
  OBVIOUS
<1>6. \A m \in D : \A e : e \in M[m] <=>
         \E t \in start .. end - 1 : \E r \in records :
            r.model = m /\ In(t, Cut(r, start, end)) /\ e = <<t, r.card>>
  <2> SUFFICES ASSUME NEW m \in D, NEW e
               PROVE  e \in M[m] <=>
                        \E t \in start .. end - 1 : \E r \in records :
                           r.model = m /\ In(t, Cut(r, start, end)) /\ e = <<t, r.card>>
    OBVIOUS
  <2>1. e \in Worked(Of(m), start, end) <=>
          \E t \in start .. end - 1 : \E r \in Of(m) :
             In(t, Cut(r, start, end)) /\ e = <<t, r.card>>
    BY WorkedBy
  <2> QED BY <2>1
<1>7. \A e : e \in W <=>
         \E t \in start .. end - 1 : \E r \in records :
            In(t, Cut(r, start, end)) /\ e = <<t, r.card>>
  BY WorkedBy
<1>8. \A r \in records : r.model \in D
  OBVIOUS
<1>9. ModelStatistics(records, start, end) = [m \in D |-> Cardinality(M[m])]
  BY <1>3, <1>4
<1>10. Summary(records, start, end).gpu = Cardinality(W)
  BY SummaryCounts
<1> HIDE DEF M, D, W, Of
<1>11. UNION {M[m] : m \in D} = W
  <2>1. \A m \in D : \A e \in M[m] : e \in W
    BY <1>6, <1>7
  <2>2. \A e \in W : \E m \in D : e \in M[m]
    BY <1>6, <1>7, <1>8
  <2> QED BY <2>1, <2>2
<1>12. \A m, n \in D : m # n => M[m] \cap M[n] = {}
  <2> SUFFICES ASSUME NEW m \in D, NEW n \in D, m # n, NEW e \in M[m], e \in M[n]
               PROVE  FALSE
    OBVIOUS
  <2>1. PICK t \in start .. end - 1 : \E r \in records :
           r.model = m /\ In(t, Cut(r, start, end)) /\ e = <<t, r.card>>
    BY <1>6
  <2>2. PICK u \in start .. end - 1 : \E r \in records :
           r.model = n /\ In(u, Cut(r, start, end)) /\ e = <<u, r.card>>
    BY <1>6
  <2>3. PICK q \in records : q.model = m /\ e = <<t, q.card>>
    BY <2>1
  <2>4. PICK r \in records : r.model = n /\ e = <<u, r.card>>
    BY <2>2
  <2>5. q.card = r.card
    BY <2>3, <2>4
  <2> QED BY <2>3, <2>4, <2>5
<1>13. \A m \in D : IsFiniteSet(M[m])
  BY <1>3
<1>14. /\ IsFiniteSet(UNION {M[m] : m \in D})
       /\ Total([m \in D |-> Cardinality(M[m])]) = Cardinality(UNION {M[m] : m \in D})
  <2>1. Family(M, D)
    BY <1>1, <1>5, <1>12, <1>13 DEF Family
  <2>2. AddsUp(M, D)
    BY <2>1, Counted
  <2> QED BY <2>2 DEF AddsUp
<1> QED BY <1>9, <1>10, <1>11, <1>14

-----------------------------------------------------------------------------
(* Days *)

\* Division by the length of a day.
LEMMA DayOf ==
    ASSUME NEW t \in Int
    PROVE  /\ t \div DayLength \in Int
           /\ \A d \in Int : d <= t \div DayLength <=> d * DayLength <= t
<1> DEFINE q == t \div DayLength
<1>1. DayLength \in Nat \ {0}
  BY AccountingAssumption
<1>2. q \in Int /\ q * DayLength <= t /\ t < (q + 1) * DayLength
  BY <1>1
<1> HIDE DEF q
<1>3. ASSUME NEW d \in Int PROVE d <= q <=> d * DayLength <= t
  <2>1. d <= q => d * DayLength <= q * DayLength
    BY <1>1, <1>2
  <2>2. q < d => (q + 1) * DayLength <= d * DayLength
    BY <1>1, <1>2
  <2>3. d * DayLength \in Int /\ q * DayLength \in Int /\ (q + 1) * DayLength \in Int
    BY <1>1, <1>2
  <2> DEFINE x == d * DayLength  y == q * DayLength  z == (q + 1) * DayLength
  <2>4. x \in Int /\ y \in Int /\ z \in Int /\ (d <= q => x <= y) /\ (q < d => z <= x)
        /\ y <= t /\ t < z
    BY <1>2, <2>1, <2>2, <2>3
  <2> HIDE DEF x, y, z
  <2>5. d <= q <=> x <= t
    BY <1>2, <2>4
  <2> QED BY <2>5 DEF x
<1> QED BY <1>2, <1>3 DEF q

\* A day begins at a multiple of its length.
LEMMA DayBegins ==
    ASSUME NEW d \in Int
    PROVE  d * DayLength \in Int /\ (d * DayLength) \div DayLength = d
           /\ (d + 1) * DayLength \in Int /\ d * DayLength < (d + 1) * DayLength
<1> DEFINE x == d * DayLength
           z == (d + 1) * DayLength
<1>1. DayLength \in Nat \ {0}
  BY AccountingAssumption
<1>2. x \in Int /\ z \in Int /\ z = x + DayLength
  BY <1>1
<1>3. d <= x \div DayLength /\ x \div DayLength \in Int
  <2>1. x \div DayLength \in Int /\ (d <= x \div DayLength <=> d * DayLength <= x)
    BY <1>2, DayOf
  <2> QED BY <1>2, <2>1
<1>4. ~(d + 1 <= x \div DayLength)
  <2>1. d + 1 \in Int
    OBVIOUS
  <2>2. d + 1 <= x \div DayLength <=> z <= x
    BY <1>2, <2>1, DayOf
  <2> HIDE DEF x, z
  <2> QED BY <1>1, <1>2, <2>2
<1> HIDE DEF x, z
<1>5. x \div DayLength = d
  <2> DEFINE q == x \div DayLength
  <2>1. d <= q /\ q \in Int /\ ~(d + 1 <= q)
    BY <1>3, <1>4
  <2> HIDE DEF q
  <2>2. q = d
    BY <2>1
  <2> QED BY <2>2 DEF q
<1>6. x < z
  BY <1>1, <1>2
<1> QED BY <1>2, <1>5, <1>6 DEF x, z

\* Records within a range.
Inside(records, start, end) ==
    /\ Timed(records)
    /\ \A r \in records : start <= r.start /\ r.start <= r.end /\ r.end <= end

\* A day from x to z has an instant of a record: some of its time, or, of a
\* record that is an instant, the day's start.
Meets(r, x, z) == r.start < z /\ (x < r.end \/ (r.start = x /\ r.end = x))

LEMMA DaysOfRecord ==
    ASSUME NEW r, NEW start \in Int, NEW end \in Int, r.start \in Int, r.end \in Int,
           start <= r.start, r.start <= r.end, r.end <= end
    PROVE  /\ ObservedDays(r, start, end) \subseteq Int
           /\ \A d \in Int :
                 d \in ObservedDays(r, start, end)
                   <=> r.start < end /\ Meets(r, d * DayLength, (d + 1) * DayLength)
<1> DEFINE a == r.start
           b == r.end
           p == a \div DayLength
           q == b \div DayLength
           days == ObservedDays(r, start, end)
<1>1. Cut(r, start, end)[1] = a /\ Cut(r, start, end)[2] = b
  <2>1. AtLeast(start, a) = a /\ AtMost(end, b) = b
    BY DEF AtLeast, AtMost
  <2> QED BY <2>1 DEF Cut
<1>2. a \in Int /\ b \in Int /\ a <= b /\ b <= end /\ p \in Int /\ q \in Int
  BY DayOf
<1>3. days = IF a >= end THEN {} ELSE {p} \cup {d \in p + 1 .. q : d * DayLength < b}
  <2>1. ~(b < a) /\ ~(b = a /\ r.start # r.end)
    BY <1>2
  <2>2. days = IF b < a \/ a >= end \/ (b = a /\ r.start # r.end) THEN {}
               ELSE {p} \cup {d \in p + 1 .. q : d * DayLength < b}
    BY <1>1 DEF ObservedDays
  <2> HIDE DEF days, p, q, a, b
  <2> QED BY <2>1, <2>2
<1>4. ASSUME NEW d \in Int
      PROVE  d \in days <=> a < end /\ Meets(r, d * DayLength, (d + 1) * DayLength)
  <2> DEFINE x == d * DayLength
             z == (d + 1) * DayLength
  <2>1. x \in Int /\ z \in Int /\ x < z
    BY DayBegins
  <2>2. (d <= p <=> x <= a) /\ (d <= q <=> x <= b)
    BY <1>2, DayOf
  <2>3. d + 1 <= p <=> z <= a
    <3>1. d + 1 \in Int
      OBVIOUS
    <3> QED BY <1>2, <3>1, DayOf
  <2>4. Meets(r, x, z) <=> a < z /\ (x < b \/ (a = x /\ b = x))
    BY DEF Meets
  <2>5. d \in days <=> a < end /\ (d = p \/ (p + 1 <= d /\ d <= q /\ x < b))
    <3> HIDE DEF p, q, a, b, days
    <3>1. d \in p + 1 .. q <=> p + 1 <= d /\ d <= q
      BY <1>2
    <3>2. CASE a >= end
      BY <1>2, <1>3, <3>2
    <3>3. CASE ~(a >= end)
      <4>1. a < end
        BY <1>2, <3>3
      <4>2. days = {p} \cup {c \in p + 1 .. q : c * DayLength < b}
        BY <1>3, <3>3
      <4>3. d \in days <=> d = p \/ (d \in p + 1 .. q /\ d * DayLength < b)
        BY <4>2
      <4> QED BY <3>1, <4>1, <4>3
    <3> QED BY <3>2, <3>3
  <2> HIDE DEF p, q, a, b, days, x, z
  <2>6. d = p <=> x <= a /\ a < z
    BY <1>2, <2>1, <2>2, <2>3
  <2>7. p + 1 <= d <=> a < x
    BY <1>2, <2>1, <2>2
  <2> QED
    <3>1. d \in days <=> a < end /\ ((x <= a /\ a < z) \/ (a < x /\ x <= b /\ x < b))
      BY <2>2, <2>5, <2>6, <2>7
    <3>2. ((x <= a /\ a < z) \/ (a < x /\ x <= b /\ x < b))
             <=> a < z /\ (x < b \/ (a = x /\ b = x))
      BY <1>2, <2>1
    <3> QED BY <2>4, <3>1, <3>2 DEF x, z
<1>5. days \subseteq Int
  <2> HIDE DEF p, q, a, b, days
  <2>1. ASSUME NEW d \in days PROVE d \in Int
    <3>1. d = p \/ d \in p + 1 .. q
      BY <1>3
    <3>2. p + 1 \in Int
      BY <1>2
    <3> QED BY <1>2, <3>1, <3>2
  <2> QED BY <2>1
<1> HIDE DEF days
<1> QED BY <1>4, <1>5 DEF days

\* A unit in which a card was in use is of a day that counts.
LEMMA BusyDays ==
    ASSUME NEW start \in Int, NEW end \in Int, NEW records, Inside(records, start, end),
           NEW t \in start .. end - 1, CardsIn(records, start, end, t) # {}
    PROVE  t \div DayLength \in Summary(records, start, end).days
<1>1. PICK r \in records : In(t, Cut(r, start, end))
  BY DEF CardsIn
<1>2. /\ r.start \in Int /\ r.end \in Int
      /\ start <= r.start /\ r.start <= r.end /\ r.end <= end
  BY DEF Inside, Timed
<1>3. r.start <= t /\ t < r.end /\ r.start < end /\ t \in Int
  <2>1. Cut(r, start, end) = <<AtLeast(start, r.start), AtMost(end, r.end)>>
    BY DEF Cut
  <2>2. AtLeast(start, r.start) = r.start /\ AtMost(end, r.end) = r.end
    BY <1>2 DEF AtLeast, AtMost
  <2> QED BY <1>1, <1>2, <2>1, <2>2 DEF In
<1> DEFINE d == t \div DayLength
           x == d * DayLength
           z == (d + 1) * DayLength
<1>4. d \in Int
  BY <1>3, DayOf
<1>5. x <= t /\ t < z /\ x \in Int /\ z \in Int
  <2>1. d <= d <=> x <= t
    BY <1>3, <1>4, DayOf
  <2>2. d + 1 <= d <=> z <= t
    <3>1. d + 1 \in Int
      BY <1>4
    <3> QED BY <1>3, <3>1, DayOf
  <2>3. x \in Int /\ z \in Int
    BY <1>4, DayBegins
  <2> HIDE DEF d, x, z
  <2> QED BY <1>3, <1>4, <2>1, <2>2, <2>3
<1> HIDE DEF d
<1>6. Meets(r, x, z)
  <2> HIDE DEF x, z
  <2> QED BY <1>2, <1>3, <1>5 DEF Meets
<1>7. d \in ObservedDays(r, start, end)
  BY <1>2, <1>3, <1>4, <1>6, DaysOfRecord
<1>8. Summary(records, start, end).days = UNION {ObservedDays(q, start, end) : q \in records}
  BY DEF Summary
<1> QED BY <1>7, <1>8 DEF d

-----------------------------------------------------------------------------
(* The records of an account's uses *)

\* What was written, and what waits to be, is finite.
FiniteInv ==
    /\ IsFiniteSet(observed)
    /\ waiting \in Seq(SnapshotRow)
    /\ \A i \in 1..Len(waiting) : IsFiniteSet(waiting[i].seen)

LEMMA FiniteStep == TablesInv /\ FiniteInv /\ [Next]_vars => FiniteInv'
<1> SUFFICES ASSUME TablesInv, FiniteInv, [Next]_vars
             PROVE  FiniteInv'
  OBVIOUS
<1>0. waiting' \in Seq(SnapshotRow)
  <2>1. TablesInv'
    BY TablesStep
  <2> QED BY <2>1 DEF TablesInv, QueueInv
<1>1. ASSUME NEW seen, Sample(seen) PROVE FiniteInv'
  <2> DEFINE row == [at |-> clock, seen |-> seen]
  <2>1. waiting' = Append(waiting, row) /\ observed' = observed /\ IsFiniteSet(row.seen)
    BY <1>1 DEF Sample
  <2> HIDE DEF row
  <2>2. /\ Len(Append(waiting, row)) = Len(waiting) + 1 /\ Len(waiting) \in Nat
        /\ \A i \in 1..Len(waiting) : Append(waiting, row)[i] = waiting[i]
        /\ Append(waiting, row)[Len(waiting) + 1] = row
    BY AppendProperties DEF FiniteInv
  <2>3. ASSUME NEW i \in 1..Len(waiting') PROVE IsFiniteSet(waiting'[i].seen)
    <3>1. i \in 1..Len(waiting) \/ i = Len(waiting) + 1
      BY <2>1, <2>2
    <3>2. CASE i \in 1..Len(waiting)
      BY <2>1, <2>2, <3>2 DEF FiniteInv
    <3>3. CASE i = Len(waiting) + 1
      BY <2>1, <2>2, <3>3
    <3> QED BY <3>1, <3>2, <3>3
  <2> QED BY <1>0, <2>1, <2>3 DEF FiniteInv
<1>2. ASSUME Write PROVE FiniteInv'
  <2> DEFINE seen == Head(waiting).seen
             f == [use \in seen |-> <<Head(waiting).at, use[1], use[2]>>]
  <2>1. /\ observed' = observed \cup {f[use] : use \in seen}
        /\ waiting # <<>> /\ waiting' = Tail(waiting)
    BY <1>2 DEF Write
  <2>2. /\ Len(Tail(waiting)) = Len(waiting) - 1 /\ Len(waiting) \in Nat \ {0}
        /\ \A i \in 1 .. Len(waiting) - 1 : Tail(waiting)[i] = waiting[i + 1]
        /\ Head(waiting) = waiting[1]
    BY <2>1, HeadTailProperties, EmptySeq, LenProperties DEF FiniteInv
  <2>3. IsFiniteSet(seen)
    <3>1. 1 \in 1..Len(waiting)
      BY <2>2
    <3> QED BY <2>2, <3>1 DEF FiniteInv
  <2> HIDE DEF f, seen
  <2>4. IsFiniteSet({f[use] : use \in seen})
    BY <2>3, ImageIsFinite
  <2>5. IsFiniteSet(observed')
    BY <2>1, <2>4, FS_Union DEF FiniteInv
  <2>6. ASSUME NEW i \in 1..Len(waiting') PROVE IsFiniteSet(waiting'[i].seen)
    <3>1. i \in 1 .. Len(waiting) - 1 /\ i + 1 \in 1..Len(waiting)
      BY <2>1, <2>2
    <3> QED BY <2>1, <2>2, <3>1 DEF FiniteInv
  <2> QED BY <1>0, <2>5, <2>6 DEF FiniteInv
<1>3. ASSUME CloseStale \/ Tick \/ UNCHANGED vars PROVE FiniteInv'
  <2>1. observed' = observed /\ waiting' = waiting
    BY <1>3 DEF CloseStale, Tick, vars
  <2> QED BY <2>1 DEF FiniteInv
<1> QED BY <1>1, <1>2, <1>3 DEF Next

LEMMA FiniteInit == Init => FiniteInv
<1> SUFFICES ASSUME Init PROVE FiniteInv
  OBVIOUS
<1>1. observed = {} /\ waiting = <<>>
  BY DEF Init
<1>2. waiting \in Seq(SnapshotRow) /\ Len(waiting) = 0
  BY <1>1
<1> QED BY <1>1, <1>2, FS_EmptySet DEF FiniteInv

\* The tables are finite.
THEOREM FiniteInvariant == Spec => [](TablesInv /\ FiniteInv)
<1>1. Init => TablesInv /\ FiniteInv
  BY TablesInit, FiniteInit
<1>2. (TablesInv /\ FiniteInv) /\ [Next]_vars => (TablesInv /\ FiniteInv)'
  BY TablesStep, FiniteStep
<1> QED BY <1>1, <1>2, PTL DEF Spec

LEMMA RowsFinite ==
    ASSUME TablesInv, FiniteInv
    PROVE  IsFiniteSet(DOMAIN usages)
<1> DEFINE f == [o \in observed |-> <<SessionId(o[2]), o[3]>>]
<1>1. DOMAIN usages = {f[o] : o \in observed}
  BY DEF TablesInv, UsagesInv
<1> HIDE DEF f
<1> QED BY <1>1, ImageIsFinite DEF FiniteInv

\* The records of one row: finitely many, within the range, each of the owner
\* at its start, and of the row's card and job.
LEMMA RowRecords ==
    ASSUME TablesInv, NEW bindings \in Histories, NEW start \in Int,
           NEW row \in DOMAIN usages
    PROVE  LET usage == ResolveRow(tables, row, bindings, start, clock)
               s == sessions[row[1]]
           IN  /\ IsFiniteSet(usage)
               /\ usage # {} => usages[row].first <= clock /\ usages[row].last >= start
               /\ \A r \in usage :
                     /\ r.start \in Int /\ r.end \in Int
                     /\ start <= r.start /\ r.start <= r.end /\ r.end <= clock
                     /\ r.owner = OwnerAt(bindings, s, r.start, start)
                     /\ r.row = row /\ r.key = KeyOf(tables, row[1])
                     /\ r.card = CardOf[row[2]] /\ r.model = ModelOf[row[2]]
<1> DEFINE usage == ResolveRow(tables, row, bindings, start, clock)
           first == usages[row].first
           last == usages[row].last
           left == AtLeast(start, first)
           right == AtMost(clock, last)
           s == sessions[row[1]]
           M == Matches(bindings, s, start)
           edges == Edges(left, right, M)
           R(ab) == [owner |-> Owner(M, s, ab[1]), start |-> ab[1], end |-> ab[2],
                     row |-> row, card |-> CardOf[row[2]], model |-> ModelOf[row[2]],
                     key |-> KeyOf(tables, row[1])]
           spans == Stretches(left, right, M)
<1>1. /\ left \in Int /\ right \in Int /\ start <= left /\ right <= clock
      /\ first <= left /\ right <= last /\ first \in Int /\ last \in Int /\ clock \in Int
  <2>1. clock \in Nat /\ first \in Nat /\ last \in Nat
    BY DEF TablesInv, QueueInv, UsagesInv, UsageRow
  <2> HIDE DEF first, last
  <2> QED BY <2>1 DEF AtLeast, AtMost
<1>2. usage = IF right < left THEN {} ELSE {R(ab) : ab \in spans}
  BY DEF ResolveRow, tables
<1>3. \A b \in M : Binding(b)
  BY MatchesType
<1>4. \A ab : /\ R(ab).owner = Owner(M, s, ab[1])
              /\ R(ab).start = ab[1] /\ R(ab).end = ab[2]
              /\ R(ab).row = row /\ R(ab).key = KeyOf(tables, row[1])
              /\ R(ab).card = CardOf[row[2]] /\ R(ab).model = ModelOf[row[2]]
  OBVIOUS
<1>5. \A t \in Int : start <= t => Owner(M, s, t) = OwnerAt(bindings, s, t, start)
  BY OwnerAgrees
<1>6. spans = IF left = right THEN {<<left, right>>}
              ELSE {ab \in edges \X edges :
                      ab[1] < ab[2] /\ ~ \E e \in edges : ab[1] < e /\ e < ab[2]}
  BY DEF Stretches
<1> HIDE DEF usage, first, last, left, right, s, M, R, spans
<1>7. ASSUME left <= right PROVE edges \subseteq left..right
  <2>1. \A n \in Int : AtLeast(left, AtMost(right, n)) \in left..right
    BY <1>1, <1>7 DEF AtLeast, AtMost
  <2>2. \A b \in M : b.from \in Int /\ (b.to # None => b.to \in Int)
    BY <1>3 DEF Binding
  <2>3. ASSUME NEW d \in edges PROVE d \in left..right
    <3>1. CASE d \in {left, right}
      BY <1>1, <1>7, <3>1
    <3>2. CASE d \notin {left, right}
      <4>1. PICK n \in {b.from : b \in M} \cup ({b.to : b \in M} \ {None}) :
               d = AtLeast(left, AtMost(right, n))
        BY <3>2 DEF Edges
      <4>2. n \in Int
        BY <2>2, <4>1
      <4> QED BY <2>1, <4>1, <4>2
    <3> QED BY <3>1, <3>2
  <2> QED BY <2>3
<1> HIDE DEF edges
<1>8. ASSUME left <= right
      PROVE  /\ IsFiniteSet(spans)
             /\ \A ab \in spans : /\ ab[1] \in Int /\ ab[2] \in Int
                                  /\ left <= ab[1] /\ ab[1] <= ab[2] /\ ab[2] <= right
  <2>1. CASE left = right
    <3>1. spans = {<<left, right>>}
      BY <1>6, <2>1
    <3>2. \A ab \in spans : ab[1] = left /\ ab[2] = right
      BY <3>1
    <3>3. IsFiniteSet(spans)
      BY <3>1, FS_Singleton
    <3>4. left \in Int /\ right \in Int /\ left <= right
      BY <1>1, <1>8
    <3> QED BY <2>1, <3>2, <3>3, <3>4
  <2>2. CASE left # right
    <3>1. spans \subseteq edges \X edges /\ \A ab \in spans : ab[1] < ab[2]
      BY <1>6, <2>2
    <3>2. IsFiniteSet(left..right)
      BY <1>1, FS_Interval
    <3>3. IsFiniteSet(edges)
      BY <1>7, <1>8, <3>2, FS_Subset
    <3>4. IsFiniteSet(edges \X edges)
      BY <3>3, FS_Product
    <3>5. IsFiniteSet(spans)
      BY <3>1, <3>4, FS_Subset
    <3>6. ASSUME NEW ab \in spans
          PROVE  /\ ab[1] \in Int /\ ab[2] \in Int
                 /\ left <= ab[1] /\ ab[1] <= ab[2] /\ ab[2] <= right
      <4>1. ab[1] \in edges /\ ab[2] \in edges /\ ab[1] < ab[2]
        BY <3>1
      <4>2. ab[1] \in left..right /\ ab[2] \in left..right
        BY <1>7, <1>8, <4>1
      <4> QED BY <1>1, <4>1, <4>2
    <3> QED BY <3>5, <3>6
  <2> QED BY <2>1, <2>2
<1>9. CASE right < left
  <2>1. usage = {}
    BY <1>2, <1>9
  <2> QED BY <2>1, FS_EmptySet DEF usage, s, first, last
<1>10. CASE ~(right < left)
  <2>1. left <= right
    BY <1>1, <1>10
  <2>2. usage = {R(ab) : ab \in spans}
    BY <1>2, <1>10
  <2> DEFINE f == [ab \in spans |-> R(ab)]
  <2>3. usage = {f[ab] : ab \in spans}
    BY <2>2
  <2> HIDE DEF f
  <2>4. IsFiniteSet(usage)
    BY <1>8, <2>1, <2>3, ImageIsFinite
  <2>5. first <= clock /\ last >= start
    BY <1>1, <2>1
  <2>6. ASSUME NEW r \in usage
        PROVE  /\ r.start \in Int /\ r.end \in Int
               /\ start <= r.start /\ r.start <= r.end /\ r.end <= clock
               /\ r.owner = OwnerAt(bindings, s, r.start, start)
               /\ r.row = row /\ r.key = KeyOf(tables, row[1])
               /\ r.card = CardOf[row[2]] /\ r.model = ModelOf[row[2]]
    <3>1. PICK ab \in spans : r = R(ab)
      BY <2>2
    <3> DEFINE a == ab[1]  b == ab[2]
    <3>2. a \in Int /\ b \in Int /\ left <= a /\ a <= b /\ b <= right
      BY <1>8, <2>1
    <3>3. start <= a /\ b <= clock
      <4> HIDE DEF a, b
      <4> QED BY <1>1, <3>2
    <3>4. Owner(M, s, a) = OwnerAt(bindings, s, a, start)
      BY <1>5, <3>2, <3>3
    <3>5. r.start = a /\ r.end = b /\ r.owner = Owner(M, s, a)
          /\ r.row = row /\ r.key = KeyOf(tables, row[1])
          /\ r.card = CardOf[row[2]] /\ r.model = ModelOf[row[2]]
      BY <1>4, <3>1
    <3> HIDE DEF a, b
    <3> QED BY <3>2, <3>3, <3>4, <3>5
  <2> QED BY <2>4, <2>5, <2>6 DEF usage, s, first, last
<1> QED BY <1>9, <1>10

\* The records of all rows.
LEMMA AllRecords ==
    ASSUME TablesInv, FiniteInv, NEW bindings \in Histories, NEW start \in Int,
           NEW rows \in SUBSET DOMAIN usages
    PROVE  LET all == ResolveUsage(tables, rows, bindings, start, clock)
           IN  /\ Inside(all, start, clock)
               /\ \A q, r \in all : q.card = r.card => q.model = r.model
               /\ \A r \in all : r.row \in rows
                                 /\ r \in ResolveRow(tables, r.row, bindings, start, clock)
<1> DEFINE all == ResolveUsage(tables, rows, bindings, start, clock)
           U(row) == ResolveRow(tables, row, bindings, start, clock)
<1>1. all = UNION {U(row) : row \in rows}
  BY DEF ResolveUsage
<1>2. \A row \in rows : /\ IsFiniteSet(U(row))
                        /\ \A r \in U(row) :
                              /\ r.start \in Int /\ r.end \in Int
                              /\ start <= r.start /\ r.start <= r.end /\ r.end <= clock
                              /\ r.row = row
                              /\ r.card = CardOf[row[2]] /\ r.model = ModelOf[row[2]]
  BY RowRecords
<1>3. \A row \in rows : row[2] \in Gpus
  BY UsageWithinSession
<1> HIDE DEF all, U
<1>4. \A r \in all : \E row \in rows : r \in U(row)
  BY <1>1
<1>5. IsFiniteSet(all)
  <2> DEFINE M == [row \in rows |-> U(row)]
             X == {M[row] : row \in rows}
  <2>1. IsFiniteSet(rows)
    BY RowsFinite, FS_Subset
  <2>2. \A row \in rows : M[row] = U(row)
    OBVIOUS
  <2> HIDE DEF M
  <2>3. IsFiniteSet(X)
    BY <2>1, ImageIsFinite
  <2>4. \A Y \in X : IsFiniteSet(Y)
    BY <1>2, <2>2
  <2>5. all = UNION X
    BY <1>1, <2>2
  <2> HIDE DEF X
  <2>6. IsFiniteSet(UNION X)
    BY <2>3, <2>4, FS_UNION
  <2> QED BY <2>5, <2>6
<1>6. Inside(all, start, clock)
  BY <1>2, <1>4, <1>5 DEF Inside, Timed
<1>7. \A q, r \in all : q.card = r.card => q.model = r.model
  <2> SUFFICES ASSUME NEW q \in all, NEW r \in all, q.card = r.card
               PROVE  q.model = r.model
    OBVIOUS
  <2>1. PICK x \in rows : q \in U(x)
    BY <1>4
  <2>2. PICK y \in rows : r \in U(y)
    BY <1>4
  <2>3. /\ q.card = CardOf[x[2]] /\ q.model = ModelOf[x[2]] /\ x[2] \in Gpus
        /\ r.card = CardOf[y[2]] /\ r.model = ModelOf[y[2]] /\ y[2] \in Gpus
    BY <1>2, <1>3, <2>1, <2>2
  <2>4. \A g, h \in Gpus : CardOf[g] = CardOf[h] => ModelOf[g] = ModelOf[h]
    BY AccountingAssumption DEF AccountingAssumption
  <2> QED BY <2>3, <2>4
<1>8. \A r \in all : r.row \in rows /\ r \in U(r.row)
  BY <1>2, <1>4
<1> QED BY <1>6, <1>7, <1>8 DEF all, U

\* An instant that counts for a user is one at which a matching binding of the
\* user's holds.
LEMMA HolderOf ==
    ASSUME NEW bindings \in Histories, NEW s, NEW start \in Int, NEW t \in Int, start <= t,
           NEW user, OwnerAt(bindings, s, t, start) = <<"user", user>>
    PROVE  \E b \in Matches(bindings, s, start) : Binding(b) /\ b.user = user /\ Holds(b, t)
<1> DEFINE M == Matches(bindings, s, start)
           now == Applicable(M, t)
           chosen == CHOOSE b \in now : \A c \in now : c.from <= b.from
<1>1. Owner(M, s, t) = <<"user", user>>
  BY OwnerAgrees
<1>2. \A b \in M : Binding(b)
  BY MatchesType
<1>3. \A b \in now : b \in M /\ Holds(b, t)
  BY DEF Applicable, Holds
<1>4. Owner(M, s, t) = IF now = {} THEN <<"account", Else(s.uid, s.user)>>
                       ELSE <<"user", chosen.user>>
  BY DEF Owner
<1>5. now # {} => chosen \in now
  <2>1. \A b \in now : b.from \in Int /\ b.from <= t
    BY <1>2, <1>3 DEF Binding, Holds
  <2> HIDE DEF now
  <2> QED BY <2>1, LatestOf
<1> HIDE DEF M, now, chosen
<1>6. now # {}
  <2>1. "account" # "user"
    OBVIOUS
  <2> QED BY <1>1, <1>4, <2>1
<1>7. chosen.user = user
  BY <1>1, <1>4, <1>6
<1> QED BY <1>2, <1>3, <1>5, <1>6, <1>7 DEF M

\* A matching binding is, but for its start, one of the uid, or of the name.
LEMMA MatchedUser ==
    ASSUME NEW bindings \in Histories, NEW s, NEW start \in Int,
           NEW b \in Matches(bindings, s, start)
    PROVE  \E c \in bindings : /\ c.user = b.user
                               /\ s.uid # None => c.uid = s.uid
                               /\ s.uid = None => c.account = s.user
<1>1. CASE s.uid # None
  BY <1>1 DEF Matches
<1>2. CASE s.uid = None
  <2> DEFINE history == {c \in bindings : c.account = s.user}
             first == Min({c.from : c \in history})
  <2>1. b \in LegacyBindings(bindings, s.user, start)
    BY <1>2 DEF Matches
  <2> HIDE DEF first
  <2>2. PICK c \in history : b = IF c.from = first THEN [c EXCEPT !.from = AtMost(start, @)]
                                 ELSE c
    BY <2>1 DEF LegacyBindings, first
  <2>3. c = [account |-> c.account, uid |-> c.uid, user |-> c.user,
             from |-> c.from, to |-> c.to]
    BY SessionsAssumption DEF SessionsAssumption
  <2> DEFINE n == AtMost(start, c.from)
  <2> HIDE DEF n
  <2>4. [c EXCEPT !.from = n].user = c.user
    BY <2>3
  <2>5. b = IF c.from = first THEN [c EXCEPT !.from = n] ELSE c
    BY <2>2 DEF n
  <2>6. b.user = c.user
    BY <2>4, <2>5
  <2> QED BY <1>2, <2>6
<1> QED BY <1>1, <1>2

\* The page of a user reads the rows of the user's uids, and those that have
\* none, and misses no record of the user's.
LEMMA OwnRecords ==
    ASSUME TablesInv, NEW bindings \in Histories, NEW user
    PROVE  LET start == PageStart(clock)
               all == ResolveUsage(tables, DOMAIN usages, bindings, start, clock)
           IN  ReadActivity(tables, bindings, user, clock)
                 = {r \in all : r.owner = <<"user", user>>}
<1> DEFINE start == PageStart(clock)
           U(row) == ResolveRow(tables, row, bindings, start, clock)
           uids == {b.uid : b \in {c \in bindings : c.user = user}}
           rows == {row \in DOMAIN usages :
                      /\ usages[row].first <= clock /\ usages[row].last >= start
                      /\ sessions[row[1]].uid \in uids \cup {None}}
           owner == <<"user", user>>
           mine == ReadActivity(tables, bindings, user, clock)
<1>1. start \in Int
  <2>1. clock \in Nat
    BY DEF TablesInv, QueueInv
  <2> QED BY <2>1, PageIsFound
<1>2. mine = IF uids = {} THEN {}
             ELSE {r \in UNION {U(row) : row \in rows} : r.owner = owner}
  BY DEF ReadActivity, ResolveUsage, tables
<1>3. ResolveUsage(tables, DOMAIN usages, bindings, start, clock)
        = UNION {U(row) : row \in DOMAIN usages}
  BY DEF ResolveUsage
<1>4. ASSUME NEW row \in DOMAIN usages, NEW r \in U(row), r.owner = owner
      PROVE  uids # {} /\ row \in rows
  <2> DEFINE s == sessions[row[1]]
  <2>1. /\ usages[row].first <= clock /\ usages[row].last >= start
        /\ r.start \in Int /\ start <= r.start
        /\ r.owner = OwnerAt(bindings, s, r.start, start)
    <3>1. U(row) # {}
      BY <1>4
    <3> QED BY <1>1, <3>1, RowRecords
  <2> HIDE DEF s, start
  <2>2. PICK b \in Matches(bindings, s, start) : b.user = user
    BY <1>1, <1>4, <2>1, HolderOf
  <2>3. PICK c \in bindings : c.user = b.user /\ (s.uid # None => c.uid = s.uid)
    BY <1>1, MatchedUser
  <2>4. c.uid \in uids
    BY <2>2, <2>3
  <2>5. s.uid \in uids \cup {None}
    BY <2>3, <2>4
  <2> QED BY <2>1, <2>4, <2>5 DEF s, start
<1>5. rows \subseteq DOMAIN usages
  OBVIOUS
<1> HIDE DEF U, uids, rows, owner, start, mine
<1>6. \A r : r \in mine <=> \E row \in DOMAIN usages : r \in U(row) /\ r.owner = owner
  BY <1>2, <1>4, <1>5
<1>7. mine = {r \in UNION {U(row) : row \in DOMAIN usages} : r.owner = owner}
  BY <1>6
<1> QED BY <1>3, <1>7 DEF mine, start, owner

\* A part of the records.
LEMMA PartInside ==
    ASSUME NEW all, NEW start, NEW end, Inside(all, start, end), NEW part \in SUBSET all
    PROVE  Inside(part, start, end)
<1>1. IsFiniteSet(part)
  BY FS_Subset DEF Inside, Timed
<1> QED BY <1>1 DEF Inside, Timed

\* Within the range, what is in use is in use between its ends.
LEMMA CutIn ==
    ASSUME NEW r, r.start \in Int, r.end \in Int, NEW start \in Int, NEW end \in Int,
           NEW t \in start .. end - 1
    PROVE  In(t, Cut(r, start, end)) <=> r.start <= t /\ t < r.end
<1> DEFINE a == r.start  b == r.end
<1>1. a \in Int /\ b \in Int /\ t \in Int /\ start <= t /\ t < end
  OBVIOUS
<1>2. Cut(r, start, end)[1] = AtLeast(start, a) /\ Cut(r, start, end)[2] = AtMost(end, b)
  BY DEF Cut
<1> HIDE DEF a, b
<1>3. AtLeast(start, a) <= t <=> a <= t
  BY <1>1 DEF AtLeast
<1>4. t < AtMost(end, b) <=> t < b
  BY <1>1 DEF AtMost
<1> QED BY <1>2, <1>3, <1>4 DEF In, a, b

LEMMA CardsAtIn ==
    ASSUME NEW records, Timed(records), NEW start \in Int, NEW end \in Int,
           NEW t \in start .. end - 1
    PROVE  CardsAt(records, t) = CardsIn(records, start, end, t)
<1>1. \A r \in records : In(t, Cut(r, start, end)) <=> r.start <= t /\ t < r.end
  BY CutIn DEF Timed
<1> QED BY <1>1 DEF CardsAt, CardsIn

\* ActivityIsExact for one owner of one history.
LEMMA ActivityOfOwner ==
    ASSUME TablesInv, FiniteInv, NEW bindings \in Histories,
           NEW owner \in DOMAIN UserStatistics(tables, DOMAIN usages, bindings,
                                               PageStart(clock), clock)
    PROVE  LET now == clock
               start == PageStart(now)
               units == start .. now - 1
               all == ResolveUsage(tables, DOMAIN usages, bindings, start, now)
               statistics == UserStatistics(tables, DOMAIN usages, bindings, start, now)
               records == {r \in all : r.owner = owner}
               segments == Segments(records, start, now)
               sum == statistics[owner].summary
               busy == {t \in units : CardsAt(records, t) # {}}
            IN /\ owner[1] = "user" => ReadActivity(tables, bindings, owner[2], now) = records
               /\ \A t \in units :
                    Total([i \in {j \in DOMAIN segments : /\ segments[j].start <= t
                                                          /\ t < segments[j].end}
                             |-> segments[i].count])
                      = Cardinality(CardsAt(records, t))
               /\ \A i \in 1 .. Len(segments) - 1 :
                    /\ segments[i].end <= segments[i + 1].start
                    /\ segments[i].end = segments[i + 1].start
                         => segments[i].count # segments[i + 1].count
               /\ sum.gpu = Total([t \in units |-> Cardinality(CardsAt(records, t))])
               /\ sum.active = Cardinality(busy)
               /\ Total(statistics[owner].models) = sum.gpu
               /\ {t \div DayLength : t \in busy} \subseteq sum.days
<1> DEFINE start == PageStart(clock)
           units == start .. clock - 1
           all == ResolveUsage(tables, DOMAIN usages, bindings, start, clock)
           statistics == UserStatistics(tables, DOMAIN usages, bindings, start, clock)
           records == {r \in all : r.owner = owner}
           segments == Segments(records, start, clock)
           sum == Summary(records, start, clock)
           C == CardsOf(records, start, clock)
           busy == {t \in units : CardsAt(records, t) # {}}
<1>1. start \in Int /\ clock \in Int
  <2>1. clock \in Nat
    BY DEF TablesInv, QueueInv
  <2> QED BY <2>1, PageIsFound
<1>2. /\ statistics[owner].summary = sum
      /\ statistics[owner].models = ModelStatistics(records, start, clock)
      /\ owner \in {r.owner : r \in all}
  BY DEF UserStatistics
<1> HIDE DEF statistics
<1>3. Inside(all, start, clock)
      /\ (\A q, r \in all : q.card = r.card => q.model = r.model)
      /\ \A r \in all : r.row \in DOMAIN usages
                        /\ r \in ResolveRow(tables, r.row, bindings, start, clock)
  <2> HIDE DEF start
  <2> QED BY <1>1, AllRecords
<1>4. owner[1] = "user" => ReadActivity(tables, bindings, owner[2], clock) = records
  <2>1. PICK r \in all : owner = r.owner
    BY <1>2
  <2>2. \E s : owner = OwnerAt(bindings, s, r.start, start)
    <3> HIDE DEF start, all
    <3>1. r.row \in DOMAIN usages /\ r \in ResolveRow(tables, r.row, bindings, start, clock)
      BY <1>3
    <3> QED BY <1>1, <2>1, <3>1, RowRecords
  <2>3. \E x, y : owner = <<x, y>>
    BY <2>2 DEF OwnerAt
  <2>4. owner = <<owner[1], owner[2]>>
    BY <2>3
  <2>5. ReadActivity(tables, bindings, owner[2], clock) = {q \in all : q.owner = <<"user", owner[2]>>}
    BY OwnRecords
  <2> HIDE DEF all
  <2> QED BY <2>4, <2>5
<1> HIDE DEF start, all
<1>5. Inside(records, start, clock) /\ \A q, r \in records : q.card = r.card => q.model = r.model
  <2>1. records \subseteq all
    OBVIOUS
  <2> HIDE DEF records
  <2> QED BY <1>3, <2>1, PartInside
<1> HIDE DEF records
<1>6. Timed(records)
  BY <1>5 DEF Inside
<1>7. \A t \in units : CardsAt(records, t) = CardsIn(records, start, clock, t)
  BY <1>1, <1>6, CardsAtIn
<1>8. /\ Tells(segments, C, start, clock)
      /\ \A i \in 1 .. Len(segments) - 1 :
            segments[i].end = segments[i + 1].start => segments[i].count # segments[i + 1].count
      /\ \A t \in Int : C[t] = CardsIn(records, start, clock, t)
  BY <1>1, <1>6, SegmentsCount
<1> HIDE DEF segments, C, sum
<1>9. \A t \in units : t \in Int /\ CardsAt(records, t) = C[t]
  BY <1>1, <1>7, <1>8
<1>10. \A t \in Int :
          Total([i \in {j \in DOMAIN segments : segments[j].start <= t /\ t < segments[j].end}
                   |-> segments[i].count])
            = Cardinality(C[t])
  BY <1>1, <1>8, UnitCounts
<1>11. \A t \in units :
          Total([i \in {j \in DOMAIN segments : /\ segments[j].start <= t
                                                /\ t < segments[j].end}
                   |-> segments[i].count])
            = Cardinality(CardsAt(records, t))
  BY <1>9, <1>10
<1>12. \A i \in 1 .. Len(segments) - 1 : segments[i].end <= segments[i + 1].start
  <2> SUFFICES ASSUME NEW i \in 1 .. Len(segments) - 1
               PROVE  segments[i].end <= segments[i + 1].start
    OBVIOUS
  <2>1. Len(segments) \in Nat
        /\ \A j, k \in 1..Len(segments) : j < k => segments[j].end <= segments[k].start
    BY <1>8 DEF Tells
  <2>2. i \in 1..Len(segments) /\ i + 1 \in 1..Len(segments) /\ i < i + 1
    BY <2>1
  <2> QED BY <2>1, <2>2
<1>13. sum.gpu = Total([t \in units |-> Cardinality(CardsAt(records, t))])
  <2>1. sum.gpu = Cardinality(Worked(records, start, clock))
    BY <1>1, <1>6, SummaryCounts DEF sum
  <2>2. Total([t \in units |-> Cardinality(CardsIn(records, start, clock, t))])
          = Cardinality(Worked(records, start, clock))
    BY <1>1, <1>6, WorkedCounts
  <2>3. [t \in units |-> Cardinality(CardsAt(records, t))]
          = [t \in units |-> Cardinality(CardsIn(records, start, clock, t))]
    BY <1>7
  <2> QED BY <2>1, <2>2, <2>3
<1>14. sum.active = Cardinality(busy)
  <2>1. busy = BusyIn(records, start, clock)
    BY <1>7 DEF BusyIn
  <2>2. sum.active = Cardinality(BusyIn(records, start, clock))
    BY <1>1, <1>6, SummaryCounts DEF sum
  <2> QED BY <2>1, <2>2
<1>15. Total(ModelStatistics(records, start, clock)) = sum.gpu
  BY <1>1, <1>5, <1>6, ModelShares DEF sum
<1>16. \A t \in busy : t \div DayLength \in sum.days
  <2> SUFFICES ASSUME NEW t \in busy PROVE t \div DayLength \in sum.days
    OBVIOUS
  <2>1. t \in start .. clock - 1 /\ CardsIn(records, start, clock, t) # {}
    BY <1>7
  <2> QED BY <1>1, <1>5, <2>1, BusyDays DEF sum
<1> HIDE DEF busy, units
<1> QED BY <1>2, <1>4, <1>8, <1>11, <1>12, <1>13, <1>14, <1>15, <1>16
        DEF busy, units, segments, records, all, statistics, start

\* ActivityIsExact holds of every behaviour: whatever sessions, dies and
\* bindings there are, a page counts each physical card once in every unit.
THEOREM ActivityIsExactAlways == Spec => []ActivityIsExact
<1>1. TablesInv /\ FiniteInv => ActivityIsExact
  BY ActivityOfOwner DEF ActivityIsExact
<1> QED BY <1>1, FiniteInvariant, PTL

-----------------------------------------------------------------------------
(* The days of the page *)

LEMMA PageStartsADay ==
    ASSUME NEW now \in Int
    PROVE  /\ now \div DayLength - (Period - 1) \in Int
           /\ PageStart(now) = (now \div DayLength - (Period - 1)) * DayLength
           /\ PageStart(now) \in Int
           /\ PageStart(now) \div DayLength = now \div DayLength - (Period - 1)
<1> DEFINE k == now \div DayLength - (Period - 1)
<1>1. Period \in Nat
  BY AccountingAssumption
<1>2. k \in Int
  BY <1>1, DayOf
<1>3. PageStart(now) = k * DayLength
  BY DEF PageStart
<1> HIDE DEF k
<1>4. k * DayLength \in Int /\ (k * DayLength) \div DayLength = k
  BY <1>2, DayBegins
<1> QED BY <1>2, <1>3, <1>4 DEF k

\* The days lie in the period, one after the other, and leave no unit out.
LEMMA DaysAre ==
    ASSUME NEW now \in Int
    PROVE  LET first == PageStart(now)
           IN  /\ IsFiniteSet(Days(now))
               /\ \A day \in Days(now) :
                     /\ day.start \in Int /\ day.end \in Int
                     /\ day.start \div DayLength \in Int
                     /\ day.start = (day.start \div DayLength) * DayLength
                     /\ day.end = AtMost(now, (day.start \div DayLength + 1) * DayLength)
                     /\ first <= day.start /\ day.end <= now
               /\ \A c, d \in Days(now) : c # d => c.end <= d.start \/ d.end <= c.start
               /\ \A d \in Int : first < (d + 1) * DayLength /\ d * DayLength <= now =>
                     \E day \in Days(now) : day.start \div DayLength = d
<1> DEFINE first == PageStart(now)
           k == now \div DayLength - (Period - 1)
           n == now \div DayLength
           x(d) == d * DayLength
           z(d) == (d + 1) * DayLength
           Day(d) == [start |-> x(d), end |-> AtMost(now, z(d))]
<1>1. first \in Int /\ k \in Int /\ n \in Int /\ first = x(k) /\ first \div DayLength = k
  BY PageStartsADay, DayOf
<1>2. Days(now) = {Day(d) : d \in k..n}
  BY <1>1 DEF Days
<1>3. \A d \in Int : /\ x(d) \in Int /\ z(d) \in Int /\ x(d) < z(d)
                     /\ x(d) \div DayLength = d
  BY DayBegins
<1>4. \A d \in Int : d <= n <=> x(d) <= now
  BY DayOf
<1>5. \A d, e \in Int : d <= e => x(d) <= x(e)
  <2> SUFFICES ASSUME NEW d \in Int, NEW e \in Int, d <= e PROVE x(d) <= x(e)
    OBVIOUS
  <2>1. x(e) \in Int /\ x(e) \div DayLength = e
    BY <1>3
  <2>2. d <= x(e) \div DayLength <=> x(d) <= x(e)
    BY <2>1, DayOf
  <2> HIDE DEF x
  <2> QED BY <2>1, <2>2
<1>6. \A d, e \in Int : d < e => z(d) <= x(e)
  <2> SUFFICES ASSUME NEW d \in Int, NEW e \in Int, d < e PROVE z(d) <= x(e)
    OBVIOUS
  <2>1. d + 1 \in Int /\ d + 1 <= e
    OBVIOUS
  <2>2. x(d + 1) <= x(e)
    BY <1>5, <2>1
  <2> QED BY <2>2
<1>7. \A d : Day(d).start = x(d) /\ Day(d).end = AtMost(now, z(d))
  OBVIOUS
<1>8. \A d \in k..n : d \in Int /\ k <= d /\ d <= n
  BY <1>1
<1>9. IsFiniteSet(Days(now))
  <2> DEFINE f == [d \in k..n |-> Day(d)]
  <2>1. Days(now) = {f[d] : d \in k..n}
    BY <1>2
  <2> HIDE DEF f, k, n
  <2>2. IsFiniteSet(k..n)
    BY <1>1, FS_Interval
  <2> DEFINE S == k..n
  <2> HIDE DEF S
  <2>3. IsFiniteSet({f[d] : d \in S})
    BY <2>2, ImageIsFinite DEF S
  <2> QED BY <2>1, <2>3 DEF S
<1> HIDE DEF Day, x, z, first, k, n
<1>10. ASSUME NEW day \in Days(now)
       PROVE  /\ day.start \in Int /\ day.end \in Int
              /\ day.start \div DayLength \in Int
              /\ day.start = x(day.start \div DayLength)
              /\ day.end = AtMost(now, z(day.start \div DayLength))
              /\ first <= day.start /\ day.end <= now
  <2>1. PICK d \in k..n : day = Day(d)
    BY <1>2
  <2>2. d \in Int /\ k <= d /\ d <= n
    BY <1>8
  <2>3. day.start = x(d) /\ day.end = AtMost(now, z(d)) /\ day.start \div DayLength = d
    BY <1>3, <1>7, <2>1, <2>2
  <2>4. x(d) \in Int /\ z(d) \in Int /\ x(k) <= x(d)
    BY <1>1, <1>3, <1>5, <2>2
  <2>5. AtMost(now, z(d)) \in Int /\ AtMost(now, z(d)) <= now
    BY <2>4 DEF AtMost
  <2> QED BY <1>1, <2>2, <2>3, <2>4, <2>5
<1>11. ASSUME NEW c \in Days(now), NEW e \in Days(now), c # e
       PROVE  c.end <= e.start \/ e.end <= c.start
  <2>1. PICK i \in k..n : c = Day(i)
    BY <1>2
  <2>2. PICK j \in k..n : e = Day(j)
    BY <1>2
  <2>3. i \in Int /\ j \in Int /\ (i < j \/ j < i)
    BY <1>8, <1>11, <2>1, <2>2
  <2>4. /\ x(i) \in Int /\ z(i) \in Int /\ x(j) \in Int /\ z(j) \in Int
        /\ (i < j => z(i) <= x(j)) /\ (j < i => z(j) <= x(i))
    BY <1>3, <1>6, <2>3
  <2>5. AtMost(now, z(i)) <= z(i) /\ AtMost(now, z(j)) <= z(j)
        /\ AtMost(now, z(i)) \in Int /\ AtMost(now, z(j)) \in Int
    BY <2>4 DEF AtMost
  <2>6. AtMost(now, z(i)) <= x(j) \/ AtMost(now, z(j)) <= x(i)
    BY <2>3, <2>4, <2>5
  <2> QED BY <1>7, <2>1, <2>2, <2>6
<1>12. ASSUME NEW d \in Int, first < z(d), x(d) <= now
       PROVE  \E day \in Days(now) : day.start \div DayLength = d
  <2>1. d <= n
    BY <1>4, <1>12
  <2>2. k <= d
    <3>1. d < k => z(d) <= x(k)
      BY <1>1, <1>6
    <3>2. z(d) \in Int /\ x(k) \in Int
      BY <1>1, <1>3
    <3> QED BY <1>1, <1>12, <3>1, <3>2
  <2>3. d \in k..n
    BY <1>1, <2>1, <2>2
  <2>4. Day(d) \in Days(now) /\ Day(d).start \div DayLength = d
    BY <1>2, <1>3, <1>7, <2>3
  <2> QED BY <2>4
<1> QED BY <1>9, <1>10, <1>11, <1>12 DEF first, x, z

\* Every unit of the period is in a day.
LEMMA UnitsHaveDays ==
    ASSUME NEW now \in Int, NEW t \in PageStart(now) .. now - 1
    PROVE  \E day \in Days(now) : day.start <= t /\ t < day.end
<1> DEFINE d == t \div DayLength
           x == d * DayLength
           z == (d + 1) * DayLength
<1>1. PageStart(now) \in Int /\ t \in Int /\ PageStart(now) <= t /\ t < now /\ d \in Int
  BY PageStartsADay, DayOf
<1>2. x <= t /\ t < z /\ x \in Int /\ z \in Int
  <2>1. d <= d <=> x <= t
    BY <1>1, DayOf
  <2>2. d + 1 <= d <=> z <= t
    <3>1. d + 1 \in Int
      BY <1>1
    <3> QED BY <1>1, <3>1, DayOf
  <2>3. x \in Int /\ z \in Int
    BY <1>1, DayBegins
  <2> HIDE DEF d, x, z
  <2> QED BY <1>1, <2>1, <2>2, <2>3
<1>3. PageStart(now) < z /\ x <= now
  <2> HIDE DEF x, z
  <2> QED BY <1>1, <1>2
<1> HIDE DEF d
<1>4. PICK day \in Days(now) : day.start \div DayLength = d
  BY <1>1, <1>3, DaysAre
<1>5. day.start = x /\ day.end = AtMost(now, z)
  BY <1>4, DaysAre
<1>6. t < AtMost(now, z)
  <2> HIDE DEF x, z
  <2> QED BY <1>1, <1>2 DEF AtMost
<1> QED BY <1>2, <1>5, <1>6

\* The days' work is the period's, each day's its own.
LEMMA DaysAddUp ==
    ASSUME NEW now \in Int, NEW records, Timed(records)
    PROVE  Total([day \in Days(now) |-> Summary(records, day.start, day.end).gpu])
             = Summary(records, PageStart(now), now).gpu
<1> DEFINE first == PageStart(now)
           D == Days(now)
           M == [day \in D |-> Worked(records, day.start, day.end)]
           W == Worked(records, first, now)
<1>1. /\ IsFiniteSet(D) /\ first \in Int
      /\ \A day \in D : day.start \in Int /\ day.end \in Int
                        /\ first <= day.start /\ day.end <= now
      /\ \A c, d \in D : c # d => c.end <= d.start \/ d.end <= c.start
  BY DaysAre, PageStartsADay
<1>2. \A t \in first .. now - 1 : \E day \in D : day.start <= t /\ t < day.end
  BY UnitsHaveDays
<1>3. ASSUME NEW s \in Int, NEW e \in Int, NEW p
      PROVE  p \in Worked(records, s, e) <=>
                \E t \in s .. e - 1 : \E r \in records :
                   r.start <= t /\ t < r.end /\ p = <<t, r.card>>
  <2>1. p \in Worked(records, s, e) <=>
           \E t \in s .. e - 1 : \E r \in records : In(t, Cut(r, s, e)) /\ p = <<t, r.card>>
    BY WorkedBy
  <2>2. \A t \in s .. e - 1 : \A r \in records : In(t, Cut(r, s, e)) <=> r.start <= t /\ t < r.end
    BY CutIn DEF Timed
  <2> QED BY <2>1, <2>2
<1>4. DOMAIN M = D /\ \A day \in D : M[day] = Worked(records, day.start, day.end)
  OBVIOUS
<1> HIDE DEF M, D, first, W
<1>5. \A day \in D : /\ IsFiniteSet(M[day])
                     /\ Summary(records, day.start, day.end).gpu = Cardinality(M[day])
  <2> SUFFICES ASSUME NEW day \in D
               PROVE  /\ IsFiniteSet(M[day])
                      /\ Summary(records, day.start, day.end).gpu = Cardinality(M[day])
    OBVIOUS
  <2> DEFINE s == day.start
             e == day.end
  <2>1. s \in Int /\ e \in Int /\ M[day] = Worked(records, s, e)
    BY <1>1, <1>4
  <2> HIDE DEF s, e
  <2>2. IsFiniteSet(Worked(records, s, e))
    BY <2>1, WorkedCounts
  <2>3. Summary(records, s, e).gpu = Cardinality(Worked(records, s, e))
    BY <2>1, SummaryCounts
  <2> QED BY <2>1, <2>2, <2>3 DEF s, e
<1>6. \A day \in D : \A p : p \in M[day] <=>
         \E t \in day.start .. day.end - 1 : \E r \in records :
            r.start <= t /\ t < r.end /\ p = <<t, r.card>>
  BY <1>1, <1>3, <1>4
<1>7. \A p : p \in W <=>
         \E t \in first .. now - 1 : \E r \in records :
            r.start <= t /\ t < r.end /\ p = <<t, r.card>>
  BY <1>1, <1>3 DEF W
<1>8. UNION {M[day] : day \in D} = W
  <2>1. ASSUME NEW day \in D, NEW p \in M[day] PROVE p \in W
    <3>1. PICK t \in day.start .. day.end - 1 : \E r \in records :
             r.start <= t /\ t < r.end /\ p = <<t, r.card>>
      BY <1>6
    <3>2. t \in first .. now - 1
      <4>1. day.start \in Int /\ day.end \in Int /\ first <= day.start /\ day.end <= now
        BY <1>1
      <4> QED BY <1>1, <4>1
    <3> QED BY <1>7, <3>1, <3>2
  <2>2. ASSUME NEW p \in W PROVE \E day \in D : p \in M[day]
    <3>1. PICK t \in first .. now - 1 : \E r \in records :
             r.start <= t /\ t < r.end /\ p = <<t, r.card>>
      BY <1>7
    <3>2. PICK day \in D : day.start <= t /\ t < day.end
      BY <1>2, <3>1
    <3>3. t \in day.start .. day.end - 1
      <4>1. day.start \in Int /\ day.end \in Int /\ t \in Int
        BY <1>1
      <4> QED BY <3>2, <4>1
    <3> QED BY <1>6, <3>1, <3>3
  <2> QED BY <2>1, <2>2
<1>9. \A c, d \in D : c # d => M[c] \cap M[d] = {}
  <2> SUFFICES ASSUME NEW c \in D, NEW d \in D, c # d, NEW p \in M[c], p \in M[d]
               PROVE  FALSE
    OBVIOUS
  <2>1. PICK t \in c.start .. c.end - 1 : \E r \in records :
           r.start <= t /\ t < r.end /\ p = <<t, r.card>>
    BY <1>6
  <2>2. PICK u \in d.start .. d.end - 1 : \E r \in records :
           r.start <= u /\ u < r.end /\ p = <<u, r.card>>
    BY <1>6
  <2>3. t = u
    BY <2>1, <2>2
  <2>4. /\ c.start \in Int /\ c.end \in Int /\ d.start \in Int /\ d.end \in Int
        /\ (c.end <= d.start \/ d.end <= c.start)
    BY <1>1
  <2> QED BY <2>3, <2>4
<1>10. [day \in D |-> Summary(records, day.start, day.end).gpu] = [day \in D |-> Cardinality(M[day])]
  BY <1>5
<1>11. \A x \in D : IsFiniteSet(M[x])
  BY <1>5
<1>12. /\ IsFiniteSet(UNION {M[x] : x \in D})
       /\ Total([x \in D |-> Cardinality(M[x])]) = Cardinality(UNION {M[x] : x \in D})
  <2>1. IsFiniteSet(D)
    BY <1>1
  <2>2. Family(M, D)
    BY <1>4, <1>9, <1>11, <2>1 DEF Family
  <2>3. AddsUp(M, D)
    BY <2>2, Counted
  <2> QED BY <2>3 DEF AddsUp
<1>13. Summary(records, first, now).gpu = Cardinality(W)
  BY <1>1, SummaryCounts DEF W
<1> QED BY <1>8, <1>10, <1>12, <1>13 DEF D, first

\* A day counts as used when it has jobs: an instant of a record.
LEMMA UsedDays ==
    ASSUME NEW now \in Int, NEW records, Inside(records, PageStart(now), now)
    PROVE  Summary(records, PageStart(now), now).days
             = {day.start \div DayLength :
                  day \in {d \in Days(now) : DayPage(records, d).jobs # {}}}
<1> DEFINE first == PageStart(now)
           D == Days(now)
           x(d) == d * DayLength
           z(d) == (d + 1) * DayLength
           of(r) == ObservedDays(r, first, now)
<1>1. /\ first \in Int
      /\ \A day \in D : /\ day.start \in Int /\ day.end \in Int
                        /\ day.start \div DayLength \in Int
                        /\ day.start = x(day.start \div DayLength)
                        /\ day.end = AtMost(now, z(day.start \div DayLength))
      /\ \A d \in Int : first < z(d) /\ x(d) <= now => \E day \in D : day.start \div DayLength = d
  BY DaysAre, PageStartsADay
<1>2. \A d \in Int : x(d) \in Int /\ z(d) \in Int /\ x(d) < z(d)
  BY DayBegins
<1>3. \A r \in records : /\ r.start \in Int /\ r.end \in Int
                         /\ first <= r.start /\ r.start <= r.end /\ r.end <= now
  BY DEF Inside, Timed
<1>4. \A r \in records : /\ of(r) \subseteq Int
                         /\ \A d \in Int : d \in of(r) <=> r.start < now /\ Meets(r, x(d), z(d))
  BY <1>1, <1>3, DaysOfRecord
<1>5. Summary(records, first, now).days = UNION {of(r) : r \in records}
  BY DEF Summary
<1>6. \A day : DayPage(records, day).jobs # {} <=> \E r \in records : InDay(r, day)
  <2> SUFFICES ASSUME NEW day
               PROVE  DayPage(records, day).jobs # {} <=> \E r \in records : InDay(r, day)
    OBVIOUS
  <2>1. DayPage(records, day).jobs = {r.key : r \in {q \in records : InDay(q, day)}}
    BY DEF DayPage, ActivityJobs
  <2> QED BY <2>1
<1> HIDE DEF x, z, of, first, D
<1>7. ASSUME NEW r \in records, NEW day \in D
      PROVE  InDay(r, day) <=> (day.start \div DayLength) \in of(r)
  <2> DEFINE d == day.start \div DayLength
             a == r.start
             b == r.end
             s == day.start
             e == day.end
  <2>1. d \in Int /\ s \in Int /\ e \in Int /\ s = x(d) /\ e = AtMost(now, z(d))
    BY <1>1
  <2>2. a \in Int /\ b \in Int /\ a <= b /\ b <= now
    BY <1>3
  <2>3. d \in of(r) <=> a < now /\ Meets(r, x(d), z(d))
    BY <1>4, <2>1
  <2>4. InDay(r, day) <=> a < e /\ (b > s \/ (a = s /\ b = s))
    BY DEF InDay
  <2>5. Meets(r, x(d), z(d)) <=> a < z(d) /\ (x(d) < b \/ (a = x(d) /\ b = x(d)))
    BY DEF Meets
  <2>6. x(d) \in Int /\ z(d) \in Int
    BY <1>2, <2>1
  <2> HIDE DEF d, a, b, s, e
  <2>7. a < e <=> a < now /\ a < z(d)
    BY <2>1, <2>2, <2>6 DEF AtMost
  <2>8. InDay(r, day) <=> d \in of(r)
    BY <2>1, <2>2, <2>3, <2>4, <2>5, <2>6, <2>7
  <2> QED BY <2>8 DEF d
<1>8. ASSUME NEW r \in records, NEW d \in of(r)
      PROVE  \E day \in D : day.start \div DayLength = d /\ InDay(r, day)
  <2>1. d \in Int /\ Meets(r, x(d), z(d))
    BY <1>4
  <2>2. /\ r.start \in Int /\ r.end \in Int
        /\ first <= r.start /\ r.start <= r.end /\ r.end <= now
    BY <1>3
  <2>3. first < z(d) /\ x(d) <= now
    BY <1>1, <1>2, <2>1, <2>2 DEF Meets
  <2>4. PICK day \in D : day.start \div DayLength = d
    BY <1>1, <2>1, <2>3
  <2> QED BY <1>7, <2>4
<1>9. \A d : d \in UNION {of(r) : r \in records}
               <=> \E day \in D : day.start \div DayLength = d /\ \E r \in records : InDay(r, day)
  <2> SUFFICES ASSUME NEW d
               PROVE  (\E r \in records : d \in of(r))
                        <=> \E day \in D : /\ day.start \div DayLength = d
                                           /\ \E r \in records : InDay(r, day)
    OBVIOUS
  <2> QED BY <1>7, <1>8
<1>10. \A d : d \in {day.start \div DayLength : day \in {c \in D : DayPage(records, c).jobs # {}}}
                <=> \E day \in D : day.start \div DayLength = d /\ \E r \in records : InDay(r, day)
  BY <1>6
<1> QED BY <1>5, <1>9, <1>10 DEF D, first

-----------------------------------------------------------------------------
(* The busiest hours *)

\* A total that is not zero has an element that counts.
LEMMA TotalPositive ==
    ASSUME NEW f, Total(f) # 0
    PROVE  \E x \in DOMAIN f : 1..f[x] # {}
<1> SUFFICES ASSUME \A x \in DOMAIN f : 1..f[x] = {} PROVE FALSE
  OBVIOUS
<1>1. UNION {{x} \X (1..f[x]) : x \in DOMAIN f} = {}
  OBVIOUS
<1> QED BY <1>1, FS_EmptySet DEF Total

\* And an element that counts makes it so.
LEMMA TotalAtLeast ==
    ASSUME NEW D, IsFiniteSet(D), NEW f, DOMAIN f = D, \A x \in D : f[x] \in Nat,
           NEW y \in D, f[y] > 0
    PROVE  Total(f) > 0
<1> DEFINE M == [x \in D |-> {x} \X (1..f[x])]
           X == {M[x] : x \in D}
<1>1. \A x \in D : IsFiniteSet(M[x])
  <2> SUFFICES ASSUME NEW x \in D PROVE IsFiniteSet({x} \X (1..f[x]))
    OBVIOUS
  <2>1. f[x] \in Int /\ 1 \in Int
    OBVIOUS
  <2>2. IsFiniteSet(1..f[x]) /\ IsFiniteSet({x})
    BY <2>1, FS_Interval, FS_Singleton
  <2> QED BY <2>2, FS_Product
<1>2. UNION {{x} \X (1..f[x]) : x \in DOMAIN f} = UNION X
  OBVIOUS
<1>3. <<y, 1>> \in UNION X
  <2>1. 1 \in 1..f[y]
    OBVIOUS
  <2> QED BY <2>1
<1> HIDE DEF M
<1>4. IsFiniteSet(X) /\ \A S \in X : IsFiniteSet(S)
  BY <1>1, ImageIsFinite
<1> HIDE DEF X
<1>5. IsFiniteSet(UNION X)
  BY <1>4, FS_UNION
<1>6. Cardinality(UNION X) \in Nat /\ Cardinality(UNION X) # 0
  BY <1>3, <1>5, FS_CardinalityType, FS_EmptySet
<1>7. Total(f) = Cardinality(UNION X)
  BY <1>2 DEF Total
<1> QED BY <1>6, <1>7

\* Two stretches of time with a unit in common.
LEMMA CommonUnit ==
    ASSUME NEW a \in Int, NEW b \in Int, NEW c \in Int, NEW d \in Int
    PROVE  /\ Common(a, b, c, d) \in Nat
           /\ Common(a, b, c, d) > 0 =>
                 \E t \in Int : a <= t /\ t < b /\ c <= t /\ t < d
           /\ \A t \in Int : a <= t /\ t < b /\ c <= t /\ t < d => Common(a, b, c, d) > 0
<1> DEFINE x == AtLeast(a, c)
           y == AtMost(b, d)
<1>1. /\ x \in Int /\ y \in Int /\ a <= x /\ c <= x /\ (x = a \/ x = c)
      /\ y <= b /\ y <= d /\ (y = b \/ y = d)
  BY DEF AtLeast, AtMost
<1>2. Common(a, b, c, d) = IF 0 < y - x THEN y - x ELSE 0
  BY DEF Common, AtLeast
<1> HIDE DEF x, y
<1>3. Common(a, b, c, d) \in Nat /\ (Common(a, b, c, d) > 0 <=> x < y)
  BY <1>1, <1>2
<1>4. x < y => a <= x /\ x < b /\ c <= x /\ x < d
  BY <1>1
<1>5. \A t \in Int : a <= t /\ t < b /\ c <= t /\ t < d => x < y
  BY <1>1
<1> QED BY <1>1, <1>3, <1>4, <1>5

\* A unit of a record of the user's is one at which the user had an account.
LEMMA HeldWhenUsed ==
    ASSUME TablesInv, NEW bindings \in Histories, NEW user,
           NEW row \in DOMAIN usages,
           NEW r \in ResolveRow(tables, row, bindings, PageStart(clock), clock),
           r.owner = <<"user", user>>,
           NEW t \in Int, r.start <= t, t < r.end
    PROVE  \E b \in Matches(bindings, sessions[row[1]], PageStart(clock)) :
              Binding(b) /\ b.user = user /\ Holds(b, t)
<1> DEFINE start == PageStart(clock)
           s == sessions[row[1]]
           usage == ResolveRow(tables, row, bindings, start, clock)
           left == AtLeast(start, usages[row].first)
           right == AtMost(clock, usages[row].last)
<1>1. start \in Int /\ clock \in Int
  <2>1. clock \in Nat
    BY DEF TablesInv, QueueInv
  <2> QED BY <2>1, PageIsFound
<1>2. left \in Int /\ right \in Int /\ start <= left
  <2>1. usages[row].first \in Int /\ usages[row].last \in Int
    <3>1. usages[row].first \in Nat /\ usages[row].last \in Nat
      BY UsageWithinSession
    <3> QED BY <3>1
  <2> HIDE DEF start
  <2> QED BY <1>1, <2>1 DEF AtLeast, AtMost
<1> HIDE DEF start
<1>3. /\ \A u \in left .. right - 1 :
            \E p \in usage : /\ p.start <= u /\ u < p.end
                             /\ p.owner = OwnerAt(bindings, s, u, start)
                             /\ \A q \in usage : q.start <= u /\ u < q.end => q = p
      /\ \A q \in usage : left <= q.start /\ q.end <= right
  BY <1>1, OneOwnerOfRow
<1>4. \A q \in usage : q.start \in Int /\ q.end \in Int
  BY <1>1, RowRecords
<1>5. r \in usage
  BY DEF start
<1> HIDE DEF left, right, usage, s
<1>6. t \in left .. right - 1 /\ start <= t
  <2>1. left <= r.start /\ r.end <= right /\ r.start \in Int /\ r.end \in Int
    BY <1>3, <1>4, <1>5
  <2> QED BY <1>1, <1>2, <2>1
<1>7. OwnerAt(bindings, s, t, start) = <<"user", user>>
  <2>1. PICK p \in usage : /\ p.owner = OwnerAt(bindings, s, t, start)
                           /\ \A q \in usage : q.start <= t /\ t < q.end => q = p
    BY <1>3, <1>6
  <2>2. r = p
    BY <1>5, <2>1
  <2> QED BY <2>1, <2>2
<1>8. \E b \in Matches(bindings, s, start) : Binding(b) /\ b.user = user /\ Holds(b, t)
  BY <1>1, <1>6, <1>7, HolderOf
<1> QED BY <1>8 DEF s, start

\* All bindings that count for a page, and those of names taken back.
Claims(bindings, start) ==
    bindings \cup UNION {LegacyBindings(bindings, account, start) :
                           account \in {b.account : b \in bindings}}

LEMMA ClaimsAre ==
    ASSUME NEW bindings \in Histories, NEW start \in Int
    PROVE  /\ IsFiniteSet(Claims(bindings, start))
           /\ \A b \in Claims(bindings, start) : Binding(b)
           /\ \A s : Matches(bindings, s, start) \subseteq Claims(bindings, start)
<1> DEFINE names == {b.account : b \in bindings}
           L(account) == LegacyBindings(bindings, account, start)
<1>1. IsFiniteSet(bindings) /\ \A b \in bindings : Binding(b)
  BY SessionsAssumption DEF SessionsAssumption, Binding
<1>2. Claims(bindings, start) = bindings \cup UNION {L(account) : account \in names}
  BY DEF Claims
<1>3. \A account : \A b \in L(account) : Binding(b)
  <2> SUFFICES ASSUME NEW account, NEW b \in L(account) PROVE Binding(b)
    OBVIOUS
  <2> DEFINE s == [uid |-> None, user |-> account]
  <2>1. s.uid = None /\ s.user = account
    OBVIOUS
  <2> HIDE DEF s
  <2>2. Matches(bindings, s, start) = L(account)
    BY <2>1 DEF Matches
  <2> QED BY <2>2, MatchesType
<1>4. \A account : IsFiniteSet(L(account))
  <2> SUFFICES ASSUME NEW account PROVE IsFiniteSet(L(account))
    OBVIOUS
  <2> DEFINE history == {b \in bindings : b.account = account}
             first == Min({b.from : b \in history})
             f == [b \in history |-> IF b.from = first THEN [b EXCEPT !.from = AtMost(start, @)]
                                     ELSE b]
  <2>1. L(account) = {f[b] : b \in history}
    BY DEF LegacyBindings
  <2>2. IsFiniteSet(history)
    BY <1>1, FS_Subset
  <2> HIDE DEF f, history
  <2>3. IsFiniteSet({f[b] : b \in history})
    BY <2>2, ImageIsFinite
  <2> QED BY <2>1, <2>3
<1>5. IsFiniteSet(UNION {L(account) : account \in names})
  <2> DEFINE f == [b \in bindings |-> b.account]
             g == [account \in names |-> L(account)]
             X == {g[account] : account \in names}
  <2>1. names = {f[b] : b \in bindings}
    OBVIOUS
  <2> HIDE DEF f
  <2>2. IsFiniteSet(names)
    BY <1>1, <2>1, ImageIsFinite
  <2>3. {L(account) : account \in names} = X
    OBVIOUS
  <2>4. \A S \in X : IsFiniteSet(S)
    BY <1>4
  <2> HIDE DEF g, names
  <2>5. IsFiniteSet(X)
    BY <2>2, ImageIsFinite
  <2> HIDE DEF X
  <2>6. IsFiniteSet(UNION X)
    BY <2>4, <2>5, FS_UNION
  <2> QED BY <2>3, <2>6 DEF names
<1>6. ASSUME NEW s, NEW b \in Matches(bindings, s, start)
      PROVE  b \in bindings \/ \E account \in names : b \in L(account)
  <2>1. CASE s.uid # None
    BY <2>1 DEF Matches
  <2>2. CASE s.uid = None
    <3>1. b \in L(s.user)
      BY <2>2 DEF Matches
    <3>2. s.user \in names
      BY <2>2, MatchedUser
    <3> QED BY <3>1, <3>2
  <2> QED BY <2>1, <2>2
<1> HIDE DEF L, names
<1>7. IsFiniteSet(Claims(bindings, start))
  BY <1>1, <1>2, <1>5, FS_Union
<1>8. \A b \in Claims(bindings, start) : Binding(b)
  BY <1>1, <1>2, <1>3
<1>9. \A s : Matches(bindings, s, start) \subseteq Claims(bindings, start)
  BY <1>2, <1>6
<1> QED BY <1>7, <1>8, <1>9

\* Who holds an account within the period is eligible then.
LEMMA EligibleWhenHeld ==
    ASSUME NEW bindings \in Histories, NEW user, NEW now \in Int,
           NEW b \in Claims(bindings, PageStart(now)), b.user = user,
           NEW t \in PageStart(now) .. now - 1, Holds(b, t)
    PROVE  LET m == Eligible(bindings, user, now)
           IN  /\ Apart(m) /\ Len(m) \in Nat
               /\ \E i \in 1..Len(m) : In(t, m[i])
<1> DEFINE start == PageStart(now)
           claims == Claims(bindings, start)
           span(c) == <<AtLeast(start, c.from), AtMost(now, Else(c.to, now))>>
           mine == {c \in claims : c.user = user}
           X == {span(c) : c \in mine}
           m == Eligible(bindings, user, now)
<1>1. start \in Int
  BY PageStartsADay
<1>2. m = Merged(X)
  BY DEF Eligible, Held, Claims
<1> HIDE DEF start
<1>3. IsFiniteSet(claims) /\ \A c \in claims : Binding(c)
  BY <1>1, ClaimsAre
<1>4. \A c \in claims : c.from \in Int /\ (c.to = None \/ c.to \in Int)
  BY <1>3 DEF Binding
<1>5. \A c \in claims : span(c) \in Int \X Int
  <2> SUFFICES ASSUME NEW c \in claims
               PROVE  AtLeast(start, c.from) \in Int /\ AtMost(now, Else(c.to, now)) \in Int
    OBVIOUS
  <2>1. c.from \in Int /\ Else(c.to, now) \in Int
    BY <1>4 DEF Else
  <2> QED BY <1>1, <2>1 DEF AtLeast, AtMost
<1>6. IsFiniteSet(X)
  <2> DEFINE f == [c \in mine |-> span(c)]
  <2>1. X = {f[c] : c \in mine}
    OBVIOUS
  <2>2. IsFiniteSet(mine)
    BY <1>3, FS_Subset
  <2> HIDE DEF f, mine
  <2>3. IsFiniteSet({f[c] : c \in mine})
    BY <2>2, ImageIsFinite
  <2> QED BY <2>1, <2>3
<1>7. X \in SUBSET (Int \X Int)
  BY <1>5
<1>8. b \in mine /\ t \in Int /\ start <= t /\ t < now
  BY <1>1 DEF start
<1>9. In(t, span(b))
  <2>1. b.from \in Int /\ (b.to = None \/ b.to \in Int) /\ b.from <= t /\ (b.to = None \/ t < b.to)
    BY <1>4, <1>8 DEF Holds
  <2>2. AtLeast(start, b.from) <= t
    BY <1>1, <1>8, <2>1 DEF AtLeast
  <2>3. t < AtMost(now, Else(b.to, now))
    <3>1. Else(b.to, now) \in Int /\ t < Else(b.to, now)
      BY <1>8, <2>1 DEF Else
    <3> QED BY <1>8, <3>1 DEF AtMost
  <2> QED BY <2>2, <2>3 DEF In
<1>10. \E x \in X : In(t, x)
  <2>1. span(b) \in X
    BY <1>8
  <2> HIDE DEF X, span
  <2> QED BY <1>9, <2>1
<1> HIDE DEF X, m
<1>11. /\ Apart(m) /\ Len(m) \in Nat
       /\ \A u \in Int : (\E i \in 1..Len(m) : In(u, m[i])) <=> \E x \in X : In(u, x)
  BY <1>2, <1>6, <1>7, MergedApart
<1> QED BY <1>8, <1>10, <1>11 DEF m

\* An hour with usage is one in which the user had an account.
LEMMA HoursAreHeld ==
    ASSUME TablesInv, FiniteInv, NEW bindings \in Histories, NEW user, NEW hour \in Int,
           HourUsage(ReadActivity(tables, bindings, user, clock), clock, hour) > 0
    PROVE  HourExposure(Eligible(bindings, user, clock), clock, hour) > 0
<1> DEFINE start == PageStart(clock)
           records == ReadActivity(tables, bindings, user, clock)
           spans == Segments(records, start, clock)
           D == Days(clock)
           from(day) == day.start + hour * HourLength
           to(day) == AtMost(day.end, from(day) + HourLength)
           all == ResolveUsage(tables, DOMAIN usages, bindings, start, clock)
           m == Eligible(bindings, user, clock)
           C == CardsOf(records, start, clock)
           f == [x \in D \X DOMAIN spans |->
                   Common(from(x[1]), to(x[1]), spans[x[2]].start, spans[x[2]].end)
                     * spans[x[2]].count]
           g == [x \in D \X DOMAIN m |->
                   Common(from(x[1]), to(x[1]), m[x[2]][1], m[x[2]][2])]
<1>1. start \in Int /\ clock \in Int
  <2>1. clock \in Nat
    BY DEF TablesInv, QueueInv
  <2> QED BY <2>1, PageIsFound
<1>2. HourUsage(records, clock, hour) = Total(f)
  BY DEF HourUsage
<1>3. HourExposure(m, clock, hour) = Total(g)
  BY DEF HourExposure
<1>4. records = {r \in all : r.owner = <<"user", user>>}
  BY OwnRecords
<1> HIDE DEF start, records
<1>5. Inside(all, start, clock)
      /\ \A r \in all : r.row \in DOMAIN usages
                        /\ r \in ResolveRow(tables, r.row, bindings, start, clock)
  BY <1>1, AllRecords
<1>6. Timed(records)
  <2>1. records \in SUBSET all
    BY <1>4
  <2> HIDE DEF all
  <2>2. Inside(records, start, clock)
    BY <1>5, <2>1, PartInside
  <2> QED BY <2>2 DEF Inside
<1> HIDE DEF all
<1>7. /\ Tells(spans, C, start, clock)
      /\ \A t \in Int : C[t] = CardsIn(records, start, clock, t)
  BY <1>1, <1>6, SegmentsCount
<1> HIDE DEF spans, C
<1>8. ASSUME NEW day \in D PROVE from(day) \in Int /\ to(day) \in Int
  <2>1. day.start \in Int /\ day.end \in Int
    BY <1>1, DaysAre
  <2>2. HourLength \in Nat
    BY AccountingAssumption
  <2>3. hour * HourLength \in Int
    BY <2>2
  <2>4. from(day) \in Int
    BY <2>1, <2>3
  <2> HIDE DEF from
  <2>5. from(day) + HourLength \in Int
    BY <2>2, <2>4
  <2> QED BY <2>1, <2>4, <2>5 DEF AtMost
<1>9. IsFiniteSet(D)
  BY <1>1, DaysAre
<1> HIDE DEF D, from, to
<1>10. PICK x \in DOMAIN f : 1..f[x] # {}
  <2>1. Total(f) # 0
    BY <1>2 DEF records
  <2> HIDE DEF f
  <2> QED BY <2>1, TotalPositive
<1> DEFINE day == x[1]
           i == x[2]
           a == from(day)
           b == to(day)
           c == spans[i].start
           d == spans[i].end
           n == spans[i].count
<1>11. /\ day \in D /\ i \in DOMAIN spans
       /\ f[x] = Common(a, b, c, d) * n
  BY <1>10
<1>12. /\ a \in Int /\ b \in Int /\ c \in Int /\ d \in Int /\ n \in Nat \ {0}
       /\ start <= c /\ d <= clock
       /\ \A t \in Int : c <= t /\ t < d => Cardinality(C[t]) = n
  <2>1. i \in 1..Len(spans)
    BY <1>7, <1>11 DEF Tells
  <2>2. /\ c \in Int /\ d \in Int /\ n \in Nat \ {0} /\ start <= c /\ d <= clock
    BY <1>7, <2>1 DEF Tells
  <2>3. \A t \in Int : c <= t /\ t < d => Cardinality(C[t]) = n
    BY <1>7, <2>1 DEF Tells
  <2> QED BY <1>8, <1>11, <2>2, <2>3
<1>13. Common(a, b, c, d) > 0
  <2> DEFINE y == Common(a, b, c, d)
  <2>1. y \in Nat
    BY <1>12, CommonUnit
  <2>2. 1 .. y * n # {}
    BY <1>10, <1>11
  <2> HIDE DEF y, n
  <2>3. y # 0
    <3> SUFFICES ASSUME y = 0 PROVE FALSE
      OBVIOUS
    <3>1. y * n = 0
      BY <1>12
    <3> QED BY <2>2, <3>1
  <2>4. y > 0
    BY <2>1, <2>3
  <2> QED BY <2>4 DEF y
<1> HIDE DEF f, a, b, c, d, n, day, i
<1>14. PICK t \in Int : a <= t /\ t < b /\ c <= t /\ t < d
  BY <1>12, <1>13, CommonUnit
<1>15. t \in start .. clock - 1
  BY <1>1, <1>12, <1>14
<1>16. CardsIn(records, start, clock, t) # {}
  <2>1. Cardinality(C[t]) = n /\ n # 0
    BY <1>12, <1>14
  <2>2. C[t] # {}
    BY <2>1, FS_EmptySet
  <2> QED BY <1>7, <2>2
<1>17. PICK r \in records : In(t, Cut(r, start, clock))
  BY <1>16 DEF CardsIn
<1>18. r.start <= t /\ t < r.end
  BY <1>1, <1>6, <1>15, <1>17, CutIn DEF Timed
<1>19. /\ r \in all /\ r.owner = <<"user", user>>
       /\ r.row \in DOMAIN usages
       /\ r \in ResolveRow(tables, r.row, bindings, start, clock)
  BY <1>4, <1>5
<1>20. PICK claim \in Matches(bindings, sessions[r.row[1]], start) :
          claim.user = user /\ Holds(claim, t)
  BY <1>18, <1>19, HeldWhenUsed DEF start
<1>21. claim \in Claims(bindings, start)
  BY <1>1, <1>20, ClaimsAre
<1>22. /\ Apart(m) /\ Len(m) \in Nat
       /\ \E j \in 1..Len(m) : In(t, m[j])
  BY <1>1, <1>15, <1>20, <1>21, EligibleWhenHeld DEF start
<1> HIDE DEF m
<1>23. DOMAIN m = 1..Len(m) /\ \A j \in 1..Len(m) : m[j][1] \in Int /\ m[j][2] \in Int
  <2>1. m \in Seq(Int \X Int)
    BY <1>22 DEF Apart
  <2>2. DOMAIN m = 1..Len(m) /\ \A j \in 1..Len(m) : m[j] \in Int \X Int
    BY <2>1, LenProperties, ElementOfSeq
  <2> QED BY <2>2
<1>24. PICK j \in 1..Len(m) : m[j][1] <= t /\ t < m[j][2]
  BY <1>22 DEF In
<1>25. Common(a, b, m[j][1], m[j][2]) > 0
  <2>1. m[j][1] \in Int /\ m[j][2] \in Int
    BY <1>23
  <2> DEFINE p == m[j][1]  q == m[j][2]
  <2>2. p \in Int /\ q \in Int /\ p <= t /\ t < q
    BY <1>24, <2>1
  <2> HIDE DEF p, q
  <2>3. Common(a, b, p, q) > 0
    BY <1>12, <1>14, <2>2, CommonUnit
  <2> QED BY <2>3 DEF p, q
<1>26. IsFiniteSet(D \X DOMAIN m)
  <2>1. IsFiniteSet(1..Len(m))
    <3>1. 1 \in Int /\ Len(m) \in Int
      BY <1>22
    <3> QED BY <3>1, FS_Interval
  <2>2. IsFiniteSet(DOMAIN m)
    BY <1>23, <2>1
  <2> DEFINE Y == DOMAIN m
  <2> HIDE DEF Y
  <2>3. IsFiniteSet(Y)
    BY <2>2 DEF Y
  <2>4. IsFiniteSet(D \X Y)
    BY <1>9, <2>3, FS_Product
  <2> QED BY <2>4 DEF Y
<1>27. \A y \in D \X DOMAIN m : g[y] \in Nat
  <2> SUFFICES ASSUME NEW y \in D \X DOMAIN m PROVE g[y] \in Nat
    OBVIOUS
  <2>1. y[1] \in D /\ y[2] \in 1..Len(m)
    BY <1>23
  <2> DEFINE p == from(y[1])  q == to(y[1])  u == m[y[2]][1]  v == m[y[2]][2]
  <2>2. p \in Int /\ q \in Int /\ u \in Int /\ v \in Int
    BY <1>8, <1>23, <2>1
  <2>3. g[y] = Common(p, q, u, v)
    OBVIOUS
  <2> HIDE DEF p, q, u, v, g
  <2>4. Common(p, q, u, v) \in Nat
    BY <2>2, CommonUnit
  <2> QED BY <2>3, <2>4
<1>28. <<day, j>> \in D \X DOMAIN m /\ g[<<day, j>>] > 0
  <2>1. <<day, j>> \in D \X DOMAIN m
    BY <1>11, <1>23, <1>24
  <2>2. g[<<day, j>>] = Common(from(day), to(day), m[j][1], m[j][2])
    BY <2>1
  <2> HIDE DEF g
  <2> QED BY <1>25, <2>1, <2>2 DEF a, b
<1>29. DOMAIN g = D \X DOMAIN m
  OBVIOUS
<1> HIDE DEF g
<1> DEFINE S == D \X DOMAIN m
           key == <<day, j>>
<1> HIDE DEF S, key
<1>30. IsFiniteSet(S) /\ DOMAIN g = S /\ (\A y \in S : g[y] \in Nat) /\ key \in S /\ g[key] > 0
  BY <1>26, <1>27, <1>28, <1>29 DEF S, key
<1>31. Total(g) > 0
  BY <1>30, TotalAtLeast
<1> QED BY <1>3, <1>31 DEF m

\* PagePartsAgree holds of every behaviour: the days of a page add up to its
\* period, a day is used when it has jobs, and usage is within eligibility.
THEOREM PagePartsAgreeAlways == Spec => []PagePartsAgree
<1>1. ASSUME TablesInv, FiniteInv, NEW bindings \in Histories, NEW user
      PROVE  LET now == clock
                 records == ReadActivity(tables, bindings, user, now)
                 eligible == Eligible(bindings, user, now)
                 whole == Summary(records, PageStart(now), now)
                 page == [day \in Days(now) |-> DayPage(records, day)]
             IN /\ Total([day \in Days(now) |-> page[day].summary.gpu]) = whole.gpu
                /\ whole.days = {day.start \div DayLength :
                                   day \in {d \in Days(now) : page[d].jobs # {}}}
                /\ \A hour \in 0 .. DayLength \div HourLength - 1 :
                      HourUsage(records, now, hour) > 0 => HourExposure(eligible, now, hour) > 0
  <2> DEFINE start == PageStart(clock)
             D == Days(clock)
             records == ReadActivity(tables, bindings, user, clock)
             all == ResolveUsage(tables, DOMAIN usages, bindings, start, clock)
             whole == Summary(records, start, clock)
             page == [day \in D |-> DayPage(records, day)]
             eligible == Eligible(bindings, user, clock)
  <2>1. start \in Int /\ clock \in Int
    <3>1. clock \in Nat
      BY <1>1 DEF TablesInv, QueueInv
    <3> QED BY <3>1, PageIsFound
  <2>2. records = {r \in all : r.owner = <<"user", user>>}
    BY <1>1, OwnRecords
  <2>3. Inside(all, start, clock)
    <3> HIDE DEF start
    <3> QED BY <1>1, <2>1, AllRecords
  <2> HIDE DEF records
  <2>4. Inside(records, start, clock)
    <3>1. records \in SUBSET all
      BY <2>2
    <3> HIDE DEF all, start
    <3> QED BY <2>3, <3>1, PartInside
  <2> HIDE DEF all
  <2>5. Timed(records)
    BY <2>4 DEF Inside
  <2>6. \A day \in D : /\ page[day].summary.gpu = Summary(records, day.start, day.end).gpu
                       /\ page[day].jobs = DayPage(records, day).jobs
    BY DEF DayPage
  <2>7. Total([day \in D |-> Summary(records, day.start, day.end).gpu]) = whole.gpu
    BY <2>1, <2>5, DaysAddUp
  <2>8. [day \in D |-> page[day].summary.gpu]
          = [day \in D |-> Summary(records, day.start, day.end).gpu]
    BY <2>6
  <2>9. whole.days = {day.start \div DayLength :
                        day \in {d \in D : DayPage(records, d).jobs # {}}}
    BY <2>1, <2>4, UsedDays
  <2>10. {d \in D : DayPage(records, d).jobs # {}} = {d \in D : page[d].jobs # {}}
    BY <2>6
  <2>11. ASSUME NEW hour \in 0 .. DayLength \div HourLength - 1,
                HourUsage(records, clock, hour) > 0
         PROVE  HourExposure(eligible, clock, hour) > 0
    <3>1. hour \in Int
      OBVIOUS
    <3> QED BY <1>1, <2>11, <3>1, HoursAreHeld DEF records
  <2> HIDE DEF page, whole, eligible, D
  <2> QED BY <2>7, <2>8, <2>9, <2>10, <2>11 DEF page, whole, eligible, D, records, start
<1>2. TablesInv /\ FiniteInv => PagePartsAgree
  BY <1>1 DEF PagePartsAgree
<1> QED BY <1>2, FiniteInvariant, PTL
==============================================================================
