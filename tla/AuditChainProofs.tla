-------------------------- MODULE AuditChainProofs --------------------------
(***************************************************************************)
(* What AuditChain guarantees for every set of tenants, replicas and       *)
(* events: where an event can be, that none is lost without a count, the   *)
(* order in which events reach the chain, and that the chain verifies.     *)
(***************************************************************************)
EXTENDS AuditChain, SequenceTheorems, FiniteSetTheorems, TLAPS

-----------------------------------------------------------------------------
(* Sequences of events.                                                    *)

In(e, s) == \E i \in 1 .. Len(s) : s[i] = e
Distinct(s) == \A i, j \in 1 .. Len(s) : s[i] = s[j] => i = j
Ordered(s) == \A i, j \in 1 .. Len(s) : s[i] \in After[s[j]] => i < j

LEMMA NothingIn == \A e : ~In(e, <<>>)
  BY DEF In

LEMMA EmptyIsFine == Distinct(<<>>) /\ Ordered(<<>>)
  BY DEF Distinct, Ordered

LEMMA AppendFacts ==
    ASSUME NEW S, NEW s \in Seq(S), NEW e \in S
    PROVE  /\ Append(s, e) \in Seq(S) /\ Len(Append(s, e)) = Len(s) + 1
           /\ \A x : In(x, Append(s, e)) <=> In(x, s) \/ x = e
           /\ Distinct(s) /\ ~In(e, s) => Distinct(Append(s, e))
           /\ Ordered(s) /\ e \notin After[e] /\ (\A x : In(x, s) => e \notin After[x])
                 => Ordered(Append(s, e))
<1>1. /\ Append(s, e) \in Seq(S) /\ Len(Append(s, e)) = Len(s) + 1 /\ Len(s) \in Nat
      /\ Append(s, e)[Len(s) + 1] = e /\ \A i \in 1 .. Len(s) : Append(s, e)[i] = s[i]
  OBVIOUS
<1>2. \A x : In(x, Append(s, e)) <=> In(x, s) \/ x = e
  BY <1>1 DEF In
<1>3. Distinct(s) /\ ~In(e, s) => Distinct(Append(s, e))
  BY <1>1 DEF Distinct, In
<1>4. Ordered(s) /\ e \notin After[e] /\ (\A x : In(x, s) => e \notin After[x])
         => Ordered(Append(s, e))
  BY <1>1 DEF Ordered, In
<1> QED
  BY <1>1, <1>2, <1>3, <1>4

LEMMA TailFacts ==
    ASSUME NEW S, NEW s \in Seq(S), s # <<>>
    PROVE  /\ Tail(s) \in Seq(S) /\ Len(Tail(s)) = Len(s) - 1 /\ Head(s) \in S
           /\ Len(s) \in Nat /\ Len(s) > 0
           /\ \A x : In(x, s) <=> x = Head(s) \/ In(x, Tail(s))
           /\ Distinct(s) => Distinct(Tail(s)) /\ ~In(Head(s), Tail(s))
           /\ Ordered(s) => Ordered(Tail(s)) /\ \A x : In(x, Tail(s)) => x \notin After[Head(s)]
<1>1. /\ Tail(s) \in Seq(S) /\ Len(Tail(s)) = Len(s) - 1 /\ Head(s) \in S /\ Head(s) = s[1]
      /\ Len(s) \in Nat /\ Len(s) > 0 /\ \A i \in 1 .. Len(s) - 1 : Tail(s)[i] = s[i + 1]
  OBVIOUS
<1>2. ASSUME NEW x, In(x, s) PROVE x = Head(s) \/ In(x, Tail(s))
  <2>1. PICK i \in 1 .. Len(s) : s[i] = x
    BY <1>2 DEF In
  <2>2. CASE i = 1
    BY <1>1, <2>1, <2>2
  <2>3. CASE i # 1
    <3>1. i - 1 \in 1 .. Len(s) - 1 /\ Tail(s)[i - 1] = x
      BY <1>1, <2>1, <2>3
    <3> QED
      BY <1>1, <3>1 DEF In
  <2> QED
    BY <2>2, <2>3
<1>3. ASSUME NEW x, x = Head(s) \/ In(x, Tail(s)) PROVE In(x, s)
  BY <1>1, <1>3 DEF In
<1>4. Distinct(s) => Distinct(Tail(s)) /\ ~In(Head(s), Tail(s))
  BY <1>1 DEF Distinct, In
<1>5. Ordered(s) => Ordered(Tail(s)) /\ \A x : In(x, Tail(s)) => x \notin After[Head(s)]
  BY <1>1 DEF Ordered, In
<1> QED
  BY <1>1, <1>2, <1>3, <1>4, <1>5

LEMMA BehindFacts ==
    ASSUME NEW S, NEW s \in Seq(S), NEW e \in S, In(e, s)
    PROVE  /\ Behind(s, e) \in Seq(S)
           /\ \A x : In(x, Behind(s, e)) <=> In(x, s)
           /\ Distinct(s) => Distinct(Behind(s, e))
<1> DEFINE n == Len(s)
           i == CHOOSE k \in 1 .. n : s[k] = e
<1>1. n \in Nat /\ i \in 1 .. n /\ s[i] = e
  BY DEF In
<1> HIDE DEF i
<1>2. Behind(s, e) = [k \in 1 .. n |-> IF k < i THEN s[k] ELSE IF k < n THEN s[k + 1] ELSE e]
  BY DEF Behind, i
<1>3. Behind(s, e) \in [1 .. n -> S]
  BY <1>1, <1>2
<1>4. Behind(s, e) \in Seq(S) /\ Len(Behind(s, e)) = n
  BY <1>1, <1>3
<1>5. \A k \in 1 .. n : Behind(s, e)[k] = IF k < i THEN s[k] ELSE IF k < n THEN s[k + 1] ELSE s[i]
  BY <1>1, <1>2
<1>6. ASSUME NEW x, In(x, s) PROVE In(x, Behind(s, e))
  <2>1. PICK k \in 1 .. n : s[k] = x
    BY <1>6 DEF In
  <2>2. CASE k < i
    BY <1>1, <1>4, <1>5, <2>1, <2>2 DEF In
  <2>3. CASE k = i
    <3>1. n \in 1 .. n /\ ~(n < i) /\ ~(n < n) /\ Behind(s, e)[n] = x
      BY <1>1, <1>5, <2>1, <2>3
    <3> QED
      BY <1>4, <3>1 DEF In
  <2>4. CASE i < k
    <3>1. k - 1 \in 1 .. n /\ ~(k - 1 < i) /\ k - 1 < n /\ (k - 1) + 1 = k
      BY <1>1, <2>1, <2>4
    <3>2. Behind(s, e)[k - 1] = x
      BY <1>5, <2>1, <3>1
    <3> QED
      BY <1>4, <3>1, <3>2 DEF In
  <2> QED
    BY <1>1, <2>1, <2>2, <2>3, <2>4
<1>7. ASSUME NEW x, In(x, Behind(s, e)) PROVE In(x, s)
  BY <1>1, <1>4, <1>5, <1>7 DEF In
<1>8. Distinct(s) => Distinct(Behind(s, e))
  BY <1>1, <1>4, <1>5, SMTT(30) DEF Distinct
<1> QED
  BY <1>4, <1>6, <1>7, <1>8

-----------------------------------------------------------------------------
(* The inductive invariant.                                                *)

Hashes == Hash

Shape ==
    /\ emit \in [Events -> {"absent", "idle", "running", "waiting", "returned", "panicked"}]
    /\ queue \in [Replicas -> Seq(Events)]
    /\ \A r \in Replicas : Len(queue[r]) <= QueueSize
    /\ waiting \in [Replicas -> Seq(Events)]
    /\ cancelled \subseteq Events
    /\ phase \in [Replicas -> {"up", "draining", "closed", "cut", "stopped"}]
    /\ pc \in [Replicas -> {"receive", "begin", "lock", "read", "insert"}]
    /\ cur \in [Replicas -> Events \cup {NoEvent}]
    /\ \A r \in Replicas : pc[r] = "receive" <=> cur[r] = NoEvent
    /\ began \in [Replicas -> 0 .. MaxTime]
    /\ tip \in [Replicas -> Link]
    /\ lock \in [Tenants -> Replicas \cup {NoReplica}]
    /\ rows \in [Tenants -> SUBSET Row]
    /\ anchoring \in [tenant : Tenants \cup {NoTenant}, seq : Nat, hash : Hashes]
    /\ anchors \in [Tenants -> SUBSET Link]
    /\ counted \subseteq Events
    /\ lost \in [Events -> {"no", "crash", "forced", "late", "panic"}]
    /\ now \in 0 .. MaxTime /\ stops \in 0 .. MaxStops

(* An event is in one place: among the senders that wait, in the buffer of *)
(* its replica, in the hands of the appender, or in its tenant's chain.    *)
Belongs(e, r) == Home[e] = r /\ TenantOf[e] \in Tenants

Places ==
    /\ \A r \in Replicas :
          /\ Distinct(waiting[r])
          /\ \A e \in Events : In(e, waiting[r]) => Belongs(e, r) /\ emit[e] = "waiting"
          /\ Distinct(queue[r])
          /\ \A e \in Events : In(e, queue[r]) => Belongs(e, r) /\ emit[e] = "returned" /\ cur[r] # e
          /\ cur[r] \in Events => Belongs(cur[r], r) /\ emit[cur[r]] = "returned"
    /\ \A e \in Events : emit[e] = "waiting" => In(e, waiting[Home[e]])
    /\ \A t \in Tenants : \A x \in rows[t] :
          /\ TenantOf[x.ev] = t /\ emit[x.ev] = "returned"
          /\ \A r \in Replicas : cur[r] # x.ev /\ ~In(x.ev, queue[r])
          /\ \A y \in rows[t] : x.ev = y.ev => x = y

(* What happened to an event that is no longer its emitter's.              *)
Accounted ==
    \A e \in Events :
        /\ emit[e] = "returned" =>
              \/ In(e, queue[Home[e]]) \/ cur[Home[e]] = e
              \/ Stored(e) \/ e \in counted \/ lost[e] # "no"
        /\ emit[e] = "panicked" => lost[e] # "no"

(* A queue closed in an orderly way meets no request.                      *)
OrderlyClose ==
    /\ \A r \in Replicas : phase[r] = "closed" => Drained(r)
    /\ DrainKeepsRequests

(* An event whose operation has begun finds those it comes after returned, *)
(* and stays behind them on its way to the chain.                          *)
Behindhand ==
    /\ \A e \in Events :
          emit[e] \notin {"absent", "idle"} => e \notin After[e] /\ \A d \in After[e] : emit[d] = "returned"
    /\ \A r \in Replicas :
          /\ Ordered(queue[r])
          /\ cur[r] \in Events => \A d \in After[cur[r]] : ~In(d, queue[r])
    /\ \A t \in Tenants : \A x \in rows[t] : \A d \in After[x.ev] : \A r \in Replicas :
          cur[r] # d /\ ~In(d, queue[r])

(* The rows of a tenant are numbered from 1 without a gap, each hashes     *)
(* from the one before it, and speaks of all of them.                      *)
Chained(S) ==
    /\ IsFiniteSet(S)
    /\ \A x \in S : x.seq \in 1 .. Cardinality(S) /\ x.at \in 0 .. MaxTime
    /\ \A i \in 1 .. Cardinality(S) : \E x \in S : x.seq = i
    /\ \A x, y \in S : x.seq = y.seq => x = y
    /\ \A x \in S :
          /\ x.hash = ChainHash(x.prev, x.seq, x.ev, IdsSent(x.ev))
          /\ x.seq = 1 => x.prev = Nil
          /\ \A y \in S : y.seq + 1 = x.seq => x.prev = y.hash
          /\ Len(x.hash) = x.seq
          /\ \A y \in S : y.seq <= x.seq => x.hash[y.seq] = <<y.seq, y.ev, IdsSent(y.ev)>>

Linked == \A t \in Tenants : Chained(rows[t])

(* The holder of a chain's lock has its tip.                               *)
Locked ==
    \A r \in Replicas :
        /\ pc[r] \in {"read", "insert"} => lock[TenantOf[cur[r]]] = r
        /\ pc[r] = "insert" => tip[r] = LastAuditEntry(TenantOf[cur[r]])

(* What is signed, or about to be, is a row of the chain.                  *)
IsRow(t, a) == \E x \in rows[t] : x.seq = a.seq /\ x.hash = a.hash

Anchored ==
    /\ \A t \in Tenants : \A a \in anchors[t] : IsRow(t, a)
    /\ anchoring.tenant # NoTenant => IsRow(anchoring.tenant, anchoring)

IInv == Shape /\ Places /\ Accounted /\ OrderlyClose /\ Behindhand /\ OrderKept
            /\ Linked /\ Locked /\ Anchored

-----------------------------------------------------------------------------
(* Every step keeps the shape.                                             *)

USE SizesAssumption, EventsAssumption, NoneAssumption
    DEF emitters, worker, anchorjob, Returns, Nil, Hash, Texts

WorkerShape ==
    /\ pc \in [Replicas -> {"receive", "begin", "lock", "read", "insert"}]
    /\ cur \in [Replicas -> Events \cup {NoEvent}]
    /\ \A r \in Replicas : pc[r] = "receive" <=> cur[r] = NoEvent
    /\ began \in [Replicas -> 0 .. MaxTime]
    /\ tip \in [Replicas -> Link]
    /\ lock \in [Tenants -> Replicas \cup {NoReplica}]

LEMMA EmptyHash == Nil \in Hashes /\ EmptyTip \in Link
  BY DEF Hashes, EmptyTip, Link

LEMMA IdsAreTexts == \A e \in Events : IdsSent(e) \in Texts
  BY DEF IdsSent

LEMMA StartShape == Init => Shape
  BY EmptyHash DEF Init, Shape

LEMMA EndsKeepsWorker ==
    ASSUME Shape, NEW r \in Replicas, Ends(r)
    PROVE  WorkerShape'
  BY EmptyHash DEF Shape, WorkerShape, Ends

LEMMA StopKeepsShape ==
    ASSUME Shape, NEW r \in Replicas, NEW why \in {"crash", "forced", "late", "panic"},
           Stop(r, why), stops' \in 0 .. MaxStops
    PROVE  Shape'
<1>1. WorkerShape'
  BY EndsKeepsWorker DEF Stop
<1>2. /\ queue' \in [Replicas -> Seq(Events)] /\ waiting' \in [Replicas -> Seq(Events)]
      /\ \A q \in Replicas : Len(queue'[q]) <= QueueSize
  BY DEF Stop, Shape
<1>3. /\ emit' \in [Events -> {"absent", "idle", "running", "waiting", "returned", "panicked"}]
      /\ phase' \in [Replicas -> {"up", "draining", "closed", "cut", "stopped"}]
      /\ lost' \in [Events -> {"no", "crash", "forced", "late", "panic"}]
  BY DEF Stop, Shape
<1>4. UNCHANGED <<cancelled, anchorjob, rows, counted, now>>
  BY DEF Stop
<1> QED
  BY <1>1, <1>2, <1>3, <1>4 DEF Shape, WorkerShape

LEMMA EmitKeepsShape ==
    ASSUME Shape, NEW e \in Events, Start(e) \/ Emit(e) \/ ContextDone(e), Places
    PROVE  Shape'
<1>1. Home[e] \in Replicas
  OBVIOUS
<1>2. UNCHANGED <<worker, anchorjob, phase, rows, now, stops>>
  BY DEF Start, Emit, ContextDone
<1>3. emit' \in [Events -> {"absent", "idle", "running", "waiting", "returned", "panicked"}]
  <2>1. \/ emit' = emit
        \/ \E v \in {"running", "waiting", "returned", "panicked"} : emit' = [emit EXCEPT ![e] = v]
    BY DEF Start, Emit, ContextDone
  <2> QED
    BY <2>1, ZenonT(60) DEF Shape
<1>4. cancelled' \subseteq Events /\ counted' \subseteq Events
  BY DEF Start, Emit, ContextDone, Shape
<1>5. lost' \in [Events -> {"no", "crash", "forced", "late", "panic"}]
  <2>1. \/ lost' = lost
        \/ \E v \in {"forced", "late"} : lost' = [lost EXCEPT ![e] = v]
    BY DEF Start, Emit, ContextDone, LossWhen
  <2> QED
    BY <2>1, ZenonT(60) DEF Shape
<1>6. queue' \in [Replicas -> Seq(Events)] /\ \A r \in Replicas : Len(queue'[r]) <= QueueSize
  <2>1. CASE queue' = queue
    BY <2>1 DEF Shape
  <2>2. CASE queue' = [queue EXCEPT ![Home[e]] = Append(@, e)] /\ Room(Home[e])
    <3>1. Append(queue[Home[e]], e) \in Seq(Events) /\ Len(Append(queue[Home[e]], e)) <= QueueSize
      BY <1>1, <2>2 DEF Shape, Room
    <3> QED
      BY <1>1, <2>2, <3>1 DEF Shape
  <2> QED
    BY <2>1, <2>2 DEF Start, Emit, ContextDone
<1>7. waiting' \in [Replicas -> Seq(Events)]
  <2>1. CASE waiting' = waiting
    BY <2>1 DEF Shape
  <2>2. CASE Emit(e) /\ waiting' = [waiting EXCEPT ![Home[e]] = Append(@, e)]
    BY <1>1, <2>2 DEF Shape
  <2>3. CASE ContextDone(e)
    <3>1. Behind(waiting[Home[e]], e) \in Seq(Events)
      BY <1>1, <2>3, BehindFacts DEF Shape, Places, ContextDone
    <3> QED
      BY <1>1, <2>3, <3>1 DEF Shape, ContextDone
  <2> QED
    BY <2>1, <2>2, <2>3 DEF Start, Emit
<1> QED
  BY <1>2, <1>3, <1>4, <1>5, <1>6, <1>7 DEF Shape

(* The last entry is the row with the highest number, which is how many    *)
(* rows there are.                                                         *)
LEMMA LastEntry ==
    ASSUME Shape, Linked, NEW t \in Tenants
    PROVE  /\ Cardinality(rows[t]) \in Nat
           /\ rows[t] = {} => Cardinality(rows[t]) = 0 /\ LastAuditEntry(t) = EmptyTip
           /\ rows[t] # {} =>
                 \E x \in rows[t] : /\ x.seq = Cardinality(rows[t])
                                    /\ LastAuditEntry(t) = [seq |-> x.seq, hash |-> x.hash]
           /\ LastAuditEntry(t).seq = Cardinality(rows[t])
           /\ LastAuditEntry(t) \in Link
<1> DEFINE n == Cardinality(rows[t])
<1>1. n \in Nat
  BY FS_CardinalityType DEF Linked, Chained
<1>2. CASE rows[t] = {}
  BY <1>2, EmptyHash, FS_EmptySet DEF LastAuditEntry, EmptyTip
<1>3. CASE rows[t] # {}
  <2>1. n \in 1 .. n
    BY <1>1, <1>3 DEF Linked, Chained
  <2>2. PICK m \in rows[t] : m.seq = n
    BY <2>1 DEF Linked, Chained
  <2>3. \A y \in rows[t] : y.seq <= m.seq
    BY <1>1, <2>2 DEF Linked, Chained
  <2> DEFINE last == CHOOSE x \in rows[t] : \A y \in rows[t] : y.seq <= x.seq
  <2>4. last \in rows[t] /\ \A y \in rows[t] : y.seq <= last.seq
    BY <2>2, <2>3
  <2>5. LastAuditEntry(t) = [seq |-> last.seq, hash |-> last.hash]
    BY <1>3 DEF LastAuditEntry
  <2> HIDE DEF last
  <2>6. last.seq = n
    BY <1>1, <2>2, <2>4 DEF Linked, Chained
  <2>7. last \in Row
    BY <2>4 DEF Shape
  <2>8. [seq |-> last.seq, hash |-> last.hash] \in Link
    BY <1>1, <2>6, <2>7 DEF Row, Link
  <2> QED
    BY <1>1, <1>3, <2>4, <2>5, <2>6, <2>8
<1> QED
  BY <1>2, <1>3

LEMMA WorkKeepsShape ==
    ASSUME Shape, Places, Linked, NEW r \in Replicas,
           Receive(r) \/ Begin(r) \/ LockAuditChain(r) \/ ReadTip(r)
    PROVE  Shape'
<1>1. UNCHANGED <<cancelled, anchorjob, phase, rows, counted, lost, now, stops>>
  BY DEF Receive, Begin, LockAuditChain, ReadTip
<1>2. CASE Receive(r)
  <2>1. queue[r] \in Seq(Events) /\ queue[r] # <<>> /\ waiting[r] \in Seq(Events)
    BY <1>2 DEF Receive, Shape
  <2>2. /\ Head(queue[r]) \in Events /\ Tail(queue[r]) \in Seq(Events)
        /\ Len(Tail(queue[r])) = Len(queue[r]) - 1 /\ Len(queue[r]) \in Nat
    BY <2>1, TailFacts
  <2>3. WorkerShape'
    BY <1>2, <2>2, ZenonT(60) DEF Receive, Shape, WorkerShape
  <2>4. CASE waiting[r] = <<>>
    <3>1. queue' = [queue EXCEPT ![r] = Tail(@)] /\ UNCHANGED <<waiting, emit>>
      BY <1>2, <2>4 DEF Receive
    <3>2. queue' \in [Replicas -> Seq(Events)] /\ \A q \in Replicas : Len(queue'[q]) <= QueueSize
      BY <2>2, <3>1, SMTT(30) DEF Shape
    <3> QED
      BY <1>1, <2>3, <3>1, <3>2 DEF Shape, WorkerShape
  <2>5. CASE waiting[r] # <<>>
    <3>1. Head(waiting[r]) \in Events /\ Tail(waiting[r]) \in Seq(Events)
      BY <2>1, <2>5, TailFacts
    <3>2. /\ Append(Tail(queue[r]), Head(waiting[r])) \in Seq(Events)
          /\ Len(Append(Tail(queue[r]), Head(waiting[r]))) = Len(queue[r])
      BY <2>2, <3>1
    <3>3. /\ queue' = [queue EXCEPT ![r] = Append(Tail(@), Head(waiting[r]))]
          /\ waiting' = [waiting EXCEPT ![r] = Tail(@)]
          /\ emit' = [emit EXCEPT ![Head(waiting[r])] = "returned"]
      BY <1>2, <2>5 DEF Receive
    <3>4. /\ queue' \in [Replicas -> Seq(Events)] /\ waiting' \in [Replicas -> Seq(Events)]
          /\ \A q \in Replicas : Len(queue'[q]) <= QueueSize
          /\ emit' \in [Events -> {"absent", "idle", "running", "waiting", "returned", "panicked"}]
      BY <3>1, <3>2, <3>3 DEF Shape
    <3> QED
      BY <1>1, <2>3, <3>4 DEF Shape, WorkerShape
  <2> QED
    BY <2>4, <2>5
<1>3. CASE Begin(r)
  BY <1>1, <1>3 DEF Begin, Shape
<1>4. CASE LockAuditChain(r) \/ ReadTip(r)
  <2>1. cur[r] \in Events /\ TenantOf[cur[r]] \in Tenants
    BY <1>4 DEF LockAuditChain, ReadTip, Shape, Places, Belongs
  <2>2. LastAuditEntry(TenantOf[cur[r]]) \in Link
    BY <2>1, LastEntry
  <2>3. UNCHANGED <<emitters, cur, began>> /\ cur[r] # NoEvent
    BY <1>4, <2>1 DEF LockAuditChain, ReadTip
  <2>4. CASE LockAuditChain(r)
    <3>1. /\ pc' = [pc EXCEPT ![r] = "read"] /\ lock' = [lock EXCEPT ![TenantOf[cur[r]]] = r]
          /\ UNCHANGED <<emitters, cur, began, tip, anchorjob, phase, rows, counted, lost, now, stops>>
      BY <2>4 DEF LockAuditChain
    <3>2. /\ pc' \in [Replicas -> {"receive", "begin", "lock", "read", "insert"}]
          /\ lock' \in [Tenants -> Replicas \cup {NoReplica}]
          /\ \A q \in Replicas : pc'[q] = "receive" <=> cur[q] = NoEvent
      BY <2>1, <2>3, <3>1 DEF Shape
    <3> QED
      BY <1>1, <3>1, <3>2 DEF Shape
  <2>5. CASE ReadTip(r)
    <3>1. /\ pc' = [pc EXCEPT ![r] = "insert"]
          /\ tip' = [tip EXCEPT ![r] = LastAuditEntry(TenantOf[cur[r]])]
          /\ UNCHANGED <<emitters, cur, began, lock, anchorjob, phase, rows, counted, lost, now, stops>>
      BY <2>5 DEF ReadTip
    <3>2. /\ pc' \in [Replicas -> {"receive", "begin", "lock", "read", "insert"}]
          /\ tip' \in [Replicas -> Link]
          /\ \A q \in Replicas : pc'[q] = "receive" <=> cur[q] = NoEvent
      BY <2>2, <2>3, <3>1 DEF Shape
    <3> QED
      BY <1>1, <3>1, <3>2 DEF Shape
  <2> QED
    BY <1>4, <2>4, <2>5
<1> QED
  BY <1>2, <1>3, <1>4

LEMMA NextRowIsRow ==
    ASSUME Shape, NEW r \in Replicas, cur[r] \in Events
    PROVE  NextRow(r) \in Row
<1>1. tip[r].seq \in Nat /\ tip[r].hash \in Seq(Nat \X Events \X Texts) /\ began[r] \in Nat
  BY DEF Shape, Link
<1>2. <<tip[r].seq + 1, cur[r], IdsSent(cur[r])>> \in Nat \X Events \X Texts
  BY <1>1, IdsAreTexts
<1>3. ChainHash(tip[r].hash, tip[r].seq + 1, cur[r], IdsSent(cur[r])) \in Seq(Nat \X Events \X Texts)
  BY <1>1, <1>2 DEF ChainHash
<1> QED
  BY <1>1, <1>3 DEF NextRow, Row

LEMMA EndKeepsShape ==
    ASSUME Shape, Places, NEW r \in Replicas, InsertAudit(r) \/ AppendTimesOut(r) \/ AppendFails(r)
    PROVE  Shape'
<1>1. WorkerShape'
  BY EndsKeepsWorker DEF InsertAudit, AppendTimesOut, AppendFails, CountDropped
<1>2. UNCHANGED <<emitters, anchorjob, phase, lost, now, stops>>
  BY DEF InsertAudit, AppendTimesOut, AppendFails, CountDropped
<1>3. cur[r] \in Events /\ TenantOf[cur[r]] \in Tenants
  BY DEF InsertAudit, AppendTimesOut, AppendFails, Blocked, Shape, Places, Belongs
<1>4. counted' \subseteq Events
  BY <1>3 DEF InsertAudit, AppendTimesOut, AppendFails, CountDropped, Shape
<1>5. rows' \in [Tenants -> SUBSET Row]
  <2>1. CASE InsertAudit(r)
    <3>1. NextRow(r) \in Row
      BY <1>3, NextRowIsRow
    <3>2. rows' = [rows EXCEPT ![TenantOf[cur[r]]] = @ \cup {NextRow(r)}]
      BY <2>1 DEF InsertAudit
    <3> QED
      BY <1>3, <3>1, <3>2 DEF Shape
  <2>2. CASE ~InsertAudit(r)
    BY <2>2 DEF AppendTimesOut, AppendFails, CountDropped, Shape
  <2> QED
    BY <2>1, <2>2
<1> QED
  BY <1>1, <1>2, <1>4, <1>5 DEF Shape, WorkerShape

CloseQueue(r, ph) ==
    /\ phase' = [phase EXCEPT ![r] = ph]
    /\ emit' = [e \in Events |-> IF e \in On(r) /\ emit[e] = "waiting" THEN "panicked" ELSE emit[e]]
    /\ lost' = [e \in Events |-> IF e \in On(r) /\ emit[e] = "waiting" THEN LossWhen(ph) ELSE lost[e]]
    /\ waiting' = [waiting EXCEPT ![r] = <<>>]
    /\ UNCHANGED <<queue, cancelled, worker, anchorjob, rows, counted, now, stops>>

(* However a process ends, its end is a Stop for one of four reasons.      *)
LEMMA Endings ==
    ASSUME Shape, NEW r \in Replicas,
           \/ \E e \in Events : Home[e] = r /\ EmitKills(e)
           \/ DrainedClose(r) \/ ForcedClose(r) \/ Exit(r) \/ Crash(r)
    PROVE  \/ \E why \in {"crash", "forced", "late", "panic"} :
                 /\ Stop(r, why) /\ stops' \in 0 .. MaxStops
                 /\ why = "late" => phase[r] = "closed" /\ queue[r] = <<>> /\ cur[r] = NoEvent
           \/ \E ph \in {"closed", "cut"} :
                 phase[r] = "draining" /\ CloseQueue(r, ph) /\ (ph = "closed" => Drained(r))
<1>1. CASE \E e \in Events : Home[e] = r /\ EmitKills(e)
  BY <1>1 DEF EmitKills, KillWhen, Shape
<1>2. CASE DrainedClose(r)
  BY <1>2 DEF DrainedClose, Close, KillWhen, CloseQueue, Shape
<1>3. CASE ForcedClose(r)
  BY <1>3 DEF ForcedClose, Close, KillWhen, CloseQueue, Shape
<1>4. CASE Exit(r)
  <2>1. LossWhen(phase[r]) \in {"forced", "late"} /\ (LossWhen(phase[r]) = "late" => phase[r] = "closed")
    BY <1>4 DEF Exit, LossWhen, Closed
  <2>2. stops' \in 0 .. MaxStops /\ queue[r] = <<>> /\ cur[r] = NoEvent /\ Stop(r, LossWhen(phase[r]))
    BY <1>4 DEF Exit, Shape
  <2> QED
    BY <2>1, <2>2
<1>5. CASE Crash(r)
  <2>1. Stop(r, "crash") /\ stops' \in 0 .. MaxStops
    BY <1>5 DEF Crash, Shape
  <2> QED
    BY <2>1
<1> QED
  BY <1>1, <1>2, <1>3, <1>4, <1>5

LEMMA CloseKeepsShape ==
    ASSUME Shape, NEW r \in Replicas, NEW ph \in {"closed", "cut"}, CloseQueue(r, ph)
    PROVE  Shape'
<1>1. waiting' \in [Replicas -> Seq(Events)]
  BY DEF CloseQueue, Shape
<1>2. LossWhen(ph) \in {"forced", "late"}
  BY DEF LossWhen
<1> QED
  BY <1>1, <1>2 DEF CloseQueue, Shape

LEMMA OthersKeepShape ==
    ASSUME Shape, Linked,
           \/ \E r \in Replicas : Shutdown(r) \/ Restart(r)
           \/ (\E t \in Tenants : AnchorRead(t)) \/ AnchorInsert \/ Tick
    PROVE  Shape'
<1>1. ASSUME NEW r \in Replicas, Shutdown(r) \/ Restart(r) PROVE Shape'
  <2>1. CASE Shutdown(r)
    BY <2>1 DEF Shutdown, Shape
  <2>2. CASE Restart(r)
    BY <2>2 DEF Restart, Shape
  <2> QED
    BY <1>1, <2>1, <2>2
<1>2. ASSUME NEW t \in Tenants, AnchorRead(t) PROVE Shape'
  <2>1. LastAuditEntry(t) \in Link
    BY LastEntry
  <2> QED
    BY <1>2, <2>1 DEF AnchorRead, Shape, Link, Hashes
<1>3. CASE AnchorInsert
  <2>1. /\ anchoring.tenant \in Tenants
        /\ [seq |-> anchoring.seq, hash |-> anchoring.hash] \in Link
    BY <1>3 DEF AnchorInsert, Shape, Link, Hashes
  <2> QED
    BY <1>3, <2>1, EmptyHash DEF AnchorInsert, Shape, WithAnchor
<1>4. CASE Tick
  BY <1>4 DEF Tick, Shape
<1> QED
  BY <1>1, <1>2, <1>3, <1>4

-----------------------------------------------------------------------------
(* An event is in one place.                                               *)

(* What Emit comes to, but for the sender that dies with its process.      *)
Counts(e) == counted' = counted \cup {e} /\ Returns(e) /\ UNCHANGED <<queue, waiting, lost>>

Panics(e) ==
    /\ Closed(Home[e]) /\ e \notin Detached
    /\ emit' = [emit EXCEPT ![e] = "panicked"]
    /\ lost' = [lost EXCEPT ![e] = LossWhen(phase[Home[e]])]
    /\ UNCHANGED <<queue, waiting, counted>>

Sends(e) ==
    /\ TenantOf[e] \in Tenants
    /\ queue' = [queue EXCEPT ![Home[e]] = Append(@, e)]
    /\ Returns(e)
    /\ UNCHANGED <<waiting, counted, lost>>

Blocks(e) ==
    /\ TenantOf[e] \in Tenants
    /\ waiting' = [waiting EXCEPT ![Home[e]] = Append(@, e)]
    /\ emit' = [emit EXCEPT ![e] = "waiting"]
    /\ UNCHANGED <<queue, counted, lost>>

LEMMA EmitCases ==
    ASSUME NEW e \in Events, Emit(e)
    PROVE  /\ emit[e] = "running"
           /\ UNCHANGED <<cancelled, worker, anchorjob, phase, rows, now, stops>>
           /\ Counts(e) \/ Panics(e) \/ Sends(e) \/ Blocks(e)
  BY DEF Emit, Counts, Panics, Sends, Blocks

(* The head of the buffer goes to the appender; its place is taken by the  *)
(* sender that waited longest, if one did.                                 *)
LEMMA ReceiveCases ==
    ASSUME Shape, Places, NEW r \in Replicas, Receive(r)
    PROVE  \E h \in Events :
              /\ In(h, queue[r]) /\ cur[r] = NoEvent /\ cur' = [cur EXCEPT ![r] = h]
              /\ \A q \in Replicas : q # r => queue'[q] = queue[q] /\ waiting'[q] = waiting[q]
              /\ Ordered(queue[r]) => \A x : In(x, queue[r]) => x \notin After[h]
              /\ Ordered(queue[r]) => Ordered(Tail(queue[r]))
              /\ \A x : In(x, queue[r]) <=> x = h \/ In(x, Tail(queue[r]))
              /\ Distinct(Tail(queue[r])) /\ ~In(h, Tail(queue[r])) /\ Tail(queue[r]) \in Seq(Events)
              /\ \/ /\ queue'[r] = Tail(queue[r]) /\ UNCHANGED <<waiting, emit>>
                 \/ \E w \in Events :
                       /\ In(w, waiting[r]) /\ Returns(w)
                       /\ queue'[r] = Append(Tail(queue[r]), w)
                       /\ waiting'[r] = Tail(waiting[r])
                       /\ Distinct(waiting'[r])
                       /\ \A x : In(x, waiting'[r]) <=> In(x, waiting[r]) /\ x # w
<1> DEFINE h == Head(queue[r])
<1>1. queue[r] \in Seq(Events) /\ queue[r] # <<>> /\ waiting[r] \in Seq(Events)
  BY DEF Receive, Shape
<1>2. /\ h \in Events /\ Tail(queue[r]) \in Seq(Events)
      /\ \A x : In(x, queue[r]) <=> x = h \/ In(x, Tail(queue[r]))
      /\ Distinct(Tail(queue[r])) /\ ~In(h, Tail(queue[r]))
      /\ Ordered(queue[r]) => Ordered(Tail(queue[r])) /\ \A x : In(x, queue[r]) => x \notin After[h]
  <2>1. /\ h \in Events /\ Tail(queue[r]) \in Seq(Events)
        /\ \A x : In(x, queue[r]) <=> x = h \/ In(x, Tail(queue[r]))
        /\ Distinct(Tail(queue[r])) /\ ~In(h, Tail(queue[r]))
        /\ Ordered(queue[r]) => Ordered(Tail(queue[r]))
    BY <1>1, TailFacts DEF Places
  <2>2. Ordered(queue[r]) => \A x : In(x, queue[r]) => x \notin After[h]
    <3>1. queue[r][1] = h /\ Len(queue[r]) \in Nat /\ Len(queue[r]) > 0
      BY <1>1
    <3> QED
      BY <3>1 DEF Ordered, In
  <2> QED
    BY <2>1, <2>2
<1>3. /\ cur[r] = NoEvent /\ cur' = [cur EXCEPT ![r] = h]
      /\ \A q \in Replicas : q # r => queue'[q] = queue[q] /\ waiting'[q] = waiting[q]
  <2>1. cur[r] = NoEvent /\ cur' = [cur EXCEPT ![r] = h]
    BY DEF Receive, Shape
  <2>2. CASE waiting[r] = <<>>
    <3>1. queue' = [queue EXCEPT ![r] = Tail(@)] /\ waiting' = waiting
      BY <2>2 DEF Receive
    <3> QED
      BY <2>1, <3>1 DEF Shape
  <2>3. CASE waiting[r] # <<>>
    <3>1. /\ queue' = [queue EXCEPT ![r] = Append(Tail(@), Head(waiting[r]))]
          /\ waiting' = [waiting EXCEPT ![r] = Tail(@)]
      BY <2>3 DEF Receive
    <3> QED
      BY <2>1, <3>1 DEF Shape
  <2> QED
    BY <2>2, <2>3
<1>4. CASE waiting[r] = <<>>
  <2>1. queue'[r] = Tail(queue[r]) /\ UNCHANGED <<waiting, emit>>
    BY <1>4 DEF Receive, Shape
  <2> HIDE DEF h
  <2> QED
    BY <1>2, <1>3, <2>1
<1>5. CASE waiting[r] # <<>>
  <2> DEFINE w == Head(waiting[r])
  <2>1. /\ w \in Events /\ Tail(waiting[r]) \in Seq(Events)
        /\ \A x : In(x, waiting[r]) <=> x = w \/ In(x, Tail(waiting[r]))
        /\ Distinct(Tail(waiting[r])) /\ ~In(w, Tail(waiting[r]))
    BY <1>1, <1>5, TailFacts DEF Places
  <2>2. /\ queue'[r] = Append(Tail(queue[r]), w) /\ waiting'[r] = Tail(waiting[r]) /\ Returns(w)
    <3>1. /\ queue' = [queue EXCEPT ![r] = Append(Tail(@), w)]
          /\ waiting' = [waiting EXCEPT ![r] = Tail(@)] /\ Returns(w)
      BY <1>5 DEF Receive
    <3> HIDE DEF w
    <3> QED
      BY <3>1 DEF Shape
  <2> HIDE DEF h, w
  <2>3. In(w, waiting[r]) /\ Distinct(waiting'[r])
    BY <2>1, <2>2
  <2>4. \A x : In(x, waiting'[r]) <=> In(x, waiting[r]) /\ x # w
    BY <2>1, <2>2
  <2> QED
    BY <1>2, <1>3, <2>1, <2>2, <2>3, <2>4, Zenon
<1> QED
  BY <1>4, <1>5

(* An operation begins, or ends without leaving its event anywhere.        *)
LEMMA QuietEmitKeepsPlaces ==
    ASSUME Shape, Places, NEW e \in Events, emit[e] \in {"idle", "running"},
           NEW v \in {"running", "returned", "panicked"}, emit' = [emit EXCEPT ![e] = v],
           UNCHANGED <<queue, waiting, cur, rows>>
    PROVE  Places'
<1>1. \A d \in Events : emit[d] \in {"waiting", "returned"} => emit'[d] = emit[d]
  BY DEF Shape
<1>2. \A d \in Events : emit'[d] = "waiting" => emit[d] = "waiting"
  BY DEF Shape
<1>3. \A t \in Tenants : \A x \in rows[t] : x.ev \in Events
  BY DEF Shape, Row
<1> QED
  BY <1>1, <1>2, <1>3 DEF Places

LEMMA SendKeepsPlaces ==
    ASSUME Shape, Places, NEW e \in Events, emit[e] = "running", Sends(e),
           UNCHANGED <<cur, rows>>
    PROVE  Places'
<1> DEFINE r == Home[e]
<1>1. r \in Replicas /\ queue[r] \in Seq(Events)
  BY DEF Shape
<1>2. /\ queue'[r] = Append(queue[r], e) /\ waiting' = waiting
      /\ \A q \in Replicas : q # r => queue'[q] = queue[q]
      /\ emit'[e] = "returned" /\ \A d \in Events : d # e => emit'[d] = emit[d]
  BY <1>1 DEF Sends, Shape
<1>3. \A x : In(x, queue'[r]) <=> In(x, queue[r]) \/ x = e
  BY <1>1, <1>2, AppendFacts
<1>4. ~In(e, queue[r]) /\ (\A q \in Replicas : ~In(e, waiting[q]) /\ cur[q] # e)
  BY <1>1 DEF Places
<1>5. Distinct(queue'[r])
  BY <1>1, <1>2, <1>4, AppendFacts DEF Places
<1>6. ASSUME NEW q \in Replicas
      PROVE  /\ Distinct(waiting'[q])
             /\ \A d \in Events : In(d, waiting'[q]) => Belongs(d, q) /\ emit'[d] = "waiting"
             /\ Distinct(queue'[q])
             /\ \A d \in Events : In(d, queue'[q]) => Belongs(d, q) /\ emit'[d] = "returned" /\ cur'[q] # d
             /\ cur'[q] \in Events => Belongs(cur'[q], q) /\ emit'[cur'[q]] = "returned"
  <2>1. Distinct(queue'[q]) /\ \A d \in Events : In(d, queue'[q]) => In(d, queue[q]) \/ (d = e /\ q = r)
    BY <1>2, <1>3, <1>5 DEF Places
  <2> QED
    BY <1>2, <1>4, <2>1 DEF Places, Belongs, Sends
<1>7. \A d \in Events : emit'[d] = "waiting" => In(d, waiting'[Home[d]])
  BY <1>2 DEF Places
<1>8. ASSUME NEW t \in Tenants, NEW x \in rows[t]
      PROVE  /\ TenantOf[x.ev] = t /\ emit'[x.ev] = "returned"
             /\ \A q \in Replicas : cur'[q] # x.ev /\ ~In(x.ev, queue'[q])
             /\ \A y \in rows[t] : x.ev = y.ev => x = y
  <2>1. x.ev \in Events /\ x.ev # e
    BY DEF Shape, Row, Places
  <2>2. \A q \in Replicas : In(x.ev, queue'[q]) => In(x.ev, queue[q])
    BY <1>2, <1>3, <2>1
  <2> QED
    BY <1>2, <2>1, <2>2 DEF Places
<1> QED
  BY <1>6, <1>7, <1>8 DEF Places

LEMMA BlockKeepsPlaces ==
    ASSUME Shape, Places, NEW e \in Events, UNCHANGED <<cur, rows>>,
           (emit[e] = "running" /\ Blocks(e)) \/ ContextDone(e)
    PROVE  Places'
<1> DEFINE r == Home[e]
<1>1. r \in Replicas /\ waiting[r] \in Seq(Events)
  BY DEF Shape
<1>2. /\ queue' = queue /\ \A q \in Replicas : q # r => waiting'[q] = waiting[q]
      /\ emit'[e] = "waiting" /\ \A d \in Events : d # e => emit'[d] = emit[d]
      /\ emit[e] \in {"running", "waiting"}
  BY <1>1 DEF Blocks, ContextDone, Shape
<1>3. /\ \A x : In(x, waiting'[r]) <=> In(x, waiting[r]) \/ x = e
      /\ Distinct(waiting'[r]) /\ Belongs(e, r)
  <2>1. CASE emit[e] = "running" /\ Blocks(e)
    <3>1. waiting'[r] = Append(waiting[r], e) /\ ~In(e, waiting[r]) /\ Belongs(e, r)
      BY <1>1, <2>1 DEF Blocks, Shape, Places, Belongs
    <3> QED
      BY <1>1, <3>1, AppendFacts DEF Places
  <2>2. CASE ContextDone(e)
    <3>1. waiting'[r] = Behind(waiting[r], e) /\ In(e, waiting[r])
      BY <1>1, <2>2 DEF ContextDone, Shape, Places
    <3> QED
      BY <1>1, <3>1, BehindFacts DEF Places
  <2> QED
    BY <2>1, <2>2
<1>4. \A q \in Replicas : ~In(e, queue[q]) /\ cur[q] # e
  BY <1>2 DEF Places
<1>5. ASSUME NEW q \in Replicas
      PROVE  /\ Distinct(waiting'[q])
             /\ \A d \in Events : In(d, waiting'[q]) => Belongs(d, q) /\ emit'[d] = "waiting"
             /\ Distinct(queue'[q])
             /\ \A d \in Events : In(d, queue'[q]) => Belongs(d, q) /\ emit'[d] = "returned" /\ cur'[q] # d
             /\ cur'[q] \in Events => Belongs(cur'[q], q) /\ emit'[cur'[q]] = "returned"
  <2>1. Distinct(waiting'[q]) /\ \A d \in Events : In(d, waiting'[q]) => In(d, waiting[q]) \/ (d = e /\ q = r)
    BY <1>2, <1>3 DEF Places
  <2> QED
    BY <1>2, <1>3, <1>4, <2>1 DEF Places
<1>6. \A d \in Events : emit'[d] = "waiting" => In(d, waiting'[Home[d]])
  <2> SUFFICES ASSUME NEW d \in Events, emit'[d] = "waiting" PROVE In(d, waiting'[Home[d]])
    OBVIOUS
  <2>1. CASE d = e
    BY <1>3, <2>1
  <2>2. CASE d # e
    <3>1. In(d, waiting[Home[d]]) /\ Home[d] \in Replicas
      BY <1>2, <2>2 DEF Places
    <3> QED
      BY <1>2, <1>3, <3>1
  <2> QED
    BY <2>1, <2>2
<1>7. \A t \in Tenants : \A x \in rows[t] : x.ev # e /\ x.ev \in Events
  BY <1>2 DEF Places, Shape, Row
<1> QED
  BY <1>2, <1>5, <1>6, <1>7 DEF Places

LEMMA ReceiveKeepsPlaces ==
    ASSUME Shape, Places, NEW r \in Replicas, Receive(r)
    PROVE  Places'
<1>1. rows' = rows
  BY DEF Receive
<1>2. PICK h \in Events :
          /\ In(h, queue[r]) /\ cur[r] = NoEvent /\ cur' = [cur EXCEPT ![r] = h]
          /\ \A q \in Replicas : q # r => queue'[q] = queue[q] /\ waiting'[q] = waiting[q]
          /\ \A x : In(x, queue[r]) <=> x = h \/ In(x, Tail(queue[r]))
          /\ Distinct(Tail(queue[r])) /\ ~In(h, Tail(queue[r])) /\ Tail(queue[r]) \in Seq(Events)
          /\ \/ /\ queue'[r] = Tail(queue[r]) /\ UNCHANGED <<waiting, emit>>
             \/ \E w \in Events :
                   /\ In(w, waiting[r]) /\ Returns(w)
                   /\ queue'[r] = Append(Tail(queue[r]), w)
                   /\ waiting'[r] = Tail(waiting[r])
                   /\ Distinct(waiting'[r])
                   /\ \A x : In(x, waiting'[r]) <=> In(x, waiting[r]) /\ x # w
  BY ReceiveCases, Zenon
<1>3. cur'[r] = h /\ \A q \in Replicas : q # r => cur'[q] = cur[q]
  BY <1>2 DEF Shape
<1>4. /\ Belongs(h, r) /\ emit[h] = "returned"
      /\ \A q \in Replicas : In(h, queue[q]) => q = r
      /\ \A t \in Tenants : \A x \in rows[t] : x.ev # h /\ x.ev \in Events
  BY <1>2, SMTT(30) DEF Places, Belongs, Shape, Row
<1>5. CASE queue'[r] = Tail(queue[r]) /\ UNCHANGED <<waiting, emit>>
  <2>1. ASSUME NEW q \in Replicas
        PROVE  /\ Distinct(queue'[q])
               /\ \A d \in Events : In(d, queue'[q]) => In(d, queue[q]) /\ cur'[q] # d
               /\ cur'[q] \in Events => cur'[q] = cur[q] \/ (q = r /\ cur'[q] = h)
    <3>1. CASE q = r
      BY <1>2, <1>3, <1>5, <3>1
    <3>2. CASE q # r
      <4>1. queue'[q] = queue[q] /\ cur'[q] = cur[q]
        BY <1>2, <1>3, <3>2
      <4>2. Distinct(queue[q]) /\ \A d \in Events : In(d, queue[q]) => cur[q] # d
        BY DEF Places
      <4> QED
        BY <4>1, <4>2
    <3> QED
      BY <3>1, <3>2
  <2>2. \A q \in Replicas : \A d : In(d, queue'[q]) => In(d, queue[q])
    BY <1>2, <1>5
  <2> QED
    BY <1>1, <1>3, <1>4, <1>5, <2>1, <2>2 DEF Places
<1>6. ASSUME NEW w \in Events, In(w, waiting[r]), Returns(w),
             queue'[r] = Append(Tail(queue[r]), w), waiting'[r] = Tail(waiting[r]),
             Distinct(waiting'[r]), \A x : In(x, waiting'[r]) <=> In(x, waiting[r]) /\ x # w
      PROVE  Places'
  <2>1. /\ Belongs(w, r) /\ emit[w] = "waiting" /\ w # h
        /\ \A q \in Replicas : ~In(w, queue[q]) /\ cur[q] # w /\ (In(w, waiting[q]) => q = r)
        /\ \A t \in Tenants : \A x \in rows[t] : x.ev # w
    BY <1>4, <1>6 DEF Places, Belongs
  <2>2. emit'[w] = "returned" /\ \A d \in Events : d # w => emit'[d] = emit[d]
    BY <1>6 DEF Shape
  <2>3. /\ \A x : In(x, queue'[r]) <=> In(x, Tail(queue[r])) \/ x = w
        /\ Distinct(queue'[r])
    <3>1. ~In(w, Tail(queue[r])) /\ Tail(queue[r]) \in Seq(Events) /\ Distinct(Tail(queue[r]))
      BY <1>2, <2>1
    <3>2. /\ \A x : In(x, Append(Tail(queue[r]), w)) <=> In(x, Tail(queue[r])) \/ x = w
          /\ Distinct(Append(Tail(queue[r]), w))
      BY <3>1, AppendFacts
    <3> QED
      BY <1>6, <3>2
  <2>4. ASSUME NEW q \in Replicas
        PROVE  /\ Distinct(queue'[q]) /\ Distinct(waiting'[q])
               /\ \A d : In(d, queue'[q]) => (In(d, queue[q]) /\ (q = r => d # h)) \/ (q = r /\ d = w)
               /\ \A d : In(d, waiting'[q]) => In(d, waiting[q]) /\ d # w
               /\ cur'[q] \in Events => cur'[q] = cur[q] \/ (q = r /\ cur'[q] = h)
    <3>1. CASE q = r
      BY <1>2, <1>3, <1>6, <2>1, <2>3, <3>1
    <3>2. CASE q # r
      <4>1. queue'[q] = queue[q] /\ waiting'[q] = waiting[q] /\ cur'[q] = cur[q]
        BY <1>2, <1>3, <3>2
      <4>2. Distinct(queue[q]) /\ Distinct(waiting[q]) /\ ~In(w, waiting[q])
        BY <2>1, <3>2 DEF Places
      <4> QED
        BY <3>2, <4>1, <4>2
    <3> QED
      BY <3>1, <3>2
  <2>5. ASSUME NEW q \in Replicas
        PROVE  /\ \A d \in Events : In(d, waiting'[q]) => Belongs(d, q) /\ emit'[d] = "waiting"
               /\ \A d \in Events : In(d, queue'[q]) => Belongs(d, q) /\ emit'[d] = "returned" /\ cur'[q] # d
               /\ cur'[q] \in Events => Belongs(cur'[q], q) /\ emit'[cur'[q]] = "returned"
    <3>1. \A d \in Events : In(d, waiting'[q]) => Belongs(d, q) /\ emit'[d] = "waiting"
      BY <2>2, <2>4 DEF Places
    <3>2. \A d \in Events : In(d, queue'[q]) => Belongs(d, q) /\ emit'[d] = "returned" /\ cur'[q] # d
      <4> SUFFICES ASSUME NEW d \in Events, In(d, queue'[q])
                   PROVE  Belongs(d, q) /\ emit'[d] = "returned" /\ cur'[q] # d
        OBVIOUS
      <4>1. CASE q = r /\ d = w
        BY <1>3, <2>1, <2>2, <4>1
      <4>2. CASE In(d, queue[q]) /\ (q = r => d # h)
        BY <1>3, <2>1, <2>2, <4>2 DEF Places
      <4> QED
        BY <2>4, <4>1, <4>2
    <3>3. cur'[q] \in Events => Belongs(cur'[q], q) /\ emit'[cur'[q]] = "returned"
      BY <1>4, <2>1, <2>2, <2>4 DEF Places
    <3> QED
      BY <3>1, <3>2, <3>3
  <2>6. ASSUME NEW d \in Events, emit'[d] = "waiting" PROVE In(d, waiting'[Home[d]])
    <3>1. d # w /\ In(d, waiting[Home[d]]) /\ Home[d] \in Replicas
      BY <2>2, <2>6 DEF Places
    <3> QED
      BY <1>2, <1>6, <3>1
  <2>7. ASSUME NEW t \in Tenants, NEW x \in rows[t]
        PROVE  /\ TenantOf[x.ev] = t /\ emit'[x.ev] = "returned"
               /\ \A q \in Replicas : cur'[q] # x.ev /\ ~In(x.ev, queue'[q])
               /\ \A y \in rows[t] : x.ev = y.ev => x = y
    <3>1. x.ev \in Events /\ x.ev # h /\ x.ev # w
      BY <1>4, <2>1
    <3>2. \A q \in Replicas : cur[q] # x.ev /\ ~In(x.ev, queue[q])
      BY DEF Places
    <3>3. \A q \in Replicas : cur'[q] # x.ev /\ ~In(x.ev, queue'[q])
      BY <1>3, <2>4, <3>1, <3>2
    <3> QED
      BY <2>2, <3>1, <3>3 DEF Places
  <2> QED
    BY <1>1, <2>4, <2>5, <2>6, <2>7 DEF Places
<1> QED
  BY <1>2, <1>5, <1>6

(* The appender works on its event and leaves it where it is.              *)
LEMMA StillKeepsPlaces ==
    ASSUME Places, UNCHANGED <<emit, queue, waiting, cur, rows>>
    PROVE  Places'
  BY DEF Places

LEMMA EndsFacts ==
    ASSUME Shape, NEW r \in Replicas, Ends(r)
    PROVE  /\ cur'[r] = NoEvent /\ pc'[r] = "receive"
           /\ \A q \in Replicas : q # r => /\ cur'[q] = cur[q] /\ pc'[q] = pc[q]
                                           /\ tip'[q] = tip[q] /\ began'[q] = began[q]
           /\ \A t \in Tenants : lock[t] # r => lock'[t] = lock[t]
  BY DEF Ends, Shape

LEMMA DropKeepsPlaces ==
    ASSUME Shape, Places, NEW r \in Replicas, Ends(r), UNCHANGED <<emit, queue, waiting, rows>>
    PROVE  Places'
<1>1. \A t \in Tenants : \A x \in rows[t] : x.ev # NoEvent
  BY DEF Shape, Row
<1>2. cur'[r] = NoEvent /\ \A q \in Replicas : q # r => cur'[q] = cur[q]
  BY EndsFacts
<1>3. ASSUME NEW q \in Replicas
      PROVE  cur'[q] \in Events \cup {NoEvent} /\ (cur'[q] = cur[q] \/ cur'[q] = NoEvent)
  BY <1>2 DEF Shape
<1> QED
  BY <1>1, <1>3 DEF Places

LEMMA InsertFacts ==
    ASSUME Shape, Places, NEW r \in Replicas, InsertAudit(r)
    PROVE  /\ cur[r] \in Events /\ TenantOf[cur[r]] \in Tenants
           /\ NextRow(r) \in Row /\ NextRow(r).ev = cur[r]
           /\ rows'[TenantOf[cur[r]]] = rows[TenantOf[cur[r]]] \cup {NextRow(r)}
           /\ \A t \in Tenants : t # TenantOf[cur[r]] => rows'[t] = rows[t]
           /\ UNCHANGED <<emitters, anchorjob, phase, lost, now, stops>> /\ Ends(r)
<1>1. cur[r] \in Events /\ TenantOf[cur[r]] \in Tenants
  BY DEF InsertAudit, Shape, Places, Belongs
<1>2. NextRow(r) \in Row /\ NextRow(r).ev = cur[r]
  BY <1>1, NextRowIsRow DEF NextRow
<1> QED
  BY <1>1, <1>2 DEF InsertAudit, Shape

LEMMA InsertKeepsPlaces ==
    ASSUME Shape, Places, NEW r \in Replicas, InsertAudit(r)
    PROVE  Places'
<1> DEFINE e == cur[r]
           t == TenantOf[e]
           n == NextRow(r)
<1>1. /\ e \in Events /\ t \in Tenants /\ n.ev = e
      /\ rows'[t] = rows[t] \cup {n} /\ \A u \in Tenants : u # t => rows'[u] = rows[u]
      /\ UNCHANGED <<emit, queue, waiting>>
  BY InsertFacts
<1>2. cur'[r] = NoEvent /\ \A q \in Replicas : q # r => cur'[q] = cur[q]
  BY InsertFacts, EndsFacts
<1>3. Belongs(e, r) /\ emit[e] = "returned" /\ \A q \in Replicas : ~In(e, queue[q]) /\ (cur[q] = e => q = r)
  BY <1>1 DEF Places, Belongs
<1>4. \A x \in rows[t] : x.ev # e
  BY <1>1 DEF Places
<1> HIDE DEF e, t, n
<1>5. ASSUME NEW u \in Tenants, NEW x \in rows'[u]
      PROVE  /\ TenantOf[x.ev] = u /\ emit[x.ev] = "returned"
             /\ \A q \in Replicas : cur'[q] # x.ev /\ ~In(x.ev, queue[q])
             /\ \A y \in rows'[u] : x.ev = y.ev => x = y
  <2>1. x \in rows[u] \/ (u = t /\ x = n)
    BY <1>1
  <2>2. CASE x \in rows[u]
    <3>1. x.ev # NoEvent
      BY <2>2 DEF Shape, Row
    <3> QED
      BY <1>1, <1>2, <1>4, <2>2, <3>1 DEF Places
  <2>3. CASE u = t /\ x = n
    <3>1. \A q \in Replicas : cur'[q] # e /\ ~In(e, queue[q])
      BY <1>1, <1>2, <1>3
    <3>2. \A y \in rows'[u] : x.ev = y.ev => x = y
      BY <1>1, <1>4, <2>3
    <3> QED
      BY <1>1, <1>3, <2>3, <3>1, <3>2 DEF t
  <2> QED
    BY <2>1, <2>2, <2>3
<1>6. ASSUME NEW q \in Replicas
      PROVE  /\ cur'[q] \in Events => cur'[q] = cur[q]
             /\ \A d \in Events : cur[q] # d => cur'[q] # d
  BY <1>2
<1> QED
  BY <1>1, <1>5, <1>6 DEF Places

(* What dies with a process: the operations under way, and the events the  *)
(* appender had not stored.                                                *)
LEMMA StopFacts ==
    ASSUME Shape, Places, NEW r \in Replicas, NEW why \in {"crash", "forced", "late", "panic"},
           Stop(r, why)
    PROVE  /\ queue'[r] = <<>> /\ waiting'[r] = <<>> /\ Ends(r) /\ UNCHANGED <<rows, counted>>
           /\ phase'[r] = "stopped" /\ \A q \in Replicas : q # r => phase'[q] = phase[q]
           /\ \A q \in Replicas : q # r => queue'[q] = queue[q] /\ waiting'[q] = waiting[q]
           /\ \A e \in Events :
                 /\ Home[e] # r => emit'[e] = emit[e] /\ lost'[e] = lost[e]
                 /\ emit[e] \in {"absent", "idle", "returned", "panicked"} => emit'[e] = emit[e]
                 /\ Home[e] = r /\ emit[e] \in {"running", "waiting"} =>
                       emit'[e] = "panicked" /\ lost'[e] = why
                 /\ Home[e] = r /\ (cur[r] = e \/ In(e, queue[r])) => lost'[e] = why
                 /\ lost'[e] # lost[e] =>
                       /\ lost'[e] = why
                       /\ emit[e] \in {"running", "waiting"} \/ cur[r] = e \/ In(e, queue[r])
<1> DEFINE gone == {e \in On(r) : emit[e] \in {"running", "waiting"} \/ e = cur[r]
                                  \/ In(e, queue[r])}
<1>1. /\ emit' = [e \in Events |-> IF e \in gone /\ emit[e] # "returned" THEN "panicked" ELSE emit[e]]
      /\ lost' = [e \in Events |-> IF e \in gone THEN why ELSE lost[e]]
      /\ queue' = [queue EXCEPT ![r] = <<>>] /\ waiting' = [waiting EXCEPT ![r] = <<>>]
      /\ phase' = [phase EXCEPT ![r] = "stopped"] /\ Ends(r) /\ UNCHANGED <<rows, counted>>
  BY DEF Stop, In
<1>2. \A e \in Events : e \in gone <=> Home[e] = r /\ (emit[e] \in {"running", "waiting"}
                                                       \/ e = cur[r] \/ In(e, queue[r]))
  BY DEF On
<1> HIDE DEF gone
<1>3. \A e \in Events : Home[e] = r /\ (e = cur[r] \/ In(e, queue[r])) => emit[e] = "returned"
  BY DEF Places
<1>4. /\ queue'[r] = <<>> /\ waiting'[r] = <<>>
      /\ phase'[r] = "stopped" /\ \A q \in Replicas : q # r => phase'[q] = phase[q]
      /\ \A q \in Replicas : q # r => queue'[q] = queue[q] /\ waiting'[q] = waiting[q]
  BY <1>1 DEF Shape
<1>5. ASSUME NEW e \in Events
      PROVE  /\ Home[e] # r => emit'[e] = emit[e] /\ lost'[e] = lost[e]
             /\ emit[e] \in {"absent", "idle", "returned", "panicked"} => emit'[e] = emit[e]
             /\ Home[e] = r /\ emit[e] \in {"running", "waiting"} =>
                   emit'[e] = "panicked" /\ lost'[e] = why
             /\ Home[e] = r /\ (cur[r] = e \/ In(e, queue[r])) => lost'[e] = why
             /\ lost'[e] # lost[e] =>
                   /\ lost'[e] = why
                   /\ emit[e] \in {"running", "waiting"} \/ cur[r] = e \/ In(e, queue[r])
  BY <1>1, <1>2, <1>3
<1> QED
  BY <1>1, <1>4, <1>5

LEMMA StopKeepsPlaces ==
    ASSUME Shape, Places, NEW r \in Replicas, NEW why \in {"crash", "forced", "late", "panic"},
           Stop(r, why)
    PROVE  Places'
<1>1. /\ queue'[r] = <<>> /\ waiting'[r] = <<>> /\ Ends(r) /\ rows' = rows
      /\ \A q \in Replicas : q # r => queue'[q] = queue[q] /\ waiting'[q] = waiting[q]
  BY StopFacts
<1>2. \A e \in Events :
         /\ Home[e] # r => emit'[e] = emit[e]
         /\ emit[e] = "returned" => emit'[e] = "returned"
         /\ emit'[e] = "waiting" => emit[e] = "waiting" /\ Home[e] # r
  <2> SUFFICES ASSUME NEW e \in Events
               PROVE  /\ Home[e] # r => emit'[e] = emit[e]
                      /\ emit[e] = "returned" => emit'[e] = "returned"
                      /\ emit'[e] = "waiting" => emit[e] = "waiting" /\ Home[e] # r
    OBVIOUS
  <2>1. emit[e] \in {"absent", "idle", "running", "waiting", "returned", "panicked"}
    BY DEF Shape
  <2> QED
    BY <2>1, StopFacts
<1>3. cur'[r] = NoEvent /\ \A q \in Replicas : q # r => cur'[q] = cur[q]
  BY <1>1, EndsFacts
<1>4. ASSUME NEW q \in Replicas
      PROVE  /\ Distinct(waiting'[q])
             /\ \A d \in Events : In(d, waiting'[q]) => Belongs(d, q) /\ emit'[d] = "waiting"
             /\ Distinct(queue'[q])
             /\ \A d \in Events : In(d, queue'[q]) => Belongs(d, q) /\ emit'[d] = "returned" /\ cur'[q] # d
             /\ cur'[q] \in Events => Belongs(cur'[q], q) /\ emit'[cur'[q]] = "returned"
  <2>1. CASE q = r
    BY <1>1, <1>3, <2>1, NothingIn, EmptyIsFine
  <2>2. CASE q # r
    <3>1. queue'[q] = queue[q] /\ waiting'[q] = waiting[q] /\ cur'[q] = cur[q]
      BY <1>1, <1>3, <2>2
    <3> QED
      BY <1>2, <2>2, <3>1 DEF Places, Belongs
  <2> QED
    BY <2>1, <2>2
<1>5. ASSUME NEW d \in Events, emit'[d] = "waiting" PROVE In(d, waiting'[Home[d]])
  BY <1>1, <1>2, <1>5 DEF Places
<1>6. ASSUME NEW t \in Tenants, NEW x \in rows[t]
      PROVE  /\ TenantOf[x.ev] = t /\ emit'[x.ev] = "returned"
             /\ \A q \in Replicas : cur'[q] # x.ev /\ ~In(x.ev, queue'[q])
             /\ \A y \in rows[t] : x.ev = y.ev => x = y
  <2>1. x.ev \in Events /\ emit'[x.ev] = "returned"
    BY <1>2 DEF Shape, Row, Places
  <2>2. ASSUME NEW q \in Replicas PROVE cur'[q] # x.ev /\ ~In(x.ev, queue'[q])
    <3>1. CASE q = r
      BY <1>1, <1>3, <2>1, <3>1, NothingIn
    <3>2. CASE q # r
      BY <1>1, <1>3, <3>2 DEF Places
    <3> QED
      BY <3>1, <3>2
  <2> QED
    BY <2>1, <2>2 DEF Places
<1> QED
  BY <1>1, <1>4, <1>5, <1>6 DEF Places

LEMMA CloseFacts ==
    ASSUME Shape, NEW r \in Replicas, NEW ph \in {"closed", "cut"}, CloseQueue(r, ph)
    PROVE  /\ waiting'[r] = <<>> /\ \A q \in Replicas : q # r => waiting'[q] = waiting[q]
           /\ phase'[r] = ph /\ \A q \in Replicas : q # r => phase'[q] = phase[q]
           /\ UNCHANGED <<queue, cur, rows, counted, pc, tip, lock>>
           /\ \A e \in Events :
                 /\ Home[e] = r /\ emit[e] = "waiting" => emit'[e] = "panicked" /\ lost'[e] = LossWhen(ph)
                 /\ ~(Home[e] = r /\ emit[e] = "waiting") => emit'[e] = emit[e] /\ lost'[e] = lost[e]
  BY DEF CloseQueue, On, Shape

LEMMA CloseKeepsPlaces ==
    ASSUME Shape, Places, NEW r \in Replicas, NEW ph \in {"closed", "cut"}, CloseQueue(r, ph)
    PROVE  Places'
<1>1. /\ waiting'[r] = <<>> /\ \A q \in Replicas : q # r => waiting'[q] = waiting[q]
      /\ UNCHANGED <<queue, cur, rows>>
  BY CloseFacts
<1>2. \A e \in Events :
         /\ Home[e] # r => emit'[e] = emit[e]
         /\ emit[e] = "returned" => emit'[e] = "returned"
         /\ emit'[e] = "waiting" => emit[e] = "waiting" /\ Home[e] # r
  BY CloseFacts
<1>3. ASSUME NEW q \in Replicas
      PROVE  /\ Distinct(waiting'[q])
             /\ \A d \in Events : In(d, waiting'[q]) => Belongs(d, q) /\ emit'[d] = "waiting"
  <2>1. CASE q = r
    BY <1>1, <2>1, NothingIn, EmptyIsFine
  <2>2. CASE q # r
    <3>1. waiting'[q] = waiting[q]
      BY <1>1, <2>2
    <3> QED
      BY <1>2, <2>2, <3>1 DEF Places, Belongs
  <2> QED
    BY <2>1, <2>2
<1>4. ASSUME NEW d \in Events, emit'[d] = "waiting" PROVE In(d, waiting'[Home[d]])
  BY <1>1, <1>2, <1>4 DEF Places
<1>5. ASSUME NEW t \in Tenants, NEW x \in rows[t] PROVE emit'[x.ev] = "returned"
  BY <1>2 DEF Shape, Row, Places
<1> QED
  BY <1>1, <1>2, <1>3, <1>4, <1>5 DEF Places

LEMMA StartPlaces == Init => Places
  BY NothingIn, EmptyIsFine DEF Init, Places

(* The kinds of step there are.                                            *)
Dies(r, why) ==
    /\ Stop(r, why) /\ stops' \in 0 .. MaxStops
    /\ why = "late" => phase[r] = "closed" /\ queue[r] = <<>> /\ cur[r] = NoEvent
Closes(r, ph) == phase[r] = "draining" /\ CloseQueue(r, ph) /\ (ph = "closed" => Drained(r))
Drops(r) == AppendTimesOut(r) \/ AppendFails(r)
Works(r) == Begin(r) \/ LockAuditChain(r) \/ ReadTip(r)
Signs == (\E t \in Tenants : AnchorRead(t)) \/ AnchorInsert
Reasons == {"crash", "forced", "late", "panic"}

LEMMA NextCases ==
    ASSUME Shape, Next
    PROVE  \/ \E e \in Events : Start(e) \/ Emit(e) \/ ContextDone(e)
           \/ \E r \in Replicas : Receive(r) \/ Works(r) \/ InsertAudit(r) \/ Drops(r)
           \/ \E r \in Replicas : \E why \in Reasons : Dies(r, why)
           \/ \E r \in Replicas : \E ph \in {"closed", "cut"} : Closes(r, ph)
           \/ \E r \in Replicas : Shutdown(r) \/ Restart(r)
           \/ Signs \/ Tick
<1>1. ASSUME NEW r \in Replicas,
             \/ \E e \in Events : Home[e] = r /\ EmitKills(e)
             \/ DrainedClose(r) \/ ForcedClose(r) \/ Exit(r) \/ Crash(r)
      PROVE  (\E why \in Reasons : Dies(r, why)) \/ \E ph \in {"closed", "cut"} : Closes(r, ph)
  BY <1>1, Endings, Zenon DEF Dies, Closes, Reasons
<1>2. ASSUME NEW e \in Events, EmitKills(e)
      PROVE  \E r \in Replicas : \E d \in Events : Home[d] = r /\ EmitKills(d)
  <2>1. Home[e] \in Replicas
    OBVIOUS
  <2> QED
    BY <1>2, <2>1, Zenon
<1>3. ASSUME \E r \in Replicas :
             \/ \E e \in Events : Home[e] = r /\ EmitKills(e)
             \/ DrainedClose(r) \/ ForcedClose(r) \/ Exit(r) \/ Crash(r)
      PROVE  \E r \in Replicas : (\E why \in Reasons : Dies(r, why))
                              \/ \E ph \in {"closed", "cut"} : Closes(r, ph)
  BY <1>1, <1>3, Zenon
<1>4. \/ \E e \in Events : Start(e) \/ Emit(e) \/ ContextDone(e) \/ EmitKills(e)
      \/ \E r \in Replicas : Receive(r) \/ Works(r) \/ InsertAudit(r) \/ Drops(r)
      \/ \E r \in Replicas : DrainedClose(r) \/ ForcedClose(r) \/ Exit(r) \/ Crash(r)
      \/ \E r \in Replicas : Shutdown(r) \/ Restart(r)
      \/ Signs \/ Tick
  BY Zenon DEF Next, Works, Drops, Signs
<1> QED
  BY <1>2, <1>3, <1>4, Zenon

LEMMA EmitKeepsPlaces ==
    ASSUME Shape, Places, NEW e \in Events, Start(e) \/ Emit(e) \/ ContextDone(e)
    PROVE  Places'
<1>1. CASE Start(e)
  BY <1>1, QuietEmitKeepsPlaces DEF Start
<1>2. CASE Emit(e)
  <2>1. emit[e] = "running" /\ UNCHANGED <<cur, rows>>
    BY <1>2, EmitCases
  <2>2. CASE Counts(e)
    BY <2>1, <2>2, QuietEmitKeepsPlaces DEF Counts
  <2>3. CASE Panics(e)
    BY <2>1, <2>3, QuietEmitKeepsPlaces DEF Panics
  <2>4. CASE Sends(e)
    BY <2>1, <2>4, SendKeepsPlaces
  <2>5. CASE Blocks(e)
    BY <2>1, <2>5, BlockKeepsPlaces
  <2> QED
    BY <1>2, <2>2, <2>3, <2>4, <2>5, EmitCases
<1>3. CASE ContextDone(e)
  <2>1. UNCHANGED <<cur, rows>>
    BY <1>3 DEF ContextDone
  <2> QED
    BY <1>3, <2>1, BlockKeepsPlaces
<1> QED
  BY <1>1, <1>2, <1>3

LEMMA DropFacts ==
    ASSUME NEW r \in Replicas, Drops(r)
    PROVE  /\ Ends(r) /\ counted' = counted \cup {cur[r]}
           /\ UNCHANGED <<emitters, anchorjob, phase, rows, lost, now, stops>>
  BY DEF Drops, AppendTimesOut, AppendFails, CountDropped

LEMMA WorkFacts ==
    ASSUME NEW r \in Replicas, Works(r)
    PROVE  UNCHANGED <<emitters, cur, anchorjob, phase, rows, counted, lost, now, stops>>
  BY DEF Works, Begin, LockAuditChain, ReadTip

LEMMA OtherFacts ==
    ASSUME Signs \/ Tick \/ \E r \in Replicas : Shutdown(r) \/ Restart(r)
    PROVE  UNCHANGED <<emitters, worker, rows, counted, lost>>
  BY DEF Signs, Tick, Shutdown, Restart, AnchorRead, AnchorInsert

LEMMA ShapeKept ==
    ASSUME Shape, Places, Linked, Next
    PROVE  Shape'
<1>1. ASSUME NEW e \in Events, Start(e) \/ Emit(e) \/ ContextDone(e) PROVE Shape'
  BY <1>1, EmitKeepsShape
<1>2. ASSUME NEW r \in Replicas, Receive(r) \/ Works(r) \/ InsertAudit(r) \/ Drops(r) PROVE Shape'
  BY <1>2, WorkKeepsShape, EndKeepsShape DEF Works, Drops
<1>3. ASSUME NEW r \in Replicas, NEW why \in Reasons, Dies(r, why) PROVE Shape'
  BY <1>3, StopKeepsShape DEF Dies, Reasons
<1>4. ASSUME NEW r \in Replicas, NEW ph \in {"closed", "cut"}, Closes(r, ph) PROVE Shape'
  BY <1>4, CloseKeepsShape DEF Closes
<1>5. ASSUME Signs \/ Tick \/ \E r \in Replicas : Shutdown(r) \/ Restart(r) PROVE Shape'
  BY <1>5, OthersKeepShape DEF Signs
<1> QED
  BY <1>1, <1>2, <1>3, <1>4, <1>5, NextCases, Zenon

LEMMA PlacesKept ==
    ASSUME Shape, Places, Next
    PROVE  Places'
<1>1. ASSUME NEW e \in Events, Start(e) \/ Emit(e) \/ ContextDone(e) PROVE Places'
  BY <1>1, EmitKeepsPlaces
<1>2. ASSUME NEW r \in Replicas, Receive(r) \/ Works(r) \/ InsertAudit(r) \/ Drops(r) PROVE Places'
  <2>1. CASE Works(r)
    BY <2>1, WorkFacts, StillKeepsPlaces
  <2>2. CASE Drops(r)
    BY <2>2, DropFacts, DropKeepsPlaces
  <2> QED
    BY <1>2, <2>1, <2>2, ReceiveKeepsPlaces, InsertKeepsPlaces
<1>3. ASSUME NEW r \in Replicas, NEW why \in Reasons, Dies(r, why) PROVE Places'
  BY <1>3, StopKeepsPlaces DEF Dies, Reasons
<1>4. ASSUME NEW r \in Replicas, NEW ph \in {"closed", "cut"}, Closes(r, ph) PROVE Places'
  BY <1>4, CloseKeepsPlaces DEF Closes
<1>5. ASSUME Signs \/ Tick \/ \E r \in Replicas : Shutdown(r) \/ Restart(r) PROVE Places'
  BY <1>5, OtherFacts, StillKeepsPlaces
<1> QED
  BY <1>1, <1>2, <1>3, <1>4, <1>5, NextCases, Zenon

-----------------------------------------------------------------------------
(* No event is lost without a count.                                       *)

LEMMA RowsGrow ==
    ASSUME Shape, Places, Next, NEW t \in Tenants
    PROVE  rows[t] \subseteq rows'[t]
<1>1. ASSUME NEW r \in Replicas, InsertAudit(r) PROVE rows[t] \subseteq rows'[t]
  BY <1>1, InsertFacts
<1>2. ASSUME \A r \in Replicas : ~InsertAudit(r) PROVE rows' = rows
  <2>1. ASSUME NEW e \in Events, Start(e) \/ Emit(e) \/ ContextDone(e) PROVE rows' = rows
    BY <2>1 DEF Start, Emit, ContextDone
  <2>2. ASSUME NEW r \in Replicas, Receive(r) \/ Works(r) \/ Drops(r) PROVE rows' = rows
    BY <2>2, WorkFacts, DropFacts DEF Receive
  <2>3. ASSUME NEW r \in Replicas, NEW why \in Reasons, Dies(r, why) PROVE rows' = rows
    BY <2>3 DEF Dies, Stop
  <2>4. ASSUME NEW r \in Replicas, NEW ph \in {"closed", "cut"}, Closes(r, ph) PROVE rows' = rows
    BY <2>4 DEF Closes, CloseQueue
  <2>5. ASSUME Signs \/ Tick \/ \E r \in Replicas : Shutdown(r) \/ Restart(r) PROVE rows' = rows
    BY <2>5, OtherFacts
  <2> QED
    BY <1>2, <2>1, <2>2, <2>3, <2>4, <2>5, NextCases, Zenon
<1> QED
  BY <1>1, <1>2

LEMMA StoredStays ==
    ASSUME Shape, Places, Next, NEW e, Stored(e)
    PROVE  Stored(e)'
  BY RowsGrow DEF Stored

LEMMA AccountedKept ==
    ASSUME Shape, Places, Accounted, Next
    PROVE  Accounted'
<1> SUFFICES ASSUME NEW d \in Events
             PROVE  /\ emit'[d] = "returned" =>
                          \/ In(d, queue'[Home[d]]) \/ cur'[Home[d]] = d
                          \/ Stored(d)' \/ d \in counted' \/ lost'[d] # "no"
                    /\ emit'[d] = "panicked" => lost'[d] # "no"
  BY DEF Accounted
<1> DEFINE Fine == /\ emit'[d] = "returned" =>
                         \/ In(d, queue'[Home[d]]) \/ cur'[Home[d]] = d
                         \/ Stored(d)' \/ d \in counted' \/ lost'[d] # "no"
                   /\ emit'[d] = "panicked" => lost'[d] # "no"
<1>1. /\ emit[d] = "returned" =>
            \/ In(d, queue[Home[d]]) \/ cur[Home[d]] = d
            \/ Stored(d) \/ d \in counted \/ lost[d] # "no"
      /\ emit[d] = "panicked" => lost[d] # "no"
      /\ Home[d] \in Replicas
  BY DEF Accounted
<1>2. Stored(d) => Stored(d)'
  BY StoredStays
<1>3. ASSUME NEW e \in Events, Start(e) \/ Emit(e) \/ ContextDone(e) PROVE Fine
  <2>1. cur' = cur
    BY <1>3 DEF Start, Emit, ContextDone
  <2>2. CASE Start(e) \/ ContextDone(e)
    <3>1. UNCHANGED <<queue, counted, lost>> /\ (d # e => emit'[d] = emit[d])
          /\ emit'[e] \in {"running", "waiting"}
      BY <2>2 DEF Start, ContextDone, Shape
    <3> QED
      BY <1>1, <1>2, <2>1, <3>1
  <2>3. CASE Counts(e)
    <3>1. UNCHANGED <<queue, lost>> /\ counted' = counted \cup {e} /\ (d # e => emit'[d] = emit[d])
          /\ emit'[e] = "returned"
      BY <2>3 DEF Counts, Shape
    <3> QED
      BY <1>1, <1>2, <2>1, <3>1
  <2>4. CASE Panics(e)
    <3>1. UNCHANGED <<queue, counted>> /\ (d # e => emit'[d] = emit[d] /\ lost'[d] = lost[d])
          /\ emit'[e] = "panicked" /\ lost'[e] # "no"
      BY <2>4 DEF Panics, Shape, LossWhen
    <3> QED
      BY <1>1, <1>2, <2>1, <3>1
  <2>5. CASE Sends(e)
    <3>1. UNCHANGED <<counted, lost>> /\ (d # e => emit'[d] = emit[d]) /\ emit'[e] = "returned"
      BY <2>5 DEF Sends, Shape
    <3>2. queue[Home[e]] \in Seq(Events) /\ queue'[Home[e]] = Append(queue[Home[e]], e)
          /\ \A q \in Replicas : q # Home[e] => queue'[q] = queue[q]
      BY <2>5 DEF Sends, Shape
    <3>3. \A x : In(x, queue'[Home[e]]) <=> In(x, queue[Home[e]]) \/ x = e
      BY <3>2, AppendFacts
    <3>4. (In(d, queue[Home[d]]) => In(d, queue'[Home[d]])) /\ (d = e => In(d, queue'[Home[d]]))
      BY <1>1, <3>2, <3>3
    <3> QED
      BY <1>1, <1>2, <2>1, <3>1, <3>4
  <2>6. CASE Blocks(e)
    <3>1. UNCHANGED <<queue, counted, lost>> /\ (d # e => emit'[d] = emit[d]) /\ emit'[e] = "waiting"
      BY <2>6 DEF Blocks, Shape
    <3> QED
      BY <1>1, <1>2, <2>1, <3>1
  <2> QED
    BY <1>3, <2>2, <2>3, <2>4, <2>5, <2>6, EmitCases
<1>4. ASSUME NEW r \in Replicas, Receive(r) PROVE Fine
  <2>1. UNCHANGED <<counted, lost>>
    BY <1>4 DEF Receive
  <2>2. PICK h \in Events :
            /\ cur[r] = NoEvent /\ cur' = [cur EXCEPT ![r] = h]
            /\ \A q \in Replicas : q # r => queue'[q] = queue[q]
            /\ \A x : In(x, queue[r]) <=> x = h \/ In(x, Tail(queue[r]))
            /\ Tail(queue[r]) \in Seq(Events)
            /\ \/ queue'[r] = Tail(queue[r]) /\ UNCHANGED emit
               \/ \E w \in Events : /\ In(w, waiting[r]) /\ Returns(w)
                                    /\ queue'[r] = Append(Tail(queue[r]), w)
    BY <1>4, ReceiveCases, ZenonT(40)
  <2>3. cur'[r] = h /\ \A q \in Replicas : q # r => cur'[q] = cur[q]
    BY <2>2 DEF Shape
  <2>4. In(d, queue[Home[d]]) \/ cur[Home[d]] = d =>
            \/ In(d, queue'[Home[d]]) \/ cur'[Home[d]] = d
            \/ (Home[d] = r /\ In(d, Tail(queue[r])))
    BY <1>1, <2>2, <2>3
  <2>5. CASE queue'[r] = Tail(queue[r]) /\ UNCHANGED emit
    BY <1>1, <1>2, <2>1, <2>4, <2>5
  <2>6. ASSUME NEW w \in Events, In(w, waiting[r]), Returns(w), queue'[r] = Append(Tail(queue[r]), w)
        PROVE  Fine
    <3>1. \A x : In(x, queue'[r]) <=> In(x, Tail(queue[r])) \/ x = w
      <4>1. Tail(queue[r]) \in Seq(Events)
        BY <2>2
      <4>2. \A x : In(x, Append(Tail(queue[r]), w)) <=> In(x, Tail(queue[r])) \/ x = w
        BY <4>1, AppendFacts
      <4> QED
        BY <2>6, <4>2
    <3>2. Home[w] = r /\ emit'[w] = "returned" /\ (d # w => emit'[d] = emit[d])
      BY <2>6 DEF Places, Belongs, Shape
    <3> QED
      BY <1>1, <1>2, <2>1, <2>4, <3>1, <3>2
  <2> QED
    BY <2>2, <2>5, <2>6
<1>5. ASSUME NEW r \in Replicas, Works(r) PROVE Fine
  BY <1>1, <1>2, <1>5, WorkFacts
<1>6. ASSUME NEW r \in Replicas, InsertAudit(r) PROVE Fine
  <2>1. UNCHANGED <<emit, queue, lost>> /\ Ends(r)
    BY <1>6, InsertFacts
  <2>2. \A q \in Replicas : q # r => cur'[q] = cur[q]
    BY <2>1, EndsFacts
  <2>3. cur[r] = d => Stored(d)'
    <3>1. TenantOf[cur[r]] \in Tenants /\ NextRow(r).ev = cur[r] /\ NextRow(r) \in rows'[TenantOf[cur[r]]]
      BY <1>6, InsertFacts
    <3> QED
      BY <3>1 DEF Stored
  <2>4. counted \subseteq counted'
    BY <1>6 DEF InsertAudit
  <2> QED
    BY <1>1, <1>2, <2>1, <2>2, <2>3, <2>4
<1>7. ASSUME NEW r \in Replicas, Drops(r) PROVE Fine
  <2>1. UNCHANGED <<emit, queue, lost>> /\ Ends(r) /\ counted' = counted \cup {cur[r]}
    BY <1>7, DropFacts
  <2>2. \A q \in Replicas : q # r => cur'[q] = cur[q]
    BY <2>1, EndsFacts
  <2> QED
    BY <1>1, <1>2, <2>1, <2>2
<1>8. ASSUME NEW r \in Replicas, NEW why \in Reasons, Dies(r, why) PROVE Fine
  <2>1. why # "no" /\ why \in {"crash", "forced", "late", "panic"} /\ Stop(r, why)
    BY <1>8 DEF Reasons, Dies
  <2>2. /\ Ends(r) /\ counted' = counted
        /\ \A q \in Replicas : q # r => queue'[q] = queue[q]
        /\ Home[d] # r => emit'[d] = emit[d] /\ lost'[d] = lost[d]
        /\ emit[d] \in {"absent", "idle", "returned", "panicked"} => emit'[d] = emit[d]
        /\ Home[d] = r /\ emit[d] \in {"running", "waiting"} =>
              emit'[d] = "panicked" /\ lost'[d] = why
        /\ Home[d] = r /\ (cur[r] = d \/ In(d, queue[r])) => lost'[d] = why
        /\ lost'[d] # lost[d] => lost'[d] = why
    BY <2>1, StopFacts
  <2>3. \A q \in Replicas : q # r => cur'[q] = cur[q]
    BY <2>2, EndsFacts
  <2>4. emit[d] \in {"absent", "idle", "running", "waiting", "returned", "panicked"}
    BY DEF Shape
  <2>5. CASE Home[d] = r
    BY <1>1, <1>2, <2>1, <2>2, <2>4, <2>5
  <2>6. CASE Home[d] # r
    BY <1>1, <1>2, <2>2, <2>3, <2>6
  <2> QED
    BY <2>5, <2>6
<1>9. ASSUME NEW r \in Replicas, NEW ph \in {"closed", "cut"}, Closes(r, ph) PROVE Fine
  <2>1. /\ UNCHANGED <<queue, cur, counted>> /\ LossWhen(ph) # "no"
        /\ Home[d] = r /\ emit[d] = "waiting" => emit'[d] = "panicked" /\ lost'[d] = LossWhen(ph)
        /\ ~(Home[d] = r /\ emit[d] = "waiting") => emit'[d] = emit[d] /\ lost'[d] = lost[d]
    BY <1>9, CloseFacts DEF Closes, LossWhen
  <2> QED
    BY <1>1, <1>2, <2>1
<1>10. ASSUME Signs \/ Tick \/ \E r \in Replicas : Shutdown(r) \/ Restart(r) PROVE Fine
  BY <1>1, <1>2, <1>10, OtherFacts
<1> HIDE DEF Fine
<1>11. Fine
  BY <1>3, <1>4, <1>5, <1>6, <1>7, <1>8, <1>9, <1>10, NextCases, Zenon
<1> QED
  BY <1>11 DEF Fine

-----------------------------------------------------------------------------
(* A shutdown within its grace loses no request's event.                   *)

(* How a step moves an operation along.                                    *)
LEMMA EmitMoves ==
    ASSUME Shape, Places, Next, NEW d \in Events
    PROVE  /\ emit[d] = "returned" => emit'[d] = "returned"
           /\ emit[d] \notin {"absent", "idle"} => emit'[d] \notin {"absent", "idle"}
           /\ emit'[d] \notin {"absent", "idle"} /\ emit[d] \in {"absent", "idle"} => Start(d)
           /\ emit'[d] \in {"running", "waiting"} =>
                 emit[d] \in {"running", "waiting"} \/ Start(d)
<1> DEFINE Fine == /\ emit[d] = "returned" => emit'[d] = "returned"
                   /\ emit[d] \notin {"absent", "idle"} => emit'[d] \notin {"absent", "idle"}
                   /\ emit'[d] \notin {"absent", "idle"} /\ emit[d] \in {"absent", "idle"} => Start(d)
                   /\ emit'[d] \in {"running", "waiting"} =>
                         emit[d] \in {"running", "waiting"} \/ Start(d)
<1>1. emit[d] \in {"absent", "idle", "running", "waiting", "returned", "panicked"}
  BY DEF Shape
<1>2. ASSUME NEW e \in Events, Start(e) \/ Emit(e) \/ ContextDone(e) PROVE Fine
  <2>1. CASE Start(e)
    <3>1. emit[e] = "idle" /\ emit'[e] = "running" /\ (d # e => emit'[d] = emit[d])
      BY <2>1 DEF Start, Shape
    <3> QED
      BY <1>1, <2>1, <3>1
  <2>2. CASE ContextDone(e)
    BY <1>1, <2>2 DEF ContextDone
  <2>3. CASE Emit(e)
    <3>1. \E v \in {"returned", "panicked", "waiting"} : emit' = [emit EXCEPT ![e] = v]
      BY <2>3, EmitCases DEF Counts, Panics, Sends, Blocks
    <3>2. emit[e] = "running"
      BY <2>3, EmitCases
    <3>3. CASE d = e
      BY <3>1, <3>2, <3>3 DEF Shape
    <3>4. CASE d # e
      BY <1>1, <3>1, <3>4 DEF Shape
    <3> QED
      BY <3>3, <3>4
  <2> QED
    BY <1>2, <2>1, <2>2, <2>3
<1>3. ASSUME NEW r \in Replicas, Receive(r) PROVE Fine
  <2>1. emit' = emit \/ \E w \in Events : In(w, waiting[r]) /\ Returns(w)
    BY <1>3, ReceiveCases, Zenon
  <2>2. ASSUME NEW w \in Events, In(w, waiting[r]), Returns(w) PROVE Fine
    BY <1>1, <2>2 DEF Places, Shape
  <2> QED
    BY <1>1, <2>1, <2>2
<1>4. ASSUME NEW r \in Replicas, Works(r) \/ InsertAudit(r) \/ Drops(r) PROVE Fine
  <2>1. emit' = emit
    BY <1>4, WorkFacts, InsertFacts, DropFacts
  <2> QED
    BY <1>1, <2>1
<1>5. ASSUME NEW r \in Replicas, NEW why \in Reasons, Dies(r, why) PROVE Fine
  <2>1. /\ Home[d] # r => emit'[d] = emit[d]
        /\ emit[d] \in {"absent", "idle", "returned", "panicked"} => emit'[d] = emit[d]
        /\ Home[d] = r /\ emit[d] \in {"running", "waiting"} => emit'[d] = "panicked"
    BY <1>5, StopFacts DEF Reasons, Dies
  <2> QED
    BY <1>1, <2>1
<1>6. ASSUME NEW r \in Replicas, NEW ph \in {"closed", "cut"}, Closes(r, ph) PROVE Fine
  <2>1. /\ Home[d] = r /\ emit[d] = "waiting" => emit'[d] = "panicked"
        /\ ~(Home[d] = r /\ emit[d] = "waiting") => emit'[d] = emit[d]
    BY <1>6, CloseFacts DEF Closes
  <2> QED
    BY <1>1, <2>1
<1>7. ASSUME Signs \/ Tick \/ \E r \in Replicas : Shutdown(r) \/ Restart(r) PROVE Fine
  <2>1. emit' = emit
    BY <1>7, OtherFacts
  <2> QED
    BY <1>1, <2>1
<1> HIDE DEF Fine
<1>8. Fine
  BY <1>2, <1>3, <1>4, <1>5, <1>6, <1>7, NextCases, Zenon
<1> QED
  BY <1>8 DEF Fine

(* A step that closes a queue in an orderly way finds its replica drained, *)
(* and no other makes a phase "closed".                                    *)
LEMMA PhaseMoves ==
    ASSUME Shape, Places, Next, NEW q \in Replicas, phase'[q] = "closed"
    PROVE  /\ phase[q] = "closed" \/ Drained(q)
           /\ \A e \in On(q) : ~Start(e)
<1> DEFINE Fine == (phase[q] = "closed" \/ Drained(q)) /\ \A e \in On(q) : ~Start(e)
<1>1. (\E e \in On(q) : Start(e)) => phase[q] = "up" /\ phase' = phase
  BY DEF On, Start
<1>2. \A e \in On(q) : ~Start(e)
  BY <1>1
<1>3. ASSUME UNCHANGED phase PROVE Fine
  BY <1>2, <1>3
<1>4. ASSUME NEW e \in Events, Start(e) \/ Emit(e) \/ ContextDone(e) PROVE Fine
  BY <1>3, <1>4 DEF Start, Emit, ContextDone
<1>5. ASSUME NEW r \in Replicas, Receive(r) \/ Works(r) \/ InsertAudit(r) \/ Drops(r) PROVE Fine
  BY <1>3, <1>5, WorkFacts, InsertFacts, DropFacts DEF Receive
<1>6. ASSUME NEW r \in Replicas, NEW why \in Reasons, Dies(r, why) PROVE Fine
  <2>1. phase'[r] = "stopped" /\ (q # r => phase'[q] = phase[q])
    BY <1>6, StopFacts DEF Reasons, Dies
  <2> QED
    BY <1>2, <2>1
<1>7. ASSUME NEW r \in Replicas, NEW ph \in {"closed", "cut"}, Closes(r, ph) PROVE Fine
  <2>1. phase'[r] = ph /\ (q # r => phase'[q] = phase[q]) /\ (ph = "closed" => Drained(r))
    BY <1>7, CloseFacts DEF Closes
  <2> QED
    BY <1>2, <2>1
<1>8. ASSUME NEW r \in Replicas, Shutdown(r) \/ Restart(r) PROVE Fine
  <2>1. phase'[r] \in {"draining", "up"} /\ (q # r => phase'[q] = phase[q])
    BY <1>8 DEF Shutdown, Restart, Shape
  <2> QED
    BY <1>2, <2>1
<1>9. ASSUME Signs \/ Tick PROVE Fine
  BY <1>3, <1>9 DEF Signs, Tick, AnchorRead, AnchorInsert
<1> HIDE DEF Fine
<1>10. Fine
  BY <1>4, <1>5, <1>6, <1>7, <1>8, <1>9, NextCases, Zenon
<1> QED
  BY <1>10 DEF Fine

LEMMA OrderlyCloseKept ==
    ASSUME Shape, Places, OrderlyClose, Next
    PROVE  OrderlyClose'
<1>1. ASSUME NEW q \in Replicas, phase'[q] = "closed" PROVE Drained(q)'
  <2>1. Drained(q) /\ \A e \in On(q) : ~Start(e)
    BY <1>1, PhaseMoves DEF OrderlyClose
  <2>2. ASSUME NEW e \in On(q), emit'[e] \in {"running", "waiting"} PROVE e \in InFlight(q)
    BY <2>1, <2>2, EmitMoves DEF On, InFlight
  <2> QED
    BY <2>1, <2>2 DEF Drained, InFlight, On
<1>2. ASSUME NEW d \in Events \ (Jobs \cup Detached) PROVE lost'[d] # "late"
  <2>1. /\ lost[d] # "late" /\ Home[d] \in Replicas /\ d \in Events
        /\ phase[Home[d]] = "closed" => emit[d] \notin {"running", "waiting"}
        /\ Drained(Home[d]) => emit[d] \notin {"running", "waiting"}
    BY DEF OrderlyClose, DrainKeepsRequests, Drained, InFlight, On
  <2>2. ASSUME UNCHANGED lost PROVE lost'[d] # "late"
    BY <2>1, <2>2
  <2>3. ASSUME NEW e \in Events, Start(e) \/ Emit(e) \/ ContextDone(e) PROVE lost'[d] # "late"
    <3>1. CASE Panics(e) /\ emit[e] = "running"
      <4>1. d # e => lost'[d] = lost[d]
        BY <3>1 DEF Panics, Shape
      <4>2. d = e => lost'[d] = LossWhen(phase[Home[d]]) /\ Closed(Home[d])
        BY <3>1 DEF Panics, Shape
      <4> QED
        BY <2>1, <3>1, <4>1, <4>2 DEF LossWhen, Closed
    <3>2. CASE UNCHANGED lost
      BY <2>2, <3>2
    <3> QED
      BY <2>3, <3>1, <3>2, EmitCases DEF Start, ContextDone, Counts, Sends, Blocks
  <2>4. ASSUME NEW r \in Replicas, Receive(r) \/ Works(r) \/ InsertAudit(r) \/ Drops(r)
        PROVE  lost'[d] # "late"
    BY <2>2, <2>4, WorkFacts, InsertFacts, DropFacts DEF Receive
  <2>5. ASSUME NEW r \in Replicas, NEW why \in Reasons, Dies(r, why) PROVE lost'[d] # "late"
    <3>1. /\ Home[d] # r => lost'[d] = lost[d]
          /\ lost'[d] # lost[d] =>
                lost'[d] = why /\ (emit[d] \in {"running", "waiting"} \/ cur[r] = d \/ In(d, queue[r]))
      BY <2>1, <2>5, StopFacts DEF Reasons, Dies
    <3>2. why = "late" => phase[r] = "closed" /\ queue[r] = <<>> /\ cur[r] = NoEvent
      BY <2>5 DEF Dies
    <3>3. why = "late" => ~In(d, queue[r]) /\ cur[r] # d
      BY <2>1, <3>2, NothingIn
    <3> QED
      BY <2>1, <3>1, <3>2, <3>3
  <2>6. ASSUME NEW r \in Replicas, NEW ph \in {"closed", "cut"}, Closes(r, ph) PROVE lost'[d] # "late"
    <3>1. /\ Home[d] = r /\ emit[d] = "waiting" => lost'[d] = LossWhen(ph)
          /\ ~(Home[d] = r /\ emit[d] = "waiting") => lost'[d] = lost[d]
          /\ ph = "closed" => Drained(r)
      BY <2>1, <2>6, CloseFacts DEF Closes
    <3> QED
      BY <2>1, <3>1 DEF LossWhen
  <2>7. ASSUME Signs \/ Tick \/ \E r \in Replicas : Shutdown(r) \/ Restart(r) PROVE lost'[d] # "late"
    BY <2>2, <2>7, OtherFacts
  <2> QED
    BY <2>3, <2>4, <2>5, <2>6, <2>7, NextCases, ZenonT(40)
<1> QED
  BY <1>1, <1>2 DEF OrderlyClose, DrainKeepsRequests

-----------------------------------------------------------------------------
(* Events reach the chain in the order of the operations they belong to.   *)

(* An event its operation has not handed over comes before none that has   *)
(* been.                                                                   *)
LEMMA NotYetBefore ==
    ASSUME Shape, Places, Behindhand, NEW w \in Events, emit[w] \in {"running", "waiting"}
    PROVE  /\ w \notin After[w]
           /\ \A x \in Events : emit[x] = "returned" => w \notin After[x]
  BY DEF Behindhand

BehindOn(r) ==
    /\ Ordered(queue[r])
    /\ cur[r] \in Events => \A d \in After[cur[r]] : ~In(d, queue[r])

BehindRows ==
    \A t \in Tenants : \A x \in rows[t] : \A d \in After[x.ev] : \A r \in Replicas :
        cur[r] # d /\ ~In(d, queue[r])

(* One sequence is another with, perhaps, an event at its end that no      *)
(* operation has handed over yet.                                          *)
LEMMA OrderedGrows ==
    ASSUME Shape, Places, Behindhand, NEW r \in Replicas, NEW s \in Seq(Events), Ordered(s),
           \A x : In(x, s) => In(x, queue[r]), NEW w \in Events, emit[w] \in {"running", "waiting"}
    PROVE  Ordered(Append(s, w)) /\ \A x : In(x, Append(s, w)) <=> In(x, s) \/ x = w
<1>1. \A x : In(x, s) => x \in Events
  BY DEF In
<1>2. \A x : In(x, s) => emit[x] = "returned"
  BY <1>1 DEF Places
<1>3. w \notin After[w] /\ \A x : In(x, s) => w \notin After[x]
  BY <1>1, <1>2, NotYetBefore
<1> QED
  BY <1>3, AppendFacts

LEMMA ReceiveKeepsBehind ==
    ASSUME Shape, Places, Behindhand, NEW r \in Replicas, Receive(r)
    PROVE  (\A q \in Replicas : BehindOn(q)') /\ BehindRows'
<1>1. rows' = rows
  BY DEF Receive
<1>2. PICK h \in Events :
          /\ In(h, queue[r]) /\ cur' = [cur EXCEPT ![r] = h]
          /\ \A q \in Replicas : q # r => queue'[q] = queue[q]
          /\ Ordered(queue[r]) => \A x : In(x, queue[r]) => x \notin After[h]
          /\ Ordered(queue[r]) => Ordered(Tail(queue[r]))
          /\ \A x : In(x, queue[r]) <=> x = h \/ In(x, Tail(queue[r]))
          /\ Tail(queue[r]) \in Seq(Events)
          /\ \/ queue'[r] = Tail(queue[r])
             \/ \E w \in Events : In(w, waiting[r]) /\ queue'[r] = Append(Tail(queue[r]), w)
  BY ReceiveCases, Zenon
<1>3. /\ cur'[r] = h /\ \A q \in Replicas : q # r => cur'[q] = cur[q] /\ queue'[q] = queue[q]
      /\ emit[h] = "returned" /\ Ordered(queue[r]) /\ Ordered(Tail(queue[r]))
      /\ \A x : In(x, queue[r]) => x \notin After[h]
      /\ \A x : In(x, Tail(queue[r])) => In(x, queue[r])
  <2>1. cur'[r] = h /\ \A q \in Replicas : q # r => cur'[q] = cur[q]
    BY <1>2 DEF Shape
  <2>2. emit[h] = "returned"
    BY <1>2 DEF Places
  <2>3. Ordered(queue[r])
    BY DEF Behindhand
  <2>4. Ordered(Tail(queue[r])) /\ \A x : In(x, queue[r]) => x \notin After[h]
    BY <1>2, <2>3, Zenon
  <2>5. \A x : In(x, Tail(queue[r])) => In(x, queue[r])
    BY <1>2, Zenon
  <2>6. \A q \in Replicas : q # r => queue'[q] = queue[q]
    BY <1>2, Zenon
  <2> QED
    BY <2>1, <2>2, <2>3, <2>4, <2>5, <2>6, Zenon
<1>4. /\ Ordered(queue'[r])
      /\ \A x : In(x, queue'[r]) => In(x, queue[r]) \/ (x \in Events /\ emit[x] = "waiting")
  <2>1. CASE queue'[r] = Tail(queue[r])
    BY <1>3, <2>1
  <2>2. ASSUME NEW w \in Events, In(w, waiting[r]), queue'[r] = Append(Tail(queue[r]), w)
        PROVE  /\ Ordered(queue'[r])
               /\ \A x : In(x, queue'[r]) => In(x, queue[r]) \/ (x \in Events /\ emit[x] = "waiting")
    <3>1. emit[w] = "waiting" /\ Tail(queue[r]) \in Seq(Events)
      BY <1>2, <2>2 DEF Places
    <3>2. /\ Ordered(Append(Tail(queue[r]), w))
          /\ \A x : In(x, Append(Tail(queue[r]), w)) <=> In(x, Tail(queue[r])) \/ x = w
      BY <1>3, <3>1, OrderedGrows
    <3> QED
      BY <1>3, <2>2, <3>1, <3>2
  <2> QED
    BY <1>2, <2>1, <2>2
<1>5. ASSUME NEW q \in Replicas PROVE BehindOn(q)'
  <2>1. CASE q = r
    <3>1. \A d \in After[h] : ~In(d, queue'[r])
      BY <1>3, <1>4, NotYetBefore
    <3> QED
      BY <1>3, <1>4, <2>1, <3>1 DEF BehindOn
  <2>2. CASE q # r
    <3>1. cur'[q] = cur[q] /\ queue'[q] = queue[q]
      BY <1>3, <2>2
    <3> QED
      BY <3>1 DEF BehindOn, Behindhand
  <2> QED
    BY <2>1, <2>2
<1>6. ASSUME NEW t \in Tenants, NEW x \in rows[t], NEW d \in After[x.ev], NEW q \in Replicas
      PROVE  cur'[q] # d /\ ~In(d, queue'[q])
  <2>1. x.ev \in Events /\ emit[x.ev] = "returned" /\ d \in Events
    <3>1. x \in Row
      BY DEF Shape
    <3>2. x.ev \in Events
      BY <3>1 DEF Row
    <3>3. emit[x.ev] = "returned"
      BY Zenon DEF Places
    <3>4. d \in Events
      BY <3>2
    <3> QED
      BY <3>2, <3>3, <3>4
  <2>2. emit[d] # "waiting"
    BY <2>1, NotYetBefore
  <2>3. \A p \in Replicas : cur[p] # d /\ ~In(d, queue[p])
    BY DEF Behindhand
  <2>4. CASE q = r
    BY <1>2, <1>3, <1>4, <2>1, <2>2, <2>3, <2>4
  <2>5. CASE q # r
    BY <1>3, <2>3, <2>5
  <2> QED
    BY <2>4, <2>5
<1> QED
  BY <1>1, <1>5, <1>6 DEF BehindRows

LEMMA EmitKeepsBehind ==
    ASSUME Shape, Places, Behindhand, NEW e \in Events, Start(e) \/ Emit(e) \/ ContextDone(e)
    PROVE  (\A q \in Replicas : BehindOn(q)') /\ BehindRows'
<1>1. UNCHANGED <<rows, cur>>
  BY DEF Start, Emit, ContextDone
<1>2. CASE queue' = queue
  BY <1>1, <1>2 DEF Behindhand, BehindOn, BehindRows
<1>3. CASE emit[e] = "running" /\ Sends(e)
  <2> DEFINE r == Home[e]
  <2>1. /\ r \in Replicas /\ queue[r] \in Seq(Events) /\ queue'[r] = Append(queue[r], e)
        /\ \A q \in Replicas : q # r => queue'[q] = queue[q]
    BY <1>3 DEF Sends, Shape
  <2>2. Ordered(queue[r])
    BY <2>1 DEF Behindhand
  <2> HIDE DEF r
  <2>3. Ordered(queue'[r]) /\ \A x : In(x, queue'[r]) <=> In(x, queue[r]) \/ x = e
    BY <1>3, <2>1, <2>2, OrderedGrows
  <2>4. ASSUME NEW q \in Replicas PROVE BehindOn(q)'
    <3>1. CASE q = r
      <4>1. cur[r] \in Events => \A d \in After[cur[r]] : ~In(d, queue[r])
        BY <2>1 DEF Behindhand
      <4>2. cur[r] \in Events => e \notin After[cur[r]]
        BY <1>3, <2>1, NotYetBefore DEF Places
      <4> QED
        BY <1>1, <2>3, <3>1, <4>1, <4>2 DEF BehindOn
    <3>2. CASE q # r
      <4>1. queue'[q] = queue[q]
        BY <2>1, <3>2
      <4> QED
        BY <1>1, <4>1 DEF BehindOn, Behindhand
    <3> QED
      BY <3>1, <3>2
  <2>5. ASSUME NEW t \in Tenants, NEW x \in rows[t], NEW d \in After[x.ev], NEW q \in Replicas
        PROVE  cur'[q] # d /\ ~In(d, queue'[q])
    <3>1. x.ev \in Events /\ emit[x.ev] = "returned"
      BY DEF Shape, Row, Places
    <3>2. d # e
      BY <1>3, <3>1, NotYetBefore
    <3>3. cur[q] # d /\ ~In(d, queue[q])
      BY DEF Behindhand
    <3> QED
      BY <1>1, <2>1, <2>3, <3>2, <3>3
  <2> QED
    BY <1>1, <2>4, <2>5 DEF BehindRows
<1> QED
  BY <1>2, <1>3, EmitCases DEF Start, ContextDone, Counts, Panics, Blocks

(* A step that takes events out of reach, and stores at most the one its   *)
(* replica holds.                                                          *)
LEMMA EndKeepsBehind ==
    ASSUME Shape, Places, Behindhand, NEW r \in Replicas, Ends(r),
           \A q \in Replicas : queue'[q] \in {queue[q], <<>>},
           \A t \in Tenants : \A x \in rows'[t] :
              x \in rows[t] \/ (cur[r] \in Events /\ x.ev = cur[r])
    PROVE  (\A q \in Replicas : BehindOn(q)') /\ BehindRows'
<1>1. cur'[r] = NoEvent /\ \A q \in Replicas : q # r => cur'[q] = cur[q]
  BY EndsFacts
<1>2. \A q \in Replicas : Ordered(queue'[q]) /\ \A x : In(x, queue'[q]) => In(x, queue[q])
  BY EmptyIsFine, NothingIn DEF Behindhand
<1>3. ASSUME NEW q \in Replicas PROVE BehindOn(q)'
  <2>1. cur'[q] \in Events => cur'[q] = cur[q]
    BY <1>1
  <2> QED
    BY <1>2, <2>1 DEF BehindOn, Behindhand
<1>4. ASSUME NEW t \in Tenants, NEW x \in rows'[t], NEW d \in After[x.ev], NEW q \in Replicas
      PROVE  cur'[q] # d /\ ~In(d, queue'[q])
  <2>1. CASE x \in rows[t]
    <3>1. x.ev \in Events /\ d \in Events
      BY <2>1 DEF Shape, Row
    <3>2. cur[q] # d /\ ~In(d, queue[q])
      BY <2>1 DEF Behindhand
    <3> QED
      BY <1>1, <1>2, <3>1, <3>2
  <2>2. CASE cur[r] \in Events /\ x.ev = cur[r]
    <3>1. d \in Events /\ Home[d] = r /\ ~In(d, queue[r])
      BY <2>2 DEF Behindhand, Places, Belongs
    <3>2. q # r => cur[q] # d /\ ~In(d, queue[q])
      BY <3>1 DEF Places, Belongs
    <3> QED
      BY <1>1, <1>2, <3>1, <3>2
  <2> QED
    BY <2>1, <2>2
<1> QED
  BY <1>3, <1>4 DEF BehindRows

LEMMA BehindhandKept ==
    ASSUME Shape, Places, Behindhand, Next
    PROVE  Behindhand'
<1>1. ASSUME NEW e \in Events, emit'[e] \notin {"absent", "idle"}
      PROVE  e \notin After[e] /\ \A d \in After[e] : emit'[d] = "returned"
  <2>1. CASE emit[e] \in {"absent", "idle"}
    <3>1. Start(e)
      BY <1>1, <2>1, EmitMoves
    <3>2. \A d \in After[e] : emit[d] = "returned"
      BY <3>1 DEF Start
    <3> QED
      BY <2>1, <3>2, EmitMoves
  <2>2. CASE emit[e] \notin {"absent", "idle"}
    BY <2>2, EmitMoves DEF Behindhand
  <2> QED
    BY <2>1, <2>2
<1> DEFINE Fine == (\A q \in Replicas : BehindOn(q)') /\ BehindRows'
<1>2. ASSUME NEW e \in Events, Start(e) \/ Emit(e) \/ ContextDone(e) PROVE Fine
  BY <1>2, EmitKeepsBehind
<1>3. ASSUME NEW r \in Replicas, Receive(r) PROVE Fine
  BY <1>3, ReceiveKeepsBehind
<1>4. ASSUME UNCHANGED <<queue, cur, rows>> PROVE Fine
  BY <1>4 DEF Behindhand, BehindOn, BehindRows
<1>5. ASSUME NEW r \in Replicas, InsertAudit(r) PROVE Fine
  <2>1. /\ Ends(r) /\ queue' = queue
        /\ \A t \in Tenants : \A x \in rows'[t] : x \in rows[t] \/ (cur[r] \in Events /\ x.ev = cur[r])
    BY <1>5, InsertFacts
  <2> QED
    BY <2>1, EndKeepsBehind
<1>6. ASSUME NEW r \in Replicas, Drops(r) PROVE Fine
  <2>1. Ends(r) /\ UNCHANGED <<queue, rows>>
    BY <1>6, DropFacts
  <2> QED
    BY <2>1, EndKeepsBehind
<1>7. ASSUME NEW r \in Replicas, NEW why \in Reasons, Dies(r, why) PROVE Fine
  <2>1. Ends(r) /\ UNCHANGED rows /\ \A q \in Replicas : queue'[q] \in {queue[q], <<>>}
    BY <1>7, StopFacts DEF Reasons, Dies
  <2> QED
    BY <2>1, EndKeepsBehind
<1>8. ASSUME NEW r \in Replicas, NEW ph \in {"closed", "cut"}, Closes(r, ph) PROVE Fine
  BY <1>4, <1>8, CloseFacts DEF Closes
<1>9. ASSUME NEW r \in Replicas, Works(r) PROVE Fine
  BY <1>4, <1>9, WorkFacts
<1>10. ASSUME Signs \/ Tick \/ \E r \in Replicas : Shutdown(r) \/ Restart(r) PROVE Fine
  BY <1>4, <1>10, OtherFacts
<1> HIDE DEF Fine
<1>11. Fine
  BY <1>2, <1>3, <1>5, <1>6, <1>7, <1>8, <1>9, <1>10, NextCases, Zenon
<1> QED
  BY <1>1, <1>11 DEF Fine, Behindhand, BehindOn, BehindRows

-----------------------------------------------------------------------------
(* The chain is extended at its tip.                                       *)

(* One more link, hashed from the last one, makes a chain again.           *)
LEMMA ChainGrows ==
    ASSUME NEW S \in SUBSET Row, Chained(S), NEW n \in Row, NEW h \in Hashes,
           \/ S = {} /\ h = Nil
           \/ \E l \in S : l.seq = Cardinality(S) /\ h = l.hash,
           n.seq = Cardinality(S) + 1, n.prev = h, n.hash = ChainHash(h, n.seq, n.ev, IdsSent(n.ev)),
           n.at \in 0 .. MaxTime
    PROVE  /\ Chained(S \cup {n}) /\ Cardinality(S \cup {n}) = Cardinality(S) + 1
           /\ n \notin S /\ \A y \in S : y.seq < n.seq
<1> DEFINE N == Cardinality(S)
           T == S \cup {n}
<1>1. N \in Nat /\ IsFiniteSet(S) /\ (S = {} => N = 0)
  BY FS_CardinalityType, FS_EmptySet DEF Chained
<1>2. \A y \in S : y.seq \in 1 .. N /\ y \in Row
  BY DEF Chained
<1>3. n \notin S /\ \A y \in S : y.seq < n.seq
  BY <1>1, <1>2
<1>4. IsFiniteSet(T) /\ Cardinality(T) = N + 1
  BY <1>1, <1>3, FS_AddElement
<1>5. Len(h) = N /\ h \in Seq(Nat \X Events \X Texts)
  BY <1>1 DEF Chained, Hashes
<1>6. \A y \in S : h[y.seq] = <<y.seq, y.ev, IdsSent(y.ev)>>
  BY <1>1, <1>2 DEF Chained
<1>7. <<n.seq, n.ev, IdsSent(n.ev)>> \in Nat \X Events \X Texts
  BY <1>1, IdsAreTexts DEF Row
<1>8. /\ Len(n.hash) = N + 1 /\ n.hash[N + 1] = <<n.seq, n.ev, IdsSent(n.ev)>>
      /\ \A i \in 1 .. N : n.hash[i] = h[i]
  BY <1>1, <1>5, <1>7 DEF ChainHash
<1>9. \A y \in T : y.seq <= n.seq => n.hash[y.seq] = <<y.seq, y.ev, IdsSent(y.ev)>>
  BY <1>1, <1>2, <1>6, <1>8
<1>10. n.seq = 1 => n.prev = Nil
  BY <1>1, <1>2 DEF Chained
<1>11. \A y \in T : y.seq + 1 = n.seq => n.prev = y.hash
  <2> SUFFICES ASSUME NEW y \in T, y.seq + 1 = n.seq PROVE n.prev = y.hash
    OBVIOUS
  <2>1. y \in S /\ y.seq = N
    BY <1>1, <1>2
  <2> QED
    BY <1>1, <2>1 DEF Chained
<1>12. ASSUME NEW x \in S
       PROVE  /\ x.hash = ChainHash(x.prev, x.seq, x.ev, IdsSent(x.ev))
              /\ x.seq = 1 => x.prev = Nil
              /\ \A y \in T : y.seq + 1 = x.seq => x.prev = y.hash
              /\ Len(x.hash) = x.seq
              /\ \A y \in T : y.seq <= x.seq => x.hash[y.seq] = <<y.seq, y.ev, IdsSent(y.ev)>>
  <2>1. ~(n.seq <= x.seq) /\ ~(n.seq + 1 = x.seq)
    BY <1>1, <1>2
  <2> QED
    BY <2>1 DEF Chained
<1>13. \A x \in T : x.seq \in 1 .. N + 1 /\ x.at \in 0 .. MaxTime
  BY <1>1 DEF Chained
<1>14. \A i \in 1 .. N + 1 : \E x \in T : x.seq = i
  <2> SUFFICES ASSUME NEW i \in 1 .. N + 1 PROVE \E x \in T : x.seq = i
    OBVIOUS
  <2>1. CASE i \in 1 .. N
    BY <2>1 DEF Chained
  <2>2. CASE i = N + 1
    BY <2>2
  <2> QED
    BY <1>1, <2>1, <2>2
<1>15. \A x, y \in T : x.seq = y.seq => x = y
  <2>1. \A x, y \in S : x.seq = y.seq => x = y
    BY DEF Chained
  <2> QED
    BY <1>1, <1>2, <2>1
<1>16. Chained(T)
  <2> HIDE DEF T
  <2>1. ASSUME NEW x \in T
        PROVE  /\ x.hash = ChainHash(x.prev, x.seq, x.ev, IdsSent(x.ev))
               /\ x.seq = 1 => x.prev = Nil
               /\ \A y \in T : y.seq + 1 = x.seq => x.prev = y.hash
               /\ Len(x.hash) = x.seq
               /\ \A y \in T : y.seq <= x.seq => x.hash[y.seq] = <<y.seq, y.ev, IdsSent(y.ev)>>
    <3>1. CASE x \in S
      BY <1>12, <3>1
    <3>2. CASE x = n
      BY <1>8, <1>9, <1>10, <1>11, <3>2
    <3> QED
      BY <3>1, <3>2 DEF T
  <2> QED
    BY <1>4, <1>13, <1>14, <1>15, <2>1 DEF Chained
<1> QED
  BY <1>3, <1>4, <1>16

LEMMA InsertGrows ==
    ASSUME Shape, Places, Linked, Locked, NEW r \in Replicas, InsertAudit(r)
    PROVE  LET t == TenantOf[cur[r]] IN
           /\ Chained(rows'[t]) /\ Cardinality(rows'[t]) = Cardinality(rows[t]) + 1
           /\ Cardinality(rows[t]) \in Nat /\ NextRow(r).seq = Cardinality(rows[t]) + 1
           /\ NextRow(r) \notin rows[t] /\ \A y \in rows[t] : y.seq < NextRow(r).seq
<1> DEFINE t == TenantOf[cur[r]]
           n == NextRow(r)
<1>1. /\ t \in Tenants /\ n \in Row /\ rows'[t] = rows[t] \cup {n} /\ pc[r] = "insert"
      /\ cur[r] \in Events
  BY InsertFacts DEF InsertAudit
<1>2. tip[r] = LastAuditEntry(t)
  BY <1>1 DEF Locked
<1>3. /\ Cardinality(rows[t]) \in Nat /\ tip[r].seq = Cardinality(rows[t]) /\ tip[r] \in Link
      /\ \/ rows[t] = {} /\ tip[r].hash = Nil
         \/ \E l \in rows[t] : l.seq = Cardinality(rows[t]) /\ tip[r].hash = l.hash
  <2>1. CASE rows[t] = {}
    <3>1. /\ Cardinality(rows[t]) \in Nat /\ tip[r].seq = Cardinality(rows[t])
          /\ tip[r] \in Link /\ tip[r] = EmptyTip
      BY <1>1, <1>2, <2>1, LastEntry, ZenonT(60)
    <3>2. tip[r].hash = Nil
      BY <3>1 DEF EmptyTip
    <3> QED
      BY <2>1, <3>1, <3>2
  <2>2. CASE rows[t] # {}
    <3>1. PICK x \in rows[t] : x.seq = Cardinality(rows[t]) /\ tip[r] = [seq |-> x.seq, hash |-> x.hash]
      BY <1>1, <1>2, <2>2, LastEntry
    <3>2. tip[r].hash = x.hash /\ tip[r].seq = x.seq
      BY <3>1
    <3> QED
      BY <1>1, <1>2, <3>1, <3>2, LastEntry
  <2> QED
    BY <2>1, <2>2
<1>4. tip[r].hash \in Hashes /\ began[r] \in 0 .. MaxTime
  BY <1>3 DEF Link, Hashes, Shape
<1>5. /\ n.seq = Cardinality(rows[t]) + 1 /\ n.prev = tip[r].hash /\ n.at = began[r]
      /\ n.hash = ChainHash(tip[r].hash, n.seq, n.ev, IdsSent(n.ev))
  <2>1. n.seq = tip[r].seq + 1 /\ n.ev = cur[r] /\ n.prev = tip[r].hash /\ n.at = began[r]
        /\ n.hash = ChainHash(tip[r].hash, tip[r].seq + 1, cur[r], IdsSent(cur[r]))
    BY DEF NextRow
  <2> QED
    BY <1>3, <2>1
<1>6. rows[t] \in SUBSET Row /\ Chained(rows[t])
  BY <1>1 DEF Shape, Linked
<1> HIDE DEF t, n
<1>7. /\ Chained(rows[t] \cup {n}) /\ Cardinality(rows[t] \cup {n}) = Cardinality(rows[t]) + 1
      /\ n \notin rows[t] /\ \A y \in rows[t] : y.seq < n.seq
  <2>1. n.at \in 0 .. MaxTime
    BY <1>4, <1>5
  <2> DEFINE S == rows[t]
             h == tip[r].hash
  <2>2. /\ S \in SUBSET Row /\ Chained(S) /\ n \in Row /\ h \in Hashes
        /\ n.seq = Cardinality(S) + 1 /\ n.prev = h /\ n.hash = ChainHash(h, n.seq, n.ev, IdsSent(n.ev))
        /\ \/ S = {} /\ h = Nil
           \/ \E l \in S : l.seq = Cardinality(S) /\ h = l.hash
    BY <1>1, <1>3, <1>4, <1>5, <1>6
  <2> HIDE DEF S, h
  <2>3. /\ Chained(S \cup {n}) /\ Cardinality(S \cup {n}) = Cardinality(S) + 1
        /\ n \notin S /\ \A y \in S : y.seq < n.seq
    BY <2>1, <2>2, ChainGrows
  <2> QED
    BY <2>3 DEF S
<1> QED
  BY <1>1, <1>3, <1>5, <1>7 DEF t, n

LEMMA RowsChange ==
    ASSUME Shape, Places, Next
    PROVE  rows' = rows \/ \E r \in Replicas : InsertAudit(r)
<1>1. ASSUME NEW e \in Events, Start(e) \/ Emit(e) \/ ContextDone(e) PROVE rows' = rows
  BY <1>1 DEF Start, Emit, ContextDone
<1>2. ASSUME NEW r \in Replicas, Receive(r) \/ Works(r) \/ Drops(r) PROVE rows' = rows
  BY <1>2, WorkFacts, DropFacts DEF Receive
<1>3. ASSUME NEW r \in Replicas, NEW why \in Reasons, Dies(r, why) PROVE rows' = rows
  BY <1>3 DEF Dies, Stop
<1>4. ASSUME NEW r \in Replicas, NEW ph \in {"closed", "cut"}, Closes(r, ph) PROVE rows' = rows
  BY <1>4 DEF Closes, CloseQueue
<1>5. ASSUME Signs \/ Tick \/ \E r \in Replicas : Shutdown(r) \/ Restart(r) PROVE rows' = rows
  BY <1>5, OtherFacts
<1> QED
  BY <1>1, <1>2, <1>3, <1>4, <1>5, NextCases, ZenonT(40)

LEMMA LinkedKept ==
    ASSUME Shape, Places, Linked, Locked, Next
    PROVE  Linked'
<1>1. ASSUME NEW r \in Replicas, InsertAudit(r) PROVE Linked'
  <2>1. Chained(rows'[TenantOf[cur[r]]]) /\ \A t \in Tenants : t # TenantOf[cur[r]] => rows'[t] = rows[t]
    BY <1>1, InsertFacts, InsertGrows
  <2>2. ASSUME NEW t \in Tenants PROVE Chained(rows'[t])
    BY <2>1 DEF Linked
  <2>3. ASSUME NEW t \in Tenants PROVE Chained(rows[t])'
    BY <2>2 DEF Chained, ChainHash
  <2> QED
    BY <2>3 DEF Linked
<1>2. CASE rows' = rows
  BY <1>2 DEF Linked, Chained, ChainHash
<1> QED
  BY <1>1, <1>2, RowsChange

LEMMA OrderKeptKept ==
    ASSUME Shape, Places, Behindhand, OrderKept, Linked, Locked, Next
    PROVE  OrderKept'
<1>1. ASSUME NEW r \in Replicas, InsertAudit(r) PROVE OrderKept'
  <2> DEFINE e == cur[r]
             u == TenantOf[e]
             n == NextRow(r)
  <2>1. /\ e \in Events /\ u \in Tenants /\ n.ev = e /\ rows'[u] = rows[u] \cup {n}
        /\ \A t \in Tenants : t # u => rows'[t] = rows[t]
    BY <1>1, InsertFacts
  <2>2. \A y \in rows[u] : y.seq < n.seq
    BY <1>1, InsertGrows
  <2>3. e \notin After[e]
    BY <2>1 DEF Behindhand, Places
  <2>4. \A y \in rows[u] : e \notin After[y.ev]
    BY <2>1 DEF Behindhand
  <2> HIDE DEF e, u, n
  <2>5. ASSUME NEW t \in Tenants, NEW x \in rows'[t], NEW y \in rows'[t], x.ev \in After[y.ev]
        PROVE  x.seq < y.seq
    <3>1. CASE t # u \/ (x \in rows[u] /\ y \in rows[u])
      BY <2>1, <2>5, <3>1 DEF OrderKept
    <3>2. CASE t = u /\ y = n /\ x # n
      BY <2>1, <2>2, <3>2
    <3>3. CASE t = u /\ x = n
      BY <2>1, <2>3, <2>4, <2>5, <3>3
    <3> QED
      BY <2>1, <3>1, <3>2, <3>3
  <2> QED
    BY <2>5 DEF OrderKept
<1>2. CASE rows' = rows
  BY <1>2 DEF OrderKept
<1> QED
  BY <1>1, <1>2, RowsChange

-----------------------------------------------------------------------------
(* The holder of the lock has the tip.                                     *)

TipOf(S) ==
    IF S = {} THEN EmptyTip
    ELSE LET last == CHOOSE x \in S : \A y \in S : y.seq <= x.seq
         IN  [seq |-> last.seq, hash |-> last.hash]

LockedOn(q) ==
    /\ pc[q] \in {"read", "insert"} => lock[TenantOf[cur[q]]] = q
    /\ pc[q] = "insert" => tip[q] = TipOf(rows[TenantOf[cur[q]]])

LEMMA LockedIs == (Locked <=> \A q \in Replicas : LockedOn(q))
  BY DEF Locked, LockedOn, LastAuditEntry, TipOf

LEMMA LockedIsThen == (Locked' <=> \A q \in Replicas : LockedOn(q)')
  BY DEF Locked, LockedOn, LastAuditEntry, TipOf

LEMMA LockedElsewhere ==
    ASSUME Shape, Places, NEW q \in Replicas, LockedOn(q),
           UNCHANGED <<pc[q], cur[q], tip[q]>>,
           \A t \in Tenants : lock[t] = q => lock'[t] = q /\ rows'[t] = rows[t]
    PROVE  LockedOn(q)'
<1>1. pc[q] \in {"read", "insert"} => TenantOf[cur[q]] \in Tenants
  BY DEF Shape, Places, Belongs
<1> QED
  BY <1>1 DEF LockedOn

LEMMA LockedKept ==
    ASSUME Shape, Places, Locked, Next
    PROVE  Locked'
<1>1. \A q \in Replicas : LockedOn(q)
  BY LockedIs
<1> DEFINE Fine == \A q \in Replicas : LockedOn(q)'
<1>2. ASSUME UNCHANGED <<pc, cur, tip, lock, rows>> PROVE Fine
  BY <1>1, <1>2 DEF LockedOn
<1>3. ASSUME NEW e \in Events, Start(e) \/ Emit(e) \/ ContextDone(e) PROVE Fine
  BY <1>2, <1>3 DEF Start, Emit, ContextDone
<1>4. ASSUME NEW r \in Replicas, Receive(r) PROVE Fine
  <2>1. pc'[r] = "begin" /\ UNCHANGED <<tip, lock, rows>>
        /\ \A q \in Replicas : q # r => pc'[q] = pc[q] /\ cur'[q] = cur[q]
    BY <1>4 DEF Receive, Shape
  <2> QED
    BY <1>1, <2>1 DEF LockedOn
<1>5. ASSUME NEW r \in Replicas, Works(r) PROVE Fine
  <2>1. CASE Begin(r)
    <3>1. pc'[r] = "lock" /\ UNCHANGED <<cur, tip, lock, rows>>
          /\ \A q \in Replicas : q # r => pc'[q] = pc[q]
      BY <2>1 DEF Begin, Shape
    <3> QED
      BY <1>1, <3>1 DEF LockedOn
  <2>2. CASE LockAuditChain(r)
    <3>1. /\ cur[r] \in Events /\ TenantOf[cur[r]] \in Tenants
      BY <2>2 DEF LockAuditChain, Shape, Places, Belongs
    <3>2. /\ pc'[r] = "read" /\ UNCHANGED <<cur, tip, rows>>
          /\ lock[TenantOf[cur[r]]] = NoReplica /\ lock'[TenantOf[cur[r]]] = r
          /\ \A t \in Tenants : t # TenantOf[cur[r]] => lock'[t] = lock[t]
          /\ \A q \in Replicas : q # r => pc'[q] = pc[q]
      BY <2>2, <3>1 DEF LockAuditChain, Shape
    <3>3. ASSUME NEW q \in Replicas PROVE LockedOn(q)'
      <4>1. CASE q = r
        BY <3>2, <4>1 DEF LockedOn
      <4>2. CASE q # r
        <5>1. \A t \in Tenants : lock[t] = q => lock'[t] = q /\ rows'[t] = rows[t]
          BY <3>2
        <5> QED
          BY <1>1, <3>2, <4>2, <5>1, LockedElsewhere
      <4> QED
        BY <4>1, <4>2
    <3> QED
      BY <3>3
  <2>3. CASE ReadTip(r)
    <3>1. /\ pc[r] = "read" /\ pc'[r] = "insert" /\ UNCHANGED <<cur, lock, rows>>
          /\ tip'[r] = TipOf(rows[TenantOf[cur[r]]])
          /\ \A q \in Replicas : q # r => pc'[q] = pc[q] /\ tip'[q] = tip[q]
      BY <2>3 DEF ReadTip, Shape, LastAuditEntry, TipOf
    <3>2. ASSUME NEW q \in Replicas PROVE LockedOn(q)'
      <4>1. CASE q = r
        <5>1. lock[TenantOf[cur[r]]] = r
          BY <1>1, <3>1 DEF LockedOn
        <5> QED
          BY <3>1, <4>1, <5>1 DEF LockedOn
      <4>2. CASE q # r
        BY <1>1, <3>1, <4>2 DEF LockedOn
      <4> QED
        BY <4>1, <4>2
    <3> QED
      BY <3>2
  <2> QED
    BY <1>5, <2>1, <2>2, <2>3 DEF Works
<1>6. ASSUME NEW r \in Replicas, Ends(r),
             \A t \in Tenants : lock[t] # r => rows'[t] = rows[t]
      PROVE  Fine
  <2>1. /\ pc'[r] = "receive"
        /\ \A q \in Replicas : q # r => cur'[q] = cur[q] /\ pc'[q] = pc[q] /\ tip'[q] = tip[q]
        /\ \A t \in Tenants : lock[t] # r => lock'[t] = lock[t]
    BY <1>6, EndsFacts
  <2>2. ASSUME NEW q \in Replicas PROVE LockedOn(q)'
    <3>1. CASE q = r
      BY <2>1, <3>1 DEF LockedOn
    <3>2. CASE q # r
      <4>1. \A t \in Tenants : lock[t] = q => lock'[t] = q /\ rows'[t] = rows[t]
        BY <1>6, <2>1, <3>2
      <4> QED
        BY <1>1, <2>1, <3>2, <4>1, LockedElsewhere
    <3> QED
      BY <3>1, <3>2
  <2> QED
    BY <2>2
<1>7. ASSUME NEW r \in Replicas, InsertAudit(r) PROVE Fine
  <2>1. /\ Ends(r) /\ pc[r] = "insert"
        /\ \A t \in Tenants : t # TenantOf[cur[r]] => rows'[t] = rows[t]
    BY <1>7, InsertFacts DEF InsertAudit
  <2>2. lock[TenantOf[cur[r]]] = r
    BY <1>1, <2>1 DEF LockedOn
  <2> QED
    BY <1>6, <2>1, <2>2
<1>8. ASSUME NEW r \in Replicas, Drops(r) PROVE Fine
  BY <1>6, <1>8, DropFacts
<1>9. ASSUME NEW r \in Replicas, NEW why \in Reasons, Dies(r, why) PROVE Fine
  BY <1>6, <1>9, StopFacts DEF Reasons, Dies
<1>10. ASSUME NEW r \in Replicas, NEW ph \in {"closed", "cut"}, Closes(r, ph) PROVE Fine
  BY <1>2, <1>10, CloseFacts DEF Closes
<1>11. ASSUME Signs \/ Tick \/ \E r \in Replicas : Shutdown(r) \/ Restart(r) PROVE Fine
  BY <1>2, <1>11, OtherFacts
<1> HIDE DEF Fine
<1>12. Fine
  BY <1>3, <1>4, <1>5, <1>7, <1>8, <1>9, <1>10, <1>11, NextCases, Zenon
<1> QED
  BY <1>12, LockedIsThen DEF Fine

-----------------------------------------------------------------------------
(* What is signed is in the chain.                                         *)

LEMMA AnchorsChange ==
    ASSUME Shape, Next, ~Signs
    PROVE  UNCHANGED <<anchoring, anchors>>
<1>1. ASSUME NEW e \in Events, Start(e) \/ Emit(e) \/ ContextDone(e) PROVE UNCHANGED <<anchoring, anchors>>
  BY <1>1 DEF Start, Emit, ContextDone
<1>2. ASSUME NEW r \in Replicas, Receive(r) \/ Works(r) \/ InsertAudit(r) \/ Drops(r)
      PROVE  UNCHANGED <<anchoring, anchors>>
  BY <1>2, WorkFacts, DropFacts DEF Receive, InsertAudit
<1>3. ASSUME NEW r \in Replicas, NEW why \in Reasons, Dies(r, why) PROVE UNCHANGED <<anchoring, anchors>>
  BY <1>3 DEF Dies, Stop
<1>4. ASSUME NEW r \in Replicas, NEW ph \in {"closed", "cut"}, Closes(r, ph)
      PROVE  UNCHANGED <<anchoring, anchors>>
  BY <1>4 DEF Closes, CloseQueue
<1>5. ASSUME Tick \/ \E r \in Replicas : Shutdown(r) \/ Restart(r) PROVE UNCHANGED <<anchoring, anchors>>
  BY <1>5 DEF Tick, Shutdown, Restart
<1> QED
  BY <1>1, <1>2, <1>3, <1>4, <1>5, NextCases, Zenon

LEMMA IsRowStays ==
    ASSUME Shape, Places, Next, NEW t \in Tenants, NEW a, IsRow(t, a)
    PROVE  \E x \in rows'[t] : x.seq = a.seq /\ x.hash = a.hash
  BY RowsGrow DEF IsRow

LEMMA AnchoredKept ==
    ASSUME Shape, Places, Linked, Anchored, Next
    PROVE  Anchored'
<1> DEFINE Held(t, a) == \E x \in rows'[t] : x.seq = a.seq /\ x.hash = a.hash
<1>1. ASSUME NEW t \in Tenants, NEW a \in anchors[t] PROVE Held(t, a)
  <2>1. IsRow(t, a)
    BY DEF Anchored
  <2> QED
    BY <2>1, IsRowStays
<1>2. anchoring.tenant # NoTenant => anchoring.tenant \in Tenants /\ Held(anchoring.tenant, anchoring)
  <2> SUFFICES ASSUME anchoring.tenant # NoTenant
               PROVE  anchoring.tenant \in Tenants /\ Held(anchoring.tenant, anchoring)
    OBVIOUS
  <2>1. anchoring.tenant \in Tenants /\ IsRow(anchoring.tenant, anchoring)
    BY DEF Anchored, Shape
  <2> QED
    BY <2>1, IsRowStays
<1>3. CASE UNCHANGED <<anchoring, anchors>>
  BY <1>1, <1>2, <1>3 DEF Anchored, IsRow
<1>4. ASSUME NEW t \in Tenants, AnchorRead(t) PROVE Anchored'
  <2>1. rows[t] # {} => \E x \in rows[t] : LastAuditEntry(t) = [seq |-> x.seq, hash |-> x.hash]
    BY LastEntry
  <2>2. rows[t] # {}
    BY <1>4 DEF AnchorRead, LastAuditEntry, EmptyTip
  <2>3. PICK x \in rows[t] : LastAuditEntry(t) = [seq |-> x.seq, hash |-> x.hash]
    BY <2>1, <2>2
  <2>4. anchoring' = [tenant |-> t, seq |-> x.seq, hash |-> x.hash] /\ UNCHANGED <<anchors, rows>>
    BY <1>4, <2>3 DEF AnchorRead
  <2>5. anchoring'.tenant = t /\ anchoring'.seq = x.seq /\ anchoring'.hash = x.hash
    BY <2>4
  <2> QED
    BY <1>1, <2>4, <2>5 DEF Anchored, IsRow
<1>5. CASE AnchorInsert
  <2> DEFINE u == anchoring.tenant
             b == [seq |-> anchoring.seq, hash |-> anchoring.hash]
  <2>1. /\ u # NoTenant /\ u \in Tenants
        /\ anchors' = [anchors EXCEPT ![u] = WithAnchor(@, b)]
        /\ anchoring' = [tenant |-> NoTenant, seq |-> 0, hash |-> Nil]
    BY <1>5 DEF AnchorInsert, Shape
  <2>2. Held(u, b)
    BY <1>2, <2>1
  <2> HIDE DEF u, b
  <2>3. \A t \in Tenants : \A a \in anchors'[t] : a \in anchors[t] \/ (t = u /\ a = b)
    BY <2>1 DEF Shape, WithAnchor
  <2>4. anchoring'.tenant = NoTenant
    BY <2>1
  <2> QED
    BY <1>1, <2>2, <2>3, <2>4 DEF Anchored, IsRow
<1> QED
  BY <1>3, <1>4, <1>5, AnchorsChange DEF Signs

-----------------------------------------------------------------------------
(* The theorems.                                                           *)

LEMMA StartInv == Init => IInv
<1> SUFFICES ASSUME Init PROVE IInv
  OBVIOUS
<1>1. Shape /\ Places
  BY StartShape, StartPlaces
<1>2. Accounted /\ OrderlyClose /\ OrderKept
  BY DEF Init, Accounted, OrderlyClose, DrainKeepsRequests, OrderKept
<1>3. Behindhand
  BY NothingIn, EmptyIsFine DEF Init, Behindhand
<1>4. Linked
  <2>1. Chained({})
    BY FS_EmptySet DEF Chained
  <2> QED
    BY <2>1 DEF Init, Linked
<1>5. Locked /\ Anchored
  BY DEF Init, Locked, Anchored
<1> QED
  BY <1>1, <1>2, <1>3, <1>4, <1>5 DEF IInv

LEMMA InvKept == IInv /\ [Next]_vars => IInv'
<1> SUFFICES ASSUME IInv, [Next]_vars PROVE IInv'
  OBVIOUS
<1>1. CASE Next
  BY <1>1, ShapeKept, PlacesKept, AccountedKept, OrderlyCloseKept, BehindhandKept, OrderKeptKept,
     LinkedKept, LockedKept, AnchoredKept DEF IInv
<1>2. CASE UNCHANGED vars
  <2>1. UNCHANGED <<emit, queue, waiting, cancelled, phase, pc, cur, began, tip, lock, rows,
                    anchoring, anchors, counted, lost, now, stops>>
    BY <1>2 DEF vars
  <2>2. Shape' /\ Places' /\ Accounted' /\ OrderlyClose'
    BY <2>1 DEF IInv, Shape, Places, Accounted, Stored, OrderlyClose, Drained, InFlight, On,
                DrainKeepsRequests
  <2>3. Behindhand' /\ OrderKept' /\ Linked'
    BY <2>1 DEF IInv, Behindhand, OrderKept, Linked, Chained, ChainHash
  <2>4. Locked'
    <3>1. \A q \in Replicas : LockedOn(q)
      BY LockedIs DEF IInv
    <3>2. \A q \in Replicas : LockedOn(q)'
      BY <2>1, <3>1 DEF LockedOn
    <3> QED
      BY <3>2, LockedIsThen
  <2>5. Anchored'
    BY <2>1 DEF IInv, Anchored, IsRow
  <2> QED
    BY <2>2, <2>3, <2>4, <2>5 DEF IInv
<1> QED
  BY <1>1, <1>2

(* The inductive invariant: every event in one place, every place ordered, *)
(* every chain linked and extended only by the holder of its lock.         *)
THEOREM InvariantHolds == Spec => []IInv
  BY StartInv, InvKept, PTL DEF Spec

(* Every variable keeps its type, whatever the sizes and the events.       *)
THEOREM TypeCorrect == Spec => []TypeOK
<1>1. IInv => TypeOK
  <2> SUFFICES ASSUME IInv PROVE TypeOK
    OBVIOUS
  <2>1. Shape
    BY DEF IInv
  <2>2. began \in [Replicas -> Nat]
    BY <2>1 DEF Shape
  <2>3. anchoring.tenant \in Tenants \cup {NoTenant}
    BY <2>1 DEF Shape
  <2> QED
    BY <2>1, <2>2, <2>3 DEF Shape, TypeOK
<1> QED
  BY <1>1, InvariantHolds, PTL

(* Over a whole chain the verifier finds broken exactly the links of       *)
(* events whose ids the uuid columns gave back otherwise than they were    *)
(* hashed, and no anchor, however many replicas append to the chain and    *)
(* whenever the anchor job read its tip.                                   *)
THEOREM ChainVerifies == Spec => []BreaksOnlyAtRawIds
<1>1. IInv => BreaksOnlyAtRawIds
  <2> SUFFICES ASSUME IInv, NEW t \in Tenants
               PROVE  /\ BrokenLinks(t, Whole) = {x.seq : x \in {y \in rows[t] : y.ev \in RawIds}}
                      /\ BrokenAnchors(t) = {}
    BY DEF BreaksOnlyAtRawIds
  <2>1. Chained(rows[t]) /\ rows[t] \subseteq Row
    BY DEF IInv, Linked, Shape
  <2>2. Cardinality(rows[t]) \in Nat
    BY <2>1, FS_CardinalityType DEF Chained
  <2> DEFINE Before(x) == {y \in rows[t] \ {x} : y.seq <= x.seq}
             Last(x) == {z \in Before(x) : \A q \in Before(x) : q.seq <= z.seq}
             Prevs(x) == IF Before(x) = {} THEN {x.prev} ELSE {y.hash : y \in Last(x)}
             Broken(x, prev) == x.hash # ChainHash(prev, x.seq, x.ev, IdsRead(x.ev))
  <2>3. ChainRange(t, Whole) = rows[t]
    BY <2>1 DEF ChainRange, Chained, Whole
  <2>4. ASSUME NEW x \in rows[t], NEW z \in Last(x)
        PROVE  x.prev = z.hash
    <3>1. x.seq \in 1 .. Cardinality(rows[t]) /\ z.seq \in 1 .. Cardinality(rows[t]) /\ z.seq < x.seq
      BY <2>1, <2>2, <2>4 DEF Chained
    <3>2. PICK y \in rows[t] : y.seq = x.seq - 1
      <4>1. x.seq - 1 \in 1 .. Cardinality(rows[t])
        BY <2>2, <3>1
      <4> QED
        BY <2>1, <4>1 DEF Chained
    <3>3. y \in Before(x)
      BY <3>1, <3>2
    <3>4. z.seq + 1 = x.seq
      BY <2>4, <3>1, <3>2, <3>3
    <3> QED
      BY <2>1, <3>4 DEF Chained
  <2>5. ASSUME NEW x \in rows[t] PROVE Prevs(x) = {x.prev}
    <3>1. CASE Before(x) = {}
      BY <3>1
    <3>2. CASE Before(x) # {}
      <4>1. Last(x) # {}
        <5>1. PICK z \in Before(x) : TRUE
          BY <3>2
        <5>2. /\ x.seq \in 1 .. Cardinality(rows[t]) /\ z.seq \in 1 .. Cardinality(rows[t])
              /\ z # x /\ z \in rows[t] /\ z.seq <= x.seq
          BY <2>1, <5>1 DEF Chained
        <5>3. x.seq # z.seq
          BY <2>1, <5>2 DEF Chained
        <5>4. x.seq - 1 \in 1 .. Cardinality(rows[t])
          BY <2>2, <5>2, <5>3
        <5>5. PICK y \in rows[t] : y.seq = x.seq - 1
          BY <2>1, <5>4 DEF Chained
        <5>6. ASSUME NEW q \in Before(x) PROVE q.seq <= y.seq
          <6>1. q \in rows[t] /\ q # x /\ q.seq <= x.seq /\ q.seq \in 1 .. Cardinality(rows[t])
            BY <2>1 DEF Chained
          <6>2. q.seq # x.seq
            BY <2>1, <6>1 DEF Chained
          <6> QED
            BY <2>2, <5>2, <5>5, <6>1, <6>2
        <5>7. y \in Before(x)
          BY <2>2, <5>2, <5>5
        <5> QED
          BY <5>6, <5>7
      <4> QED
        BY <2>4, <3>2, <4>1
    <3> QED
      BY <3>1, <3>2
  <2>6. ASSUME NEW x \in rows[t] PROVE Broken(x, x.prev) <=> x.ev \in RawIds
    <3>1. /\ x.hash = ChainHash(x.prev, x.seq, x.ev, IdsSent(x.ev))
          /\ x.prev \in Seq(Nat \X Events \X Texts) /\ x.seq \in Nat /\ x.ev \in Events
      BY <2>1 DEF Chained, Row
    <3>2. IdsSent(x.ev) \in Texts /\ IdsRead(x.ev) \in Texts
      BY <3>1, IdsAreTexts DEF IdsRead
    <3>3. IdsSent(x.ev) = IdsRead(x.ev) <=> x.ev \notin RawIds
      BY DEF IdsSent, IdsRead
    <3> DEFINE a == <<x.seq, x.ev, IdsSent(x.ev)>>
               b == <<x.seq, x.ev, IdsRead(x.ev)>>
    <3>4. (a = b <=> x.ev \notin RawIds) /\ a \in Nat \X Events \X Texts /\ b \in Nat \X Events \X Texts
      BY <3>1, <3>2, <3>3
    <3>5. x.hash = Append(x.prev, a) /\ (Broken(x, x.prev) <=> x.hash # Append(x.prev, b))
      BY <3>1 DEF ChainHash
    <3> HIDE DEF a, b, Broken
    <3>6. Append(x.prev, a) = Append(x.prev, b) <=> a = b
      BY <3>1, <3>4
    <3> QED
      BY <3>4, <3>5, <3>6
  <2>7. BrokenLinks(t, Whole) = {x.seq : x \in {y \in rows[t] : \E prev \in Prevs(y) : Broken(y, prev)}}
    BY <2>3 DEF BrokenLinks
  <2>8. {y \in rows[t] : \E prev \in Prevs(y) : Broken(y, prev)} = {y \in rows[t] : y.ev \in RawIds}
    <3> HIDE DEF Prevs, Broken
    <3> QED
      BY <2>5, <2>6
  <2>9. BrokenAnchors(t) = {}
    BY DEF IInv, Anchored, IsRow, BrokenAnchors
  <2> HIDE DEF Prevs, Broken
  <2> QED
    BY <2>7, <2>8, <2>9
<1> QED
  BY <1>1, InvariantHolds, PTL

(* An event whose operation is done is on its way, stored, counted, or was *)
(* on a process that stopped.                                              *)
THEOREM NoSilentLoss == Spec => []NothingSilentlyLost
<1>1. IInv => NothingSilentlyLost
  <2> SUFFICES ASSUME IInv, NEW e \in Events
               PROVE  \/ emit[e] \in {"absent", "idle", "running"} \/ OnItsWay(e)
                      \/ Stored(e) \/ e \in counted \/ lost[e] # "no"
    BY DEF NothingSilentlyLost
  <2>1. emit[e] \in {"absent", "idle", "running", "waiting", "returned", "panicked"} /\ Home[e] \in Replicas
    BY DEF IInv, Shape
  <2> QED
    BY <2>1 DEF IInv, Accounted, OnItsWay, In
<1> QED
  BY <1>1, InvariantHolds, PTL

(* A shutdown within its grace never meets a request at a closed queue.    *)
THEOREM DrainIsOrderly == Spec => []DrainKeepsRequests
<1>1. IInv => DrainKeepsRequests
  BY DEF IInv, OrderlyClose
<1> QED
  BY <1>1, InvariantHolds, PTL

(* An operation that began after another's Emit returned comes after it in *)
(* the chain.                                                              *)
THEOREM OrderIsKept == Spec => []OrderKept
<1>1. IInv => OrderKept
  BY DEF IInv
<1> QED
  BY <1>1, InvariantHolds, PTL

-----------------------------------------------------------------------------
(* The chain implements the abstract log.                                  *)

(* What a chain says, and what it said when it had n links.                *)
LogAt(S) == [i \in 1 .. Cardinality(S) |-> (CHOOSE x \in S : x.seq = i).ev]

LEMMA LogAtFacts ==
    ASSUME NEW S \in SUBSET Row, Chained(S)
    PROVE  /\ Cardinality(S) \in Nat
           /\ LogAt(S) \in Seq(Events) /\ Len(LogAt(S)) = Cardinality(S)
           /\ \A x \in S : x.seq \in 1 .. Cardinality(S) /\ LogAt(S)[x.seq] = x.ev
           /\ \A i \in 1 .. Cardinality(S) : \E x \in S : x.seq = i /\ LogAt(S)[i] = x.ev
<1> DEFINE N == Cardinality(S)
           At(i) == CHOOSE x \in S : x.seq = i
<1>1. N \in Nat
  BY FS_CardinalityType DEF Chained
<1>2. \A i \in 1 .. N : At(i) \in S /\ At(i).seq = i
  BY DEF Chained
<1>3. LogAt(S) = [i \in 1 .. N |-> At(i).ev]
  BY DEF LogAt
<1> HIDE DEF At
<1>4. \A i \in 1 .. N : At(i).ev \in Events
  BY <1>2 DEF Row
<1>5. LogAt(S) \in [1 .. N -> Events]
  BY <1>3, <1>4
<1>6. LogAt(S) \in Seq(Events) /\ Len(LogAt(S)) = N
  BY <1>1, <1>5
<1>7. \A x \in S : x.seq \in 1 .. N /\ x = At(x.seq)
  BY <1>2 DEF Chained
<1> QED
  BY <1>1, <1>2, <1>3, <1>6, <1>7

LEMMA LogGrows ==
    ASSUME NEW S \in SUBSET Row, Chained(S), NEW n \in Row, n.seq = Cardinality(S) + 1,
           Chained(S \cup {n}), Cardinality(S \cup {n}) = Cardinality(S) + 1
    PROVE  LogAt(S \cup {n}) = Append(LogAt(S), n.ev)
<1> DEFINE N == Cardinality(S)
           T == S \cup {n}
           l == LogAt(S)
           m == LogAt(T)
<1>1. /\ N \in Nat /\ l \in Seq(Events) /\ Len(l) = N
      /\ \A i \in 1 .. N : \E x \in S : x.seq = i /\ l[i] = x.ev
  BY LogAtFacts
<1>2. /\ m \in Seq(Events) /\ Len(m) = N + 1
      /\ \A x \in T : m[x.seq] = x.ev
  <2>1. T \in SUBSET Row /\ Chained(T) /\ Cardinality(T) = N + 1
    OBVIOUS
  <2> HIDE DEF T, N
  <2> QED
    BY <2>1, LogAtFacts
<1>3. n.ev \in Events /\ n \in T
  BY DEF Row
<1>4. \A i \in 1 .. N : m[i] = l[i]
  BY <1>1, <1>2, ZenonT(60)
<1>5. m[N + 1] = n.ev
  BY <1>2, <1>3
<1> HIDE DEF N, T, l, m
<1>6. /\ Append(l, n.ev) \in Seq(Events) /\ Len(Append(l, n.ev)) = N + 1
      /\ \A i \in 1 .. N + 1 : m[i] = Append(l, n.ev)[i]
  BY <1>1, <1>3, <1>4, <1>5
<1>7. m = Append(l, n.ev)
  BY <1>1, <1>2, <1>6, SeqEqual
<1> QED
  BY <1>7 DEF l, m, T

(* The hash of a link speaks of the log up to it.                          *)
LEMMA HashSays ==
    ASSUME NEW S \in SUBSET Row, Chained(S), NEW x \in S
    PROVE  /\ x.seq \in 1 .. Len(LogAt(S))
           /\ Said(x.hash) = SubSeq(LogAt(S), 1, x.seq)
<1> DEFINE l == LogAt(S)
           k == x.seq
<1>1. /\ Cardinality(S) \in Nat /\ l \in Seq(Events) /\ Len(l) = Cardinality(S)
      /\ k \in 1 .. Len(l)
      /\ \A i \in 1 .. Len(l) : \E y \in S : y.seq = i /\ l[i] = y.ev
  BY LogAtFacts
<1>2. Len(x.hash) = k /\ \A y \in S : y.seq <= k => x.hash[y.seq] = <<y.seq, y.ev, IdsSent(y.ev)>>
  BY DEF Chained
<1>3. ASSUME NEW i \in 1 .. k PROVE x.hash[i][2] = l[i]
  <2>1. i \in 1 .. Len(l) /\ i <= k
    BY <1>1
  <2>2. PICK y \in S : y.seq = i /\ l[i] = y.ev
    BY <1>1, <2>1
  <2>3. x.hash[i] = <<y.seq, y.ev, IdsSent(y.ev)>>
    BY <1>2, <2>1, <2>2
  <2> QED
    BY <2>2, <2>3
<1>4. Said(x.hash) = [i \in 1 .. k |-> x.hash[i][2]]
  BY <1>2 DEF Said
<1> HIDE DEF l, k
<1>5. k \in Nat /\ \A i \in 1 .. k : l[i] \in Events
  BY <1>1
<1>6. Said(x.hash) = [i \in 1 .. k |-> l[i]]
  BY <1>3, <1>4
<1>7. Said(x.hash) \in Seq(Events) /\ Len(Said(x.hash)) = k
  BY <1>5, <1>6
<1>8. /\ SubSeq(l, 1, k) \in Seq(Events) /\ Len(SubSeq(l, 1, k)) = k
      /\ \A i \in 1 .. k : SubSeq(l, 1, k)[i] = l[i]
  BY <1>1, <1>5
<1>9. Said(x.hash) = SubSeq(l, 1, k)
  BY <1>5, <1>6, <1>7, <1>8, SeqEqual
<1> QED
  BY <1>1, <1>9 DEF l, k

LogNow == [t \in Tenants |-> LogAt(rows[t])]
SignedNow == [t \in Tenants |-> {Said(a.hash) : a \in anchors[t]}]

LEMMA LogIs == [t \in Tenants |-> LogOf(t)] = LogNow
  BY DEF LogOf, LogNow, LogAt

LEMMA LogStays ==
    ASSUME UNCHANGED <<rows, anchors>>
    PROVE  UNCHANGED <<LogNow, SignedNow>>
  BY DEF LogNow, LogAt, SignedNow

LEMMA InsertRecords ==
    ASSUME IInv, NEW r \in Replicas, InsertAudit(r)
    PROVE  /\ cur[r] \in Events /\ TenantOf[cur[r]] \in Tenants
           /\ \A i \in 1 .. Len(LogNow[TenantOf[cur[r]]]) : LogNow[TenantOf[cur[r]]][i] # cur[r]
           /\ LogNow' = [LogNow EXCEPT ![TenantOf[cur[r]]] = Append(@, cur[r])]
           /\ SignedNow' = SignedNow
<1> DEFINE e == cur[r]
           u == TenantOf[e]
           n == NextRow(r)
           S == rows[u]
<1>0. Shape /\ Places /\ Linked /\ Locked
  BY DEF IInv
<1>1. /\ e \in Events /\ u \in Tenants /\ n \in Row /\ n.ev = e /\ rows'[u] = S \cup {n}
      /\ \A t \in Tenants : t # u => rows'[t] = rows[t]
      /\ anchors' = anchors
  BY <1>0, InsertFacts
<1>2. /\ Chained(rows'[u]) /\ Cardinality(rows'[u]) = Cardinality(S) + 1
      /\ n.seq = Cardinality(S) + 1
  BY <1>0, InsertGrows
<1>3. S \in SUBSET Row /\ Chained(S) /\ \A x \in S : x.ev # e
  BY <1>0, <1>1 DEF Shape, Linked, Places
<1> HIDE DEF e, u, n, S
<1>4. LogAt(S \cup {n}) = Append(LogAt(S), e)
  BY <1>1, <1>2, <1>3, LogGrows
<1>5. LogNow[u] = LogAt(S)
  BY <1>1 DEF LogNow, S
<1>6. \A i \in 1 .. Len(LogAt(S)) : LogAt(S)[i] # e
  BY <1>3, LogAtFacts
<1>7. ASSUME NEW t \in Tenants PROVE LogAt(rows'[t]) = [LogNow EXCEPT ![u] = Append(@, e)][t]
  BY <1>1, <1>4, <1>5 DEF LogNow
<1>8. LogNow' = [t \in Tenants |-> LogAt(rows'[t])]
  BY DEF LogNow, LogAt
<1>9. LogNow' = [LogNow EXCEPT ![u] = Append(@, e)]
  <2>1. [LogNow EXCEPT ![u] = Append(@, e)] = [t \in Tenants |-> [LogNow EXCEPT ![u] = Append(@, e)][t]]
    BY DEF LogNow
  <2> QED
    BY <1>7, <1>8, <2>1
<1>10. SignedNow' = SignedNow
  BY <1>1 DEF SignedNow
<1> QED
  BY <1>1, <1>5, <1>6, <1>9, <1>10 DEF e, u

LEMMA AnchorSigns ==
    ASSUME IInv, AnchorInsert
    PROVE  /\ UNCHANGED <<LogNow, counted>>
           /\ \/ SignedNow' = SignedNow
              \/ \E t \in Tenants : \E n \in 1 .. Len(LogNow[t]) :
                    SignedNow' = [SignedNow EXCEPT ![t] = @ \cup {SubSeq(LogNow[t], 1, n)}]
<1> DEFINE u == anchoring.tenant
           b == [seq |-> anchoring.seq, hash |-> anchoring.hash]
<1>1. /\ u # NoTenant /\ u \in Tenants /\ UNCHANGED <<rows, counted>>
      /\ anchors' = [anchors EXCEPT ![u] = WithAnchor(@, b)]
  BY DEF AnchorInsert, IInv, Shape
<1>2. LogNow' = LogNow
  BY <1>1 DEF LogNow, LogAt
<1>3. PICK x \in rows[u] : x.seq = anchoring.seq /\ x.hash = anchoring.hash
  BY <1>1 DEF IInv, Anchored, IsRow
<1>4. rows[u] \in SUBSET Row /\ Chained(rows[u]) /\ LogNow[u] = LogAt(rows[u])
  BY <1>1 DEF IInv, Shape, Linked, LogNow
<1>5. x.seq \in 1 .. Len(LogNow[u]) /\ Said(b.hash) = SubSeq(LogNow[u], 1, x.seq)
  BY <1>3, <1>4, HashSays
<1> HIDE DEF u, b
<1>6. CASE WithAnchor(anchors[u], b) = anchors[u]
  <2>1. anchors' = anchors
    BY <1>1, <1>6 DEF IInv, Shape
  <2> QED
    BY <1>1, <1>2, <2>1 DEF SignedNow
<1>7. CASE WithAnchor(anchors[u], b) = anchors[u] \cup {b}
  <2>1. /\ anchors'[u] = anchors[u] \cup {b}
        /\ \A t \in Tenants : t # u => anchors'[t] = anchors[t]
    BY <1>1, <1>7 DEF IInv, Shape
  <2>2. SignedNow' = [t \in Tenants |-> {Said(a.hash) : a \in anchors'[t]}]
    BY DEF SignedNow, Said
  <2>3. {Said(a.hash) : a \in anchors'[u]} = SignedNow[u] \cup {Said(b.hash)}
    BY <1>1, <2>1 DEF SignedNow
  <2>4. \A t \in Tenants : t # u => {Said(a.hash) : a \in anchors'[t]} = SignedNow[t]
    BY <2>1 DEF SignedNow
  <2>5. SignedNow' = [SignedNow EXCEPT ![u] = @ \cup {Said(b.hash)}]
    <3>1. [SignedNow EXCEPT ![u] = @ \cup {Said(b.hash)}]
             = [t \in Tenants |-> IF t = u THEN SignedNow[u] \cup {Said(b.hash)} ELSE SignedNow[t]]
      BY <1>1 DEF SignedNow
    <3> QED
      BY <2>2, <2>3, <2>4, <3>1
  <2> QED
    BY <1>1, <1>2, <1>5, <2>5
<1> QED
  BY <1>6, <1>7 DEF WithAnchor

LEMMA CountsChange ==
    ASSUME Shape, Places, Next
    PROVE  \/ UNCHANGED counted
           \/ \E r \in Replicas : InsertAudit(r)
           \/ UNCHANGED <<rows, anchors>> /\ \E e \in Events : counted' = counted \cup {e}
<1> DEFINE Fine == \/ UNCHANGED counted
                   \/ \E r \in Replicas : InsertAudit(r)
                   \/ UNCHANGED <<rows, anchors>> /\ \E e \in Events : counted' = counted \cup {e}
<1>1. ASSUME NEW e \in Events, Start(e) \/ Emit(e) \/ ContextDone(e) PROVE Fine
  <2>1. UNCHANGED <<rows, anchors>>
    BY <1>1 DEF Start, Emit, ContextDone
  <2> QED
    BY <1>1, <2>1, EmitCases DEF Start, ContextDone, Counts, Panics, Sends, Blocks
<1>2. ASSUME NEW r \in Replicas, Receive(r) \/ Works(r) \/ InsertAudit(r) PROVE Fine
  BY <1>2, WorkFacts DEF Receive
<1>3. ASSUME NEW r \in Replicas, Drops(r) PROVE Fine
  <2>1. cur[r] \in Events
    BY <1>3 DEF Drops, AppendTimesOut, AppendFails, Blocked, Shape
  <2> QED
    BY <1>3, <2>1, DropFacts
<1>4. ASSUME NEW r \in Replicas, NEW why \in Reasons, Dies(r, why) PROVE Fine
  BY <1>4 DEF Dies, Stop
<1>5. ASSUME NEW r \in Replicas, NEW ph \in {"closed", "cut"}, Closes(r, ph) PROVE Fine
  BY <1>5 DEF Closes, CloseQueue
<1>6. ASSUME Signs \/ Tick \/ \E r \in Replicas : Shutdown(r) \/ Restart(r) PROVE Fine
  BY <1>6, OtherFacts
<1> HIDE DEF Fine
<1>7. Fine
  BY <1>1, <1>2, <1>3, <1>4, <1>5, <1>6, NextCases, Zenon
<1> QED
  BY <1>7 DEF Fine

(* The replicas together are one append-only log per tenant: an append is  *)
(* a Record, a count a Drop, an anchor that is not there yet a Sign, and   *)
(* every other step changes nothing the log shows.                         *)
THEOREM LogImplemented == Spec => ImplementsLog
<1>1. Init => Abstract!Init
  <2> SUFFICES ASSUME Init PROVE Abstract!Init
    OBVIOUS
  <2>1. \A t \in Tenants : rows[t] = {} /\ anchors[t] = {}
    BY DEF Init
  <2>2. LogNow = [t \in Tenants |-> <<>>]
    <3>1. LogAt({}) = <<>>
      BY FS_EmptySet DEF LogAt
    <3> QED
      BY <2>1, <3>1 DEF LogNow
  <2>3. SignedNow = [t \in Tenants |-> {}] /\ counted = {}
    BY <2>1 DEF SignedNow, Init
  <2> QED
    BY <2>2, <2>3, LogIs DEF Abstract!Init, SignedNow
<1>2. IInv /\ IInv' /\ [Next]_vars => [Abstract!Next]_(Abstract!avars)
  <2> SUFFICES ASSUME IInv, [Next]_vars PROVE Abstract!Next \/ UNCHANGED Abstract!avars
    OBVIOUS
  <2>0. Shape /\ Places
    BY DEF IInv
  <2>1. /\ [t \in Tenants |-> LogOf(t)] = LogNow /\ [t \in Tenants |-> LogOf(t)]' = LogNow'
        /\ [t \in Tenants |-> {Said(a.hash) : a \in anchors[t]}] = SignedNow
        /\ [t \in Tenants |-> {Said(a.hash) : a \in anchors[t]}]' = SignedNow'
    BY LogIs DEF LogOf, LogNow, LogAt, SignedNow
  <2>2. ASSUME UNCHANGED <<rows, anchors, counted>> PROVE UNCHANGED Abstract!avars
    BY <2>1, <2>2, LogStays DEF Abstract!avars
  <2>3. ASSUME NEW r \in Replicas, InsertAudit(r) PROVE Abstract!Next
    <3>1. counted' = counted \/ counted' = counted \cup {cur[r]}
      BY <2>3 DEF InsertAudit
    <3>2. /\ cur[r] \in Events /\ TenantOf[cur[r]] \in Tenants
          /\ \A i \in 1 .. Len(LogNow[TenantOf[cur[r]]]) : LogNow[TenantOf[cur[r]]][i] # cur[r]
          /\ LogNow' = [LogNow EXCEPT ![TenantOf[cur[r]]] = Append(@, cur[r])]
          /\ SignedNow' = SignedNow
      BY <2>3, InsertRecords
    <3>3. PICK e \in Events : e = cur[r]
      BY <3>2
    <3>4. Abstract!Record(e)
      <4>1. e \notin Abstract!Recorded(TenantOf[e])
        BY <2>1, <3>2, <3>3 DEF Abstract!Recorded
      <4>2. counted' \in {counted, counted \cup {e}}
        BY <3>1, <3>3
      <4> QED
        BY <2>1, <3>2, <3>3, <4>1, <4>2 DEF Abstract!Record
    <3> QED
      BY <3>4 DEF Abstract!Next
  <2>4. ASSUME UNCHANGED <<rows, anchors>>, NEW e \in Events, counted' = counted \cup {e}
        PROVE  Abstract!Next
    <3>1. Abstract!Drop(e)
      BY <2>1, <2>4, LogStays DEF Abstract!Drop
    <3> QED
      BY <3>1 DEF Abstract!Next
  <2>5. ASSUME AnchorInsert PROVE Abstract!Next \/ UNCHANGED Abstract!avars
    <3>1. UNCHANGED <<LogNow, counted>>
      BY <2>5, AnchorSigns
    <3>2. CASE SignedNow' = SignedNow
      BY <2>1, <3>1, <3>2 DEF Abstract!avars
    <3>3. ASSUME NEW t \in Tenants, NEW n \in 1 .. Len(LogNow[t]),
                 SignedNow' = [SignedNow EXCEPT ![t] = @ \cup {SubSeq(LogNow[t], 1, n)}]
          PROVE  Abstract!Next
      <4>1. Abstract!Sign(t)
        BY <2>1, <3>1, <3>3 DEF Abstract!Sign
      <4> QED
        BY <4>1 DEF Abstract!Next
    <3> QED
      BY <2>5, <3>2, <3>3, AnchorSigns
  <2>6. CASE UNCHANGED vars
    BY <2>2, <2>6 DEF vars
  <2>7. CASE Next
    <3>1. CASE \E r \in Replicas : InsertAudit(r)
      BY <2>3, <3>1
    <3>2. CASE UNCHANGED <<rows, anchors>> /\ \E e \in Events : counted' = counted \cup {e}
      BY <2>4, <3>2
    <3>3. CASE UNCHANGED counted /\ ~\E r \in Replicas : InsertAudit(r)
      <4>1. UNCHANGED rows
        BY <2>0, <2>7, <3>3, RowsChange
      <4>2. AnchorInsert \/ UNCHANGED anchors
        BY <2>0, <2>7, AnchorsChange DEF Signs, AnchorRead
      <4> QED
        BY <2>2, <2>5, <3>3, <4>1, <4>2
    <3> QED
      BY <2>0, <2>7, <3>1, <3>2, <3>3, CountsChange
  <2> QED
    BY <2>6, <2>7
<1> QED
  BY <1>1, <1>2, InvariantHolds, PTL DEF Spec, ImplementsLog, Abstract!Spec
=============================================================================
