----------------------- MODULE SnapshotManagerProofs ------------------------
(***************************************************************************)
(* What SnapshotManager guarantees for any number of tenants, any times    *)
(* and any capacities of its channels: how old what the gate serves can    *)
(* be, that what is announced is enforced, and that a synced consumer      *)
(* misses nothing.                                                         *)
(***************************************************************************)
EXTENDS SnapshotManager, SequenceTheorems, FiniteSetTheorems, TLAPS

-----------------------------------------------------------------------------
(* The inductive invariant.                                                *)

Loading == {"probe", "touch", "begin", "read", "rest", "publish", "announce"}

(* Where the pass stands.                                                  *)
Places ==
    /\ pc \in Loading => tenant \in Present /\ tenant \notin batch
    /\ pc \notin Loading => tenant = NoTenant
    /\ batch \subseteq Present
    /\ pc \in {"select", "list"} => batch = {}
    /\ pc # "announce" => news = {}
    /\ pc = "listed" => started <= now

(* Every change of ps that a snapshot of version v misses was made at or   *)
(* after time n.                                                           *)
MissesNothingBefore(v, ps, n) == v <= Len(ps) /\ \A k \in v + 1 .. Len(ps) : n <= ps[k]

(* A snapshot d of a tenant whose changes are ps, at time n.               *)
Sound(d, ps, n) ==
    /\ d.builtAt <= d.loadedAt /\ d.loadedAt <= n
    /\ d.loadedAt - d.builtAt < RebuildEvery + Timeout
    /\ MissesNothingBefore(d.version, ps, d.builtAt)
    /\ MissesNothingBefore(d.version, ps, d.loadedAt - Timeout)

Kept == \A t \in Tenants : data[t] # NoData => Sound(data[t], pushes[t], now)

Dated == \A t \in Tenants : \A k \in 1 .. Len(pushes[t]) : pushes[t][k] <= now

(* What load has in hand.                                                  *)
InHand ==
    /\ started <= now /\ now - started <= Timeout
    /\ pc \in {"probe", "touch"} =>
          data[tenant] # NoData /\ started - data[tenant].builtAt < RebuildEvery
    /\ pc = "touch" => MissesNothingBefore(probed, pushes[tenant], started)
    /\ pc \in {"read", "rest"} =>
          /\ draft # NoData /\ draft.builtAt = draft.loadedAt
          /\ started <= draft.builtAt /\ draft.builtAt <= now
    /\ pc = "rest" =>
          /\ MissesNothingBefore(draft.version, pushes[tenant], draft.builtAt)
          /\ data[tenant] # NoData => data[tenant].version <= draft.version
    /\ pc \in {"publish", "announce"} => data[tenant] # NoData
    /\ pc = "publish" /\ draft # NoData => draft.version <= data[tenant].version

IInv == TypeOK /\ Places /\ Dated /\ Kept /\ (pc \in Loading => InHand)

(* What is sent, or about to be, is served.                                *)
Queued(q) == {q[i] : i \in 1 .. Len(q)}

Announced ==
    /\ \A t \in Tenants : \A k \in heard[t] \cup Queued(queue[t]) :
          data[t] # NoData /\ k <= data[t].version
    /\ pc = "announce" => \A k \in news : k <= data[tenant].version

(* A consumer has had, or will have, the news of the snapshot that is      *)
(* served; between the swap and publishRevocations, of the one before.     *)
Denied(ps, d) == {k \in 1 .. d.version : ps[k] > d.builtAt - Window}
Swapped(t) == pc = "publish" /\ tenant = t
Told(t) == heard[t] \cup dropped[t] \cup Queued(queue[t])
             \cup (IF pc = "announce" /\ tenant = t THEN news ELSE {})

KeptUpToDate(t) ==
    /\ data[t] # NoData
    /\ Swapped(t) /\ draft = NoData => data[t].version <= since[t]
    /\ Swapped(t) /\ draft # NoData =>
          \A k \in Denied(pushes[t], draft) : since[t] < k => k \in Told(t)
    /\ ~Swapped(t) =>
          \A k \in Denied(pushes[t], data[t]) : since[t] < k => k \in Told(t)

Synced == \A t \in subs : since[t] # Never => KeptUpToDate(t)

(* What is left of the pass that was under way when a tenant stopped being *)
(* active.                                                                 *)
Span(m) == m * Timeout

(* By when a pass whose list still had t has that list.                    *)
Due(t) == suspended[t] + delay[t]

Leaving ==
    /\ pc = "listed" => \A t \in Tenants : data[t] # NoData => data[t].loadedAt <= started
    /\ \A t \in Present \ Active :
          /\ suspended[t] <= now
          /\ pc = "listed" /\ t \in batch => started <= suspended[t]
          /\ data[t] # NoData => data[t].loadedAt <= Due(t) + Span(Cardinality(Present))
          /\ pc = "load" /\ t \in batch =>
                now <= Due(t) + Span(Cardinality(Present) - Cardinality(batch))
          /\ pc \in Loading /\ t \in batch \cup {tenant} =>
                started <= Due(t) + Span(Cardinality(Present) - Cardinality(batch) - 1)

(* With queries that answer and tenants that stay: how long a change that  *)
(* is not served yet has waited. Left is what the pass may still take.     *)
Left ==
    IF pc \in {"listed", "load"} THEN Span(Cardinality(batch))
    ELSE IF pc \in Loading THEN Span(Cardinality(batch)) + Timeout - (now - started)
    ELSE 0

Unserved(t, k) == data[t] = NoData \/ data[t].version < k

(* The load of t under way has read what it reads, and change k is not in  *)
(* it.                                                                     *)
ReadBefore(t, k) ==
    /\ tenant = t
    /\ \/ pc = "touch" /\ probed < k
       \/ pc = "rest" /\ draft.version < k
       \/ pc \in {"publish", "announce"}

(* The pass under way will read change k of t.                             *)
Awaited(t, k) ==
    \/ pc = "list" /\ pass = "poll"
    \/ t \in batch
    \/ tenant = t /\ ~ReadBefore(t, k)

Clock ==
    /\ \A t \in Present : suspended[t] = Never
    /\ tickAt # 0 => now < tickAt /\ tickAt <= now + PollInterval
    /\ tickAt = 0 => ~ticker /\ coalesce = "off" /\ pass = "poll" /\ pc # "select"
    /\ pass = "pending" => coalesce = "off" /\ pc # "select"

(* A poll interval and one pass, two less a tenant, three less a tenant.   *)
First  == PollInterval + Span(Cardinality(Present))
Second == PollInterval + Span(2 * Cardinality(Present) - 1)
Third  == PollInterval + Span(3 * Cardinality(Present) - 1)

(* Since a, a change has been waiting for the next poll.                   *)
ForThePoll(a) ==
    /\ tickAt = 0 => now - a + Left <= Span(Cardinality(Present))
    /\ tickAt # 0 /\ ~ticker =>
          /\ tickAt - a <= First
          /\ pass = "poll" /\ pc # "select" => tickAt - a <= PollInterval
    /\ ticker =>
          /\ pc = "select" => now - a <= Second /\ (coalesce = "fired" => now - a <= First)
          /\ pc = "list" => now - a <= First
          /\ pc \in Loading \cup {"listed", "load"} =>
                now - a + Left <= IF pass = "poll" THEN First ELSE Second

(* Since a, change k of t has been waiting.                                *)
WaitedFor(t, k, a) ==
    /\ pc = "list" /\ pass = "poll" => now - a <= Second
    /\ Awaited(t, k) => now - a + Left <= Third
    /\ ReadBefore(t, k) => started <= a
    /\ ~Awaited(t, k) => ForThePoll(a)

Waited ==
    ~Faults /\ ~Suspensions =>
        /\ Clock
        /\ \A t \in Present : \A k \in 1 .. Version(t) : Unserved(t, k) => WaitedFor(t, k, pushes[t][k])

-----------------------------------------------------------------------------
(* Types.                                                                  *)

LEMMA Times ==
    /\ MaxAge \in Nat /\ RebuildEvery \in Nat /\ PollInterval \in Nat /\ Timeout \in Nat /\ Window \in Nat
    /\ MaxAge > 0 /\ PollInterval > 0 /\ Timeout > 0 /\ Window > 0 /\ RebuildEvery = MaxAge
    /\ DirtyCap \in Nat /\ SubBuffer \in Nat /\ AccessTTL \in Nat
  BY TimesAssumption, RebuildAssumption

USE Times

LEMMA PresentFacts ==
    ASSUME TypeOK
    PROVE  /\ Present \subseteq Tenants /\ IsFiniteSet(Present) /\ Cardinality(Present) \in Nat
           /\ NoTenant \notin Present /\ NoTenant \notin Tenants
<1>1. mode \in Modes
  BY DEF TypeOK
<1>2. Present \subseteq Tenants
  BY <1>1, ModesAssumption DEF Present
<1>3. IsFiniteSet(Present)
  BY <1>2, TenantsAssumption, FS_Subset
<1> QED
  BY <1>2, <1>3, TenantsAssumption, FS_CardinalityType

LEMMA SnapFacts ==
    ASSUME NEW d \in Snapshot
    PROVE  d # NoData /\ d.version \in Nat /\ d.builtAt \in Nat /\ d.loadedAt \in Nat
  BY NoDataAssumption DEF Snapshot

LEMMA VersionFacts ==
    ASSUME TypeOK, NEW t \in Tenants
    PROVE  /\ pushes[t] \in Seq(Nat) /\ Len(pushes[t]) \in Nat /\ Version(t) = Len(pushes[t])
           /\ \A k \in 1 .. Len(pushes[t]) : pushes[t][k] \in Nat
           /\ data[t] # NoData => data[t] \in Snapshot
  BY DEF TypeOK, Version

LEMMA InitTypes == Init => TypeOK
<1> SUFFICES ASSUME Init PROVE TypeOK
  OBVIOUS
<1>1. <<>> \in Seq(Nat) /\ <<>> \in Seq(Tenants)
  OBVIOUS
<1> QED
  BY <1>1 DEF Init, TypeOK, States, Never

(* Everything but the clock, the changes, the snapshots and the loads.     *)
LEMMA LoopTypes ==
    ASSUME TypeOK, Places, PollTick \/ TakeDirty \/ CoalesceFires \/ ListTenantsError \/ PassDone
    PROVE  TypeOK'
<1>1. CASE PollTick
  BY <1>1 DEF TypeOK, PollTick, StartPass, postgres, stream, States
<1>2. CASE TakeDirty
  <2>1. Head(dirty) \in Tenants /\ Tail(dirty) \in Seq(Tenants)
    BY <1>2 DEF TakeDirty, TypeOK
  <2> QED
    BY <1>2, <2>1 DEF TypeOK, TakeDirty, postgres, stream, loading
<1>3. CASE CoalesceFires
  BY <1>3 DEF TypeOK, CoalesceFires, StartPass, postgres, stream, States
<1>4. CASE ListTenantsError
  BY <1>4 DEF TypeOK, ListTenantsError, EndPass, postgres, stream, States
<1>5. CASE PassDone
  BY <1>5 DEF TypeOK, PassDone, EndPass, postgres, stream, States
<1> QED
  BY <1>1, <1>2, <1>3, <1>4, <1>5

LEMMA WorldTypes ==
    ASSUME TypeOK, NEW t \in Present,
           Change(t) \/ SetTenantStatus(t) \/ Notify(t) \/ ListenerDropped \/ Subscribe(t) \/ Receive(t) \/ Cancel(t)
    PROVE  TypeOK'
<1>0. t \in Tenants
  BY PresentFacts
<1>1. CASE Change(t)
  <2>1. Append(pushes[t], now) \in Seq(Nat)
    BY <1>0 DEF TypeOK
  <2> DEFINE s == Append(pushes[t], now)
  <2>2. pushes' = [pushes EXCEPT ![t] = s]
    BY <1>1 DEF Change
  <2> HIDE DEF s
  <2>3. pushes' \in [Tenants -> Seq(Nat)]
    BY <2>1, <2>2 DEF TypeOK, s
  <2> QED
    BY <1>0, <1>1, <2>3 DEF TypeOK, Change, loop, stream, loading
<1>2. CASE SetTenantStatus(t)
  BY <1>0, <1>2 DEF TypeOK, SetTenantStatus, loop, stream, loading, Never
<1>3. CASE Notify(t)
  BY <1>0, <1>3 DEF TypeOK, Notify, stream, loading
<1>4. CASE ListenerDropped
  BY <1>4 DEF TypeOK, ListenerDropped, loop, stream, loading
<1>5. CASE Subscribe(t)
  <2>1. Version(t) \in Nat
    BY <1>0, VersionFacts
  <2> QED
    BY <1>0, <1>5, <2>1 DEF TypeOK, Subscribe, postgres, loop, loading, Never
<1>6. CASE Receive(t)
  <2>1. Head(queue[t]) \in Nat /\ Tail(queue[t]) \in Seq(Nat)
    BY <1>0, <1>6 DEF Receive, TypeOK
  <2>2. heard' \in [Tenants -> SUBSET Nat] /\ queue' \in [Tenants -> Seq(Nat)]
    BY <1>0, <1>6, <2>1 DEF Receive, TypeOK
  <2> QED
    BY <1>6, <2>2 DEF TypeOK, Receive, postgres, loop, loading
<1>7. CASE Cancel(t)
  <2>1. <<>> \in Seq(Nat)
    OBVIOUS
  <2> QED
    BY <1>0, <1>7, <2>1 DEF TypeOK, Cancel, postgres, loop, loading, Never
<1> QED
  BY <1>1, <1>2, <1>3, <1>4, <1>5, <1>6, <1>7

LEMMA LoadTypes ==
    ASSUME TypeOK, Places, ListTenants \/ TenantsListed \/ (\E t \in Tenants : Load(t)) \/ CatalogVersion
           \/ ProbeMoved \/ BeginTx \/ LoadSnapshot \/ LoadError \/ PublishRevocations
           \/ (\E k \in news : Publish(k)) \/ LoadDone,
           pc = "read" => draft # NoData
    PROVE  TypeOK'
<1>0. pc \in Loading => tenant \in Tenants
  BY PresentFacts DEF Places
<1>1. CASE ListTenants
  <2>1. Active \subseteq Tenants
    BY PresentFacts DEF Active
  <2> QED
    BY <1>1, <2>1 DEF TypeOK, ListTenants, postgres, loop, stream, States
<1>2. ASSUME NEW t \in Tenants, Load(t) PROVE TypeOK'
  BY <1>2 DEF TypeOK, Load, postgres, loop, stream, States
<1>3. CASE CatalogVersion
  <2>1. Version(tenant) \in Nat
    BY <1>0, <1>3, VersionFacts DEF CatalogVersion, Loading
  <2> QED
    BY <1>3, <2>1 DEF TypeOK, CatalogVersion, postgres, loop, stream, States
<1>4. CASE ProbeMoved
  BY <1>4 DEF TypeOK, ProbeMoved, postgres, loop, stream, loading, States
<1>5. CASE BeginTx
  <2>1. draft' \in Snapshot
    BY <1>5 DEF BeginTx, Snapshot, TypeOK
  <2> QED
    BY <1>5, <2>1 DEF TypeOK, BeginTx, postgres, loop, stream, States
<1>6. CASE LoadSnapshot
  <2>1. Version(tenant) \in Nat
    BY <1>0, <1>6, VersionFacts DEF LoadSnapshot, Loading
  <2>2. draft' \in Snapshot
    BY <1>6, <2>1 DEF LoadSnapshot, Snapshot, TypeOK
  <2> QED
    BY <1>6, <2>2 DEF TypeOK, LoadSnapshot, postgres, loop, stream, States
<1>7. CASE LoadError
  BY <1>7 DEF TypeOK, LoadError, Return, postgres, loop, stream, States
<1>8. CASE PublishRevocations
  <2>1. news' \subseteq Nat
    <3>1. \A t, d : d \in Snapshot => RevokedSessions(t, d) \subseteq Nat
      BY DEF RevokedSessions, Snapshot
    <3>2. tenant \in Tenants
      BY <1>0, <1>8 DEF PublishRevocations, Loading
    <3>3. data[tenant] \in Snapshot \cup {NoData}
      BY <3>2 DEF TypeOK
    <3>4. CASE data[tenant] \in Snapshot
      BY <1>8, <3>1, <3>4 DEF PublishRevocations, News
    <3>5. CASE data[tenant] = NoData
      BY <1>8, <3>5 DEF PublishRevocations, News, RevokedSessions
    <3> QED
      BY <3>3, <3>4, <3>5
  <2> QED
    BY <1>8, <2>1 DEF TypeOK, PublishRevocations, postgres, loop, stream, loading, States
<1>9. ASSUME NEW k \in news, Publish(k) PROVE TypeOK'
  <2>1. tenant \in Tenants /\ k \in Nat
    BY <1>0, <1>9 DEF Publish, Loading, TypeOK
  <2>2. Append(queue[tenant], k) \in Seq(Nat)
    BY <2>1 DEF TypeOK
  <2>3. queue' \in [Tenants -> Seq(Nat)] /\ dropped' \in [Tenants -> SUBSET Nat]
    <3>1. CASE tenant \in subs /\ Len(queue[tenant]) < SubBuffer
      BY <1>9, <2>1, <2>2, <3>1 DEF Publish, TypeOK
    <3>2. CASE ~(tenant \in subs /\ Len(queue[tenant]) < SubBuffer)
      <4>1. /\ queue' = queue
            /\ dropped' = [dropped EXCEPT ![tenant] = IF tenant \in subs THEN @ \cup {k} ELSE @]
        BY <1>9, <3>2 DEF Publish
      <4> QED
        BY <2>1, <4>1 DEF TypeOK
    <3> QED
      BY <3>1, <3>2
  <2> QED
    BY <1>9, <2>3 DEF TypeOK, Publish, postgres, loop, loading
<1>10. CASE LoadDone
  BY <1>10 DEF TypeOK, LoadDone, Return, postgres, loop, stream, States
<1>11. CASE TenantsListed
  <2>1. now - started \in Nat
    BY <1>11 DEF TenantsListed, Places, TypeOK
  <2>2. delay' \in [Tenants -> Nat]
    BY <1>11, <2>1 DEF TenantsListed, TypeOK
  <2> QED
    BY <1>11, <2>2 DEF TypeOK, TenantsListed, postgres, loop, stream, States
<1> QED
  BY <1>1, <1>2, <1>3, <1>4, <1>5, <1>6, <1>7, <1>8, <1>9, <1>10, <1>11

LEMMA SwapTypes ==
    ASSUME TypeOK, Places, Touch \/ Swap, pc \in Loading => InHand
    PROVE  TypeOK'
<1>0. tenant \in Tenants
  BY PresentFacts DEF Places, Touch, Unchanged, Swap, Loading
<1>1. CASE Touch
  <2> DEFINE d == [data[tenant] EXCEPT !.loadedAt = now]
  <2>1. data[tenant] \in Snapshot
    BY <1>0, <1>1 DEF TypeOK, Touch, Unchanged, InHand, Loading
  <2>2. d \in Snapshot
    BY <2>1 DEF Snapshot, TypeOK
  <2>3. data' = [data EXCEPT ![tenant] = d]
    BY <1>1 DEF Touch
  <2> HIDE DEF d
  <2>4. data' \in [Tenants -> Snapshot \cup {NoData}]
    BY <2>2, <2>3 DEF TypeOK
  <2> QED
    BY <1>1, <2>4 DEF TypeOK, Touch, Return, postgres, loop, stream, States
<1>2. CASE Swap
  BY <1>0, <1>2 DEF TypeOK, Swap, postgres, loop, stream, States
<1> QED
  BY <1>1, <1>2

LEMMA TickTypes ==
    ASSUME TypeOK, Tick
    PROVE  TypeOK'
  BY DEF TypeOK, Tick, postgres, stream, loading

-----------------------------------------------------------------------------
(* Snapshots and the changes they miss.                                    *)

LEMMA MissesMore ==
    ASSUME NEW ps \in Seq(Nat), NEW n \in Nat, NEW v \in Nat, NEW a \in Int, a <= n,
           MissesNothingBefore(v, ps, a)
    PROVE  MissesNothingBefore(v, Append(ps, n), a)
<1>1. Len(Append(ps, n)) = Len(ps) + 1 /\ Len(ps) \in Nat /\ v <= Len(ps)
  BY DEF MissesNothingBefore
<1>2. ASSUME NEW k \in v + 1 .. Len(ps) + 1 PROVE a <= Append(ps, n)[k]
  <2>1. CASE k \in v + 1 .. Len(ps)
    <3>1. a <= ps[k] /\ k \in 1 .. Len(ps)
      BY <1>1, <2>1 DEF MissesNothingBefore
    <3> QED
      BY <3>1
  <2>2. CASE k = Len(ps) + 1
    BY <2>2
  <2> QED
    BY <1>1, <2>1, <2>2
<1> QED
  BY <1>1, <1>2, SMTT(30) DEF MissesNothingBefore

LEMMA SoundMore ==
    ASSUME NEW d \in Snapshot, NEW ps \in Seq(Nat), NEW n \in Nat, Sound(d, ps, n)
    PROVE  Sound(d, Append(ps, n), n)
<1>1. d.version \in Nat /\ d.builtAt \in Nat /\ d.loadedAt \in Nat
  BY SnapFacts
<1>2. d.builtAt <= n /\ d.loadedAt - Timeout <= n /\ d.loadedAt - Timeout \in Int
  BY <1>1 DEF Sound
<1>3. /\ MissesNothingBefore(d.version, Append(ps, n), d.builtAt)
      /\ MissesNothingBefore(d.version, Append(ps, n), d.loadedAt - Timeout)
  BY <1>1, <1>2, MissesMore DEF Sound
<1> QED
  BY <1>3 DEF Sound

LEMMA SoundLater ==
    ASSUME NEW d \in Snapshot, NEW ps, NEW n \in Nat, Sound(d, ps, n)
    PROVE  Sound(d, ps, n + 1)
<1>1. d.loadedAt \in Nat
  BY SnapFacts
<1> QED
  BY <1>1 DEF Sound

-----------------------------------------------------------------------------
(* Steps that leave the clock, the changes, the snapshots and the load     *)
(* alone.                                                                  *)

Aside ==
    /\ now' = now /\ mode' = mode /\ pushes' = pushes /\ data' = data
    /\ tenant' = tenant /\ probed' = probed /\ draft' = draft /\ news' = news
    /\ \/ pc' = pc /\ batch' = batch /\ started' = started
       \/ pc \notin Loading /\ pc' \in {"select", "list"} /\ batch' = {}

LEMMA AsideKeeps ==
    ASSUME IInv, TypeOK', Aside
    PROVE  IInv'
<1>1. CASE pc' = pc /\ batch' = batch /\ started' = started
  BY <1>1 DEF IInv, Aside, Places, Present, Dated, Kept, InHand
<1>2. CASE pc \notin Loading /\ pc' \in {"select", "list"} /\ batch' = {}
  <2>1. pc' \notin Loading /\ pc' # "announce" /\ pc # "announce"
    BY <1>2 DEF Loading
  <2> QED
    BY <1>2, <2>1 DEF IInv, Aside, Places, Present, Dated, Kept
<1> QED
  BY <1>1, <1>2 DEF Aside

LEMMA LoopIsAside ==
    ASSUME IInv, PollTick \/ TakeDirty \/ CoalesceFires \/ ListTenantsError \/ PassDone
    PROVE  Aside
  BY DEF Aside, PollTick, TakeDirty, CoalesceFires, StartPass, ListTenantsError, PassDone, EndPass,
         postgres, stream, loading, IInv, Places, Loading

LEMMA WorldIsAside ==
    ASSUME IInv, NEW t \in Present,
           SetTenantStatus(t) \/ Notify(t) \/ ListenerDropped \/ Subscribe(t) \/ Receive(t) \/ Cancel(t)
    PROVE  Aside
  BY DEF Aside, SetTenantStatus, Notify, ListenerDropped, Subscribe, Receive, Cancel, postgres, loop, loading

LEMMA ChangeKeeps ==
    ASSUME IInv, TypeOK', NEW t \in Present, Change(t)
    PROVE  IInv'
<1>0. TypeOK /\ t \in Tenants
  BY PresentFacts DEF IInv
<1> DEFINE ps == Append(pushes[t], now)
<1>1. /\ pushes' = [pushes EXCEPT ![t] = ps]
      /\ now' = now /\ mode' = mode /\ data' = data /\ pc' = pc /\ batch' = batch /\ tenant' = tenant
      /\ started' = started /\ probed' = probed /\ draft' = draft /\ news' = news
  BY DEF Change, loading
<1>2. /\ pushes[t] \in Seq(Nat) /\ now \in Nat /\ ps \in Seq(Nat) /\ Len(ps) = Len(pushes[t]) + 1
      /\ Len(pushes[t]) \in Nat
  BY <1>0 DEF TypeOK
<1>3. pushes'[t] = ps /\ \A u \in Tenants : u # t => pushes'[u] = pushes[u]
  BY <1>0, <1>1 DEF TypeOK
<1>4. Dated'
  <2>1. \A k \in 1 .. Len(ps) : ps[k] <= now
    <3>1. \A k \in 1 .. Len(pushes[t]) : pushes[t][k] <= now /\ ps[k] = pushes[t][k]
      BY <1>0, <1>2 DEF IInv, Dated
    <3>2. ps[Len(pushes[t]) + 1] = now
      BY <1>2
    <3> QED
      BY <1>2, <3>1, <3>2
  <2> HIDE DEF ps
  <2>2. ASSUME NEW u \in Tenants PROVE \A k \in 1 .. Len(pushes'[u]) : pushes'[u][k] <= now
    <3>1. CASE u = t
      BY <1>3, <2>1, <3>1
    <3>2. CASE u # t
      <4>1. pushes'[u] = pushes[u]
        BY <1>3, <3>2
      <4> QED
        BY <4>1 DEF IInv, Dated
    <3> QED
      BY <3>1, <3>2
  <2> QED
    BY <1>1, <2>2 DEF Dated
<1>5. Kept'
  <2>1. ASSUME NEW u \in Tenants, data[u] # NoData PROVE Sound(data[u], pushes'[u], now)
    <3>1. data[u] \in Snapshot /\ Sound(data[u], pushes[u], now)
      BY <1>0, <2>1, VersionFacts DEF IInv, Kept
    <3>2. CASE u = t
      BY <1>2, <1>3, <3>1, <3>2, SoundMore
    <3>3. CASE u # t
      BY <1>3, <3>1, <3>3
    <3> QED
      BY <3>2, <3>3
  <2> QED
    BY <1>1, <2>1 DEF Kept
<1>6. (pc \in Loading => InHand)'
  <2> SUFFICES ASSUME pc \in Loading PROVE InHand'
    BY <1>1
  <2>0. InHand /\ tenant \in Tenants /\ started \in Nat /\ probed \in Nat
    BY <1>0, PresentFacts DEF IInv, Places, TypeOK
  <2>1. CASE tenant # t
    <3>1. pushes'[tenant] = pushes[tenant]
      BY <1>3, <2>0, <2>1
    <3> QED
      BY <1>1, <2>0, <3>1 DEF InHand
  <2>2. CASE tenant = t
    <3>1. pushes'[tenant] = ps
      BY <1>3, <2>2
    <3>2. pc = "touch" => MissesNothingBefore(probed, ps, started)
      BY <1>2, <2>0, <2>2, MissesMore DEF InHand
    <3>3. pc = "rest" => MissesNothingBefore(draft.version, ps, draft.builtAt)
      <4> SUFFICES ASSUME pc = "rest" PROVE MissesNothingBefore(draft.version, ps, draft.builtAt)
        OBVIOUS
      <4>1. draft \in Snapshot /\ draft.builtAt <= now /\ MissesNothingBefore(draft.version, pushes[t], draft.builtAt)
        BY <1>0, <2>0, <2>2 DEF InHand, TypeOK
      <4>2. draft.version \in Nat /\ draft.builtAt \in Nat
        BY <4>1, SnapFacts
      <4> QED
        BY <1>2, <4>1, <4>2, MissesMore
    <3> HIDE DEF ps
    <3> QED
      BY <1>1, <2>0, <3>1, <3>2, <3>3 DEF InHand
  <2> QED
    BY <2>1, <2>2
<1>7. Places'
  BY <1>1 DEF IInv, Places, Present
<1> QED
  BY <1>4, <1>5, <1>6, <1>7 DEF IInv

-----------------------------------------------------------------------------
(* The pass and its loads.                                                 *)

LEMMA TenantLoading ==
    ASSUME IInv, pc \in Loading
    PROVE  /\ InHand /\ tenant \in Tenants /\ tenant \in Present /\ tenant \notin batch /\ tenant # NoTenant
           /\ now \in Nat /\ started \in Nat /\ probed \in Nat
           /\ pushes[tenant] \in Seq(Nat) /\ Len(pushes[tenant]) \in Nat
           /\ data[tenant] # NoData => data[tenant] \in Snapshot /\ Sound(data[tenant], pushes[tenant], now)
           /\ draft # NoData => draft \in Snapshot
<1>1. TypeOK /\ InHand /\ tenant \in Present /\ tenant \notin batch
  BY DEF IInv, Places
<1>2. tenant \in Tenants
  BY <1>1, PresentFacts
<1> QED
  BY <1>1, <1>2, PresentFacts, VersionFacts DEF IInv, Kept, TypeOK

LEMMA ListKeeps ==
    ASSUME IInv, TypeOK', ListTenants
    PROVE  IInv'
<1>1. /\ pc = "list" /\ pc' = "listed" /\ now' = now /\ mode' = mode /\ pushes' = pushes /\ data' = data
      /\ tenant' = tenant /\ news' = news /\ batch' \subseteq Active /\ started' = now /\ now \in Nat
  BY DEF ListTenants, postgres, IInv, TypeOK
<1>2. Places'
  BY <1>1 DEF IInv, Places, Loading, Present, Active
<1> QED
  BY <1>1, <1>2 DEF IInv, Dated, Kept, Loading

LEMMA ListedKeeps ==
    ASSUME IInv, TypeOK', TenantsListed
    PROVE  IInv'
<1>1. /\ pc = "listed" /\ pc' = "load" /\ now' = now /\ mode' = mode /\ pushes' = pushes /\ data' = data
      /\ tenant' = tenant /\ news' = news /\ batch' = batch
  BY DEF TenantsListed, postgres
<1>2. Places'
  BY <1>1 DEF IInv, Places, Loading, Present
<1> QED
  BY <1>1, <1>2 DEF IInv, Dated, Kept, Loading

LEMMA LoadKeeps ==
    ASSUME IInv, TypeOK', NEW t \in Tenants, Load(t)
    PROVE  IInv'
<1>1. /\ pc = "load" /\ t \in batch /\ now' = now /\ mode' = mode /\ pushes' = pushes /\ data' = data
      /\ tenant' = t /\ news' = news /\ batch' = batch \ {t} /\ started' = now
      /\ pc' = IF DueForRebuild(data[t]) THEN "begin" ELSE "probe"
  BY DEF Load, postgres
<1>2. Places'
  BY <1>1 DEF IInv, Places, Loading, Present
<1>3. InHand'
  <2>1. now \in Nat /\ now - now = 0 /\ 0 <= Timeout /\ now <= now
    BY DEF IInv, TypeOK
  <2>2. pc' = "probe" => data[t] # NoData /\ data[t] \in Snapshot /\ ~(now - data[t].builtAt >= RebuildEvery)
    BY <1>1, VersionFacts DEF DueForRebuild, IInv
  <2>3. pc' = "probe" => now - data[t].builtAt < RebuildEvery
    BY <2>1, <2>2, SnapFacts
  <2> QED
    BY <1>1, <2>1, <2>2, <2>3 DEF InHand
<1> QED
  BY <1>1, <1>2, <1>3 DEF IInv, Dated, Kept

LEMMA ReturnKeeps ==
    ASSUME IInv, TypeOK', Return, now' = now, mode' = mode, pushes' = pushes, Kept', news' = news, news = {}
    PROVE  IInv'
<1>1. Places'
  BY DEF IInv, Places, Loading, Present, Return
<1> QED
  BY <1>1 DEF IInv, Dated, Return, Loading

LEMMA CatalogVersionKeeps ==
    ASSUME IInv, TypeOK', CatalogVersion
    PROVE  IInv'
<1>1. /\ pc = "probe" /\ pc' = "touch" /\ now' = now /\ mode' = mode /\ pushes' = pushes /\ data' = data
      /\ tenant' = tenant /\ news' = news /\ batch' = batch /\ started' = started
      /\ probed' = Len(pushes[tenant]) /\ draft' = draft
  BY DEF CatalogVersion, postgres, Version
<1>2. Places'
  BY <1>1 DEF IInv, Places, Loading, Present
<1>3. InHand'
  <2>1. InHand /\ Len(pushes[tenant]) \in Nat
    BY <1>1, TenantLoading DEF Loading
  <2>2. MissesNothingBefore(Len(pushes[tenant]), pushes[tenant], started)
    BY <2>1 DEF MissesNothingBefore
  <2> QED
    BY <1>1, <2>1, <2>2 DEF InHand
<1> QED
  BY <1>1, <1>2, <1>3 DEF IInv, Dated, Kept

LEMMA BeginKeeps ==
    ASSUME IInv, TypeOK', ProbeMoved \/ BeginTx
    PROVE  IInv'
<1>1. /\ pc \in {"probe", "touch", "begin"} /\ now' = now /\ mode' = mode /\ pushes' = pushes /\ data' = data
      /\ tenant' = tenant /\ news' = news /\ batch' = batch /\ started' = started
      /\ \/ pc' = "begin"
         \/ pc' = "read" /\ draft' = [version |-> 0, builtAt |-> now, loadedAt |-> now]
  BY DEF ProbeMoved, BeginTx, postgres, loading
<1>2. Places'
  BY <1>1 DEF IInv, Places, Loading, Present
<1>3. InHand'
  <2>1. InHand /\ now \in Nat /\ started \in Nat
    BY <1>1, TenantLoading DEF Loading
  <2>2. pc' = "read" => draft' \in Snapshot /\ draft'.builtAt = now /\ draft'.loadedAt = now
    BY <1>1, <2>1 DEF Snapshot
  <2> QED
    BY <1>1, <2>1, <2>2, NoDataAssumption DEF InHand
<1> QED
  BY <1>1, <1>2, <1>3 DEF IInv, Dated, Kept

LEMMA LoadSnapshotKeeps ==
    ASSUME IInv, TypeOK', LoadSnapshot
    PROVE  IInv'
<1>1. /\ pc = "read" /\ pc' = "rest" /\ now' = now /\ mode' = mode /\ pushes' = pushes /\ data' = data
      /\ tenant' = tenant /\ news' = news /\ batch' = batch /\ started' = started
      /\ draft' = [draft EXCEPT !.version = Len(pushes[tenant])]
  BY DEF LoadSnapshot, postgres, Version
<1>2. Places'
  BY <1>1 DEF IInv, Places, Loading, Present
<1>3. InHand'
  <2>1. /\ InHand /\ draft \in Snapshot /\ Len(pushes[tenant]) \in Nat
        /\ data[tenant] # NoData => data[tenant] \in Snapshot /\ Sound(data[tenant], pushes[tenant], now)
    BY <1>1, TenantLoading DEF Loading, InHand
  <2>2. /\ draft' \in Snapshot /\ draft'.version = Len(pushes[tenant]) /\ draft'.builtAt = draft.builtAt
        /\ draft'.loadedAt = draft.loadedAt
    BY <1>1, <2>1 DEF Snapshot
  <2>3. MissesNothingBefore(Len(pushes[tenant]), pushes[tenant], draft.builtAt)
    BY <2>1 DEF MissesNothingBefore
  <2>4. data[tenant] # NoData => data[tenant].version <= Len(pushes[tenant])
    BY <2>1 DEF Sound, MissesNothingBefore
  <2> QED
    BY <1>1, <2>1, <2>2, <2>3, <2>4, NoDataAssumption DEF InHand
<1> QED
  BY <1>1, <1>2, <1>3 DEF IInv, Dated, Kept

LEMMA AnnounceKeeps ==
    ASSUME IInv, TypeOK', PublishRevocations \/ (\E k \in news : Publish(k))
    PROVE  IInv'
<1>1. /\ pc \in {"publish", "announce"} /\ pc' = "announce" /\ now' = now /\ mode' = mode /\ pushes' = pushes
      /\ data' = data /\ tenant' = tenant /\ batch' = batch /\ started' = started
  BY DEF PublishRevocations, Publish, postgres, loading
<1>2. Places'
  BY <1>1 DEF IInv, Places, Loading, Present
<1>3. InHand'
  <2>1. InHand
    BY <1>1, TenantLoading DEF Loading
  <2> QED
    BY <1>1, <2>1 DEF InHand
<1> QED
  BY <1>1, <1>2, <1>3 DEF IInv, Dated, Kept

LEMMA LeaveKeeps ==
    ASSUME IInv, TypeOK', LoadError \/ LoadDone
    PROVE  IInv'
<1>1. Return /\ now' = now /\ mode' = mode /\ pushes' = pushes /\ data' = data /\ news' = news
  BY DEF LoadError, LoadDone, postgres
<1>2. news = {}
  BY DEF IInv, Places, LoadError, LoadDone
<1>3. Kept'
  BY <1>1 DEF IInv, Kept
<1> QED
  BY <1>1, <1>2, <1>3, ReturnKeeps

(* The answer of the probe is as old as the load at most.                  *)
LEMMA TouchKeeps ==
    ASSUME IInv, TypeOK', Touch
    PROVE  IInv'
<1>1. /\ pc = "touch" /\ probed = data[tenant].version /\ Return /\ now' = now /\ mode' = mode
      /\ pushes' = pushes /\ news' = news /\ data' = [data EXCEPT ![tenant].loadedAt = now]
  BY DEF Touch, Unchanged, postgres
<1>2. /\ InHand /\ tenant \in Tenants /\ data[tenant] \in Snapshot /\ now \in Nat /\ started \in Nat
      /\ pushes[tenant] \in Seq(Nat) /\ Len(pushes[tenant]) \in Nat
      /\ Sound(data[tenant], pushes[tenant], now)
  BY <1>1, TenantLoading DEF Loading, InHand
<1> DEFINE d == [data[tenant] EXCEPT !.loadedAt = now]
<1>3. /\ d \in Snapshot /\ d.loadedAt = now /\ d.builtAt = data[tenant].builtAt
      /\ d.version = data[tenant].version
  BY <1>2 DEF Snapshot
<1>4. data' = [data EXCEPT ![tenant] = d]
  BY <1>1
<1> HIDE DEF d
<1>5. d.version \in Nat /\ d.builtAt \in Nat
  BY <1>3, SnapFacts
<1>6. \A k \in 1 .. Len(pushes[tenant]) : pushes[tenant][k] \in Nat
  BY <1>2
<1>7. Sound(d, pushes[tenant], now)
  <2>1. d.builtAt <= now
    BY <1>2, <1>3, SnapFacts DEF Sound
  <2>2. now - d.builtAt < RebuildEvery + Timeout
    <3>1. started - d.builtAt < RebuildEvery /\ now - started <= Timeout
      BY <1>1, <1>2, <1>3 DEF InHand
    <3>2. RebuildEvery \in Nat /\ Timeout \in Nat /\ started \in Nat /\ now \in Nat
      BY <1>2, Times
    <3> QED
      BY <3>1, <3>2, <1>5
  <2>3. MissesNothingBefore(d.version, pushes[tenant], d.builtAt)
    BY <1>2, <1>3 DEF Sound
  <2>4. MissesNothingBefore(d.version, pushes[tenant], now - Timeout)
    <3>1. MissesNothingBefore(d.version, pushes[tenant], started) /\ now - started <= Timeout
      BY <1>1, <1>2, <1>3 DEF InHand
    <3> QED
      BY <1>2, <1>5, <1>6, <3>1, SMTT(30) DEF MissesNothingBefore
  <2> QED
    BY <1>2, <1>3, <2>1, <2>2, <2>3, <2>4 DEF Sound
<1>8. Kept'
  <2>1. ASSUME NEW u \in Tenants, data'[u] # NoData PROVE Sound(data'[u], pushes[u], now)
    <3>1. CASE u = tenant
      <4>1. data'[u] = d
        BY <1>2, <1>4, <3>1 DEF IInv, TypeOK
      <4> QED
        BY <1>7, <3>1, <4>1
    <3>2. CASE u # tenant
      <4>1. data'[u] = data[u]
        BY <1>4, <3>2 DEF IInv, TypeOK
      <4> QED
        BY <2>1, <4>1 DEF IInv, Kept
    <3> QED
      BY <3>1, <3>2
  <2> QED
    BY <1>1, <2>1 DEF Kept
<1>9. news = {}
  BY <1>1 DEF IInv, Places
<1> QED
  BY <1>1, <1>8, <1>9, ReturnKeeps

LEMMA SwapKeeps ==
    ASSUME IInv, TypeOK', Swap
    PROVE  IInv'
<1>1. /\ pc = "rest" /\ pc' = "publish" /\ now' = now /\ mode' = mode /\ pushes' = pushes
      /\ data' = [data EXCEPT ![tenant] = draft] /\ draft' = data[tenant]
      /\ tenant' = tenant /\ news' = news /\ batch' = batch /\ started' = started
  BY DEF Swap, postgres
<1>2. /\ InHand /\ tenant \in Tenants /\ draft \in Snapshot /\ now \in Nat /\ started \in Nat
      /\ pushes[tenant] \in Seq(Nat) /\ Len(pushes[tenant]) \in Nat
  BY <1>1, TenantLoading DEF Loading, InHand
<1>3. draft # NoData /\ draft.version \in Nat /\ draft.builtAt \in Nat
  BY <1>2, SnapFacts
<1>4. data'[tenant] = draft /\ \A u \in Tenants : u # tenant => data'[u] = data[u]
  BY <1>1, <1>2 DEF IInv, TypeOK
<1>5. Sound(draft, pushes[tenant], now)
  <2>1. /\ draft.loadedAt = draft.builtAt /\ draft.builtAt <= now
        /\ MissesNothingBefore(draft.version, pushes[tenant], draft.builtAt)
    BY <1>1, <1>2 DEF InHand
  <2>2. \A k \in 1 .. Len(pushes[tenant]) : pushes[tenant][k] \in Nat
    BY <1>2
  <2>3. MissesNothingBefore(draft.version, pushes[tenant], draft.loadedAt - Timeout)
    BY <1>2, <1>3, <2>1, <2>2, SMTT(30) DEF MissesNothingBefore
  <2> QED
    BY <1>3, <2>1, <2>3 DEF Sound
<1>6. Kept'
  <2>1. ASSUME NEW u \in Tenants, data'[u] # NoData PROVE Sound(data'[u], pushes[u], now)
    BY <1>4, <1>5, <2>1 DEF IInv, Kept
  <2> QED
    BY <1>1, <2>1 DEF Kept
<1>7. Places'
  BY <1>1 DEF IInv, Places, Loading, Present
<1>8. InHand'
  BY <1>1, <1>2, <1>3, <1>4 DEF InHand
<1> QED
  BY <1>1, <1>6, <1>7, <1>8 DEF IInv, Dated

LEMMA TickKeeps ==
    ASSUME IInv, TypeOK', Tick
    PROVE  IInv'
<1>1. /\ Waits /\ now' = now + 1 /\ mode' = mode /\ pushes' = pushes /\ data' = data /\ batch' = batch
      /\ tenant' = tenant /\ started' = started /\ probed' = probed /\ draft' = draft /\ news' = news
      /\ pc' = pc
  BY DEF Tick, postgres, loading
<1>2. now \in Nat /\ started \in Nat
  BY DEF IInv, TypeOK
<1>3. Dated'
  <2>1. ASSUME NEW t \in Tenants, NEW k \in 1 .. Len(pushes[t]) PROVE pushes[t][k] <= now + 1
    BY <1>2, VersionFacts DEF IInv, Dated
  <2> QED
    BY <1>1, <2>1 DEF Dated
<1>4. Kept'
  <2>1. ASSUME NEW t \in Tenants, data[t] # NoData PROVE Sound(data[t], pushes[t], now + 1)
    BY <1>2, <2>1, VersionFacts, SoundLater DEF IInv, Kept
  <2> QED
    BY <1>1, <2>1 DEF Kept
<1>5. pc \in Loading => InHand'
  <2> SUFFICES ASSUME pc \in Loading PROVE InHand'
    OBVIOUS
  <2>1. InHand /\ now - started < Timeout /\ pc \notin {"publish", "announce"}
    BY <1>1 DEF IInv, Waits, Loading
  <2>2. started <= now + 1 /\ now + 1 - started <= Timeout
    BY <1>2, <2>1 DEF InHand
  <2>3. draft # NoData => draft.builtAt \in Nat
    BY SnapFacts DEF IInv, TypeOK
  <2> QED
    BY <1>1, <1>2, <2>1, <2>2, <2>3 DEF InHand
<1>6. Places'
  <2>1. pc = "listed" => started <= now + 1
    BY <1>2 DEF IInv, Places
  <2> QED
    BY <1>1, <2>1 DEF IInv, Places, Present
<1> QED
  BY <1>1, <1>3, <1>4, <1>5, <1>6 DEF IInv

-----------------------------------------------------------------------------
(* The invariant.                                                          *)

LEMMA InitHolds == Init => IInv
<1> SUFFICES ASSUME Init PROVE IInv
  OBVIOUS
<1>1. TypeOK
  BY InitTypes
<1>2. \A t \in Tenants : data[t] = NoData /\ Len(pushes[t]) = 0
  BY DEF Init
<1>3. pc = "list" /\ batch = {} /\ tenant = NoTenant /\ news = {}
  BY DEF Init
<1> QED
  BY <1>1, <1>2, <1>3 DEF IInv, Places, Dated, Kept, Loading

LEMMA RunHolds ==
    ASSUME IInv, Run
    PROVE  IInv'
<1>1. CASE PollTick \/ TakeDirty \/ CoalesceFires \/ ListTenantsError \/ PassDone
  BY <1>1, LoopTypes, LoopIsAside, AsideKeeps DEF IInv
<1>2. ASSUME ListTenants \/ TenantsListed \/ (\E t \in Tenants : Load(t)) \/ CatalogVersion
             \/ ProbeMoved \/ BeginTx \/ LoadSnapshot \/ LoadError \/ PublishRevocations
             \/ (\E k \in news : Publish(k)) \/ LoadDone
      PROVE  IInv'
  <2>1. pc = "read" => draft # NoData
    BY DEF IInv, InHand, Loading
  <2>2. TypeOK'
    BY <1>2, <2>1, LoadTypes DEF IInv
  <2>3. ASSUME NEW t \in Tenants, Load(t) PROVE IInv'
    BY <2>2, <2>3, LoadKeeps
  <2>4. CASE ProbeMoved \/ BeginTx
    BY <2>2, <2>4, BeginKeeps
  <2>5. CASE LoadError \/ LoadDone
    BY <2>2, <2>5, LeaveKeeps
  <2>6. CASE PublishRevocations \/ (\E k \in news : Publish(k))
    BY <2>2, <2>6, AnnounceKeeps
  <2> HIDE DEF IInv
  <2> QED
    BY <1>2, <2>2, <2>3, <2>4, <2>5, <2>6, ListKeeps, ListedKeeps, CatalogVersionKeeps, LoadSnapshotKeeps, Zenon
<1>3. CASE Touch \/ Swap
  <2>1. TypeOK'
    BY <1>3, SwapTypes DEF IInv
  <2> QED
    BY <1>3, <2>1, TouchKeeps, SwapKeeps
<1> QED
  BY <1>1, <1>2, <1>3, Zenon DEF Run

LEMMA EnvironmentHolds ==
    ASSUME IInv, Environment
    PROVE  IInv'
<1>1. ASSUME NEW t \in Present, Change(t) PROVE IInv'
  BY <1>1, WorldTypes, ChangeKeeps DEF IInv
<1>2. ASSUME NEW t \in Present, SetTenantStatus(t) \/ Notify(t) \/ Subscribe(t) \/ Receive(t) \/ Cancel(t)
      PROVE  IInv'
  <2>1. TypeOK' /\ Aside
    BY <1>2, WorldTypes, WorldIsAside DEF IInv
  <2> QED
    BY <2>1, AsideKeeps
<1>3. CASE ListenerDropped
  <2>1. TypeOK'
    BY <1>3 DEF IInv, TypeOK, ListenerDropped, loop, stream, loading
  <2>2. Aside
    BY <1>3 DEF Aside, ListenerDropped, loop, loading
  <2> QED
    BY <2>1, <2>2, AsideKeeps
<1> QED
  BY <1>1, <1>2, <1>3, Zenon DEF Environment

LEMMA NextHolds == IInv /\ [Next]_vars => IInv'
<1> SUFFICES ASSUME IInv, [Next]_vars PROVE IInv'
  OBVIOUS
<1>1. CASE UNCHANGED vars
  <2>1. TypeOK'
    BY <1>1 DEF IInv, TypeOK, vars, postgres, loop, loading, stream
  <2>2. Aside
    BY <1>1 DEF Aside, vars, postgres, loading
  <2> QED
    BY <2>1, <2>2, AsideKeeps
<1>2. CASE Tick
  <2>1. TypeOK'
    BY <1>2, TickTypes DEF IInv
  <2> QED
    BY <1>2, <2>1, TickKeeps
<1> QED
  BY <1>1, <1>2, RunHolds, EnvironmentHolds DEF Next

(* The invariant holds in every reachable state, for any times, any number *)
(* of tenants and any surroundings.                                        *)
THEOREM InvariantHolds == Spec => []IInv
  BY InitHolds, NextHolds, PTL DEF Spec

(* Every variable keeps to its type.                                       *)
THEOREM TypeCorrect == Spec => []TypeOK
<1>1. IInv => TypeOK
  BY DEF IInv
<1> QED
  BY <1>1, InvariantHolds, PTL

(* What Get hands out as fresh misses no change older than max age and the *)
(* time of one probe (load, touch).                                        *)
THEOREM FreshIsRecent == Spec => []ServedIsRecent
<1>1. IInv => ServedIsRecent
  <2> SUFFICES ASSUME IInv, NEW t \in Tenants, Get(t), NEW k \in data[t].version + 1 .. Version(t)
               PROVE  /\ now - pushes[t][k] <= MaxAge + Timeout
                      /\ data[t].loadedAt = data[t].builtAt => now - pushes[t][k] <= MaxAge
    BY DEF ServedIsRecent
  <2>1. /\ data[t] \in Snapshot /\ Sound(data[t], pushes[t], now) /\ now \in Nat /\ Version(t) = Len(pushes[t])
        /\ now - data[t].loadedAt <= MaxAge
    BY VersionFacts DEF IInv, Kept, Get, TypeOK
  <2>2. data[t].version \in Nat /\ data[t].builtAt \in Nat /\ data[t].loadedAt \in Nat
    BY <2>1, SnapFacts
  <2>3. k \in 1 .. Len(pushes[t])
    BY <2>1, <2>2, VersionFacts DEF IInv
  <2>4. pushes[t][k] \in Nat
    BY <2>3, VersionFacts DEF IInv
  <2>5. data[t].builtAt <= pushes[t][k] /\ data[t].loadedAt - Timeout <= pushes[t][k]
    BY <2>1 DEF Sound, MissesNothingBefore
  <2>6. now - pushes[t][k] <= MaxAge + Timeout
    <3> DEFINE q == pushes[t][k]
               l == data[t].loadedAt
    <3>1. q \in Nat /\ l \in Nat /\ l - Timeout <= q
      BY <2>2, <2>4, <2>5
    <3>2. now \in Nat /\ now - l <= MaxAge
      BY <2>1
    <3>3. MaxAge \in Nat /\ Timeout \in Nat
      BY Times
    <3> HIDE DEF q, l
    <3>4. now - q <= MaxAge + Timeout
      BY <3>1, <3>2, <3>3
    <3> QED
      BY <3>4 DEF q
  <2>7. data[t].loadedAt = data[t].builtAt => now - pushes[t][k] <= MaxAge
    BY <2>1, <2>2, <2>4, <2>5
  <2> QED
    BY <2>6, <2>7
<1> QED
  BY <1>1, InvariantHolds, PTL

(* What Get hands out as fresh was built within twice max age and a probe, *)
(* though its version never moved (rebuildEvery).                          *)
THEOREM RebuiltBeforeLong == Spec => []RebuiltInTime
<1>1. IInv => RebuiltInTime
  <2> SUFFICES ASSUME IInv, NEW t \in Tenants, Get(t)
               PROVE  now - data[t].builtAt < 2 * MaxAge + Timeout
    BY DEF RebuiltInTime
  <2>1. /\ data[t] \in Snapshot /\ Sound(data[t], pushes[t], now) /\ now \in Nat
        /\ now - data[t].loadedAt <= MaxAge
    BY VersionFacts DEF IInv, Kept, Get, TypeOK
  <2>2. data[t].builtAt \in Nat /\ data[t].loadedAt \in Nat
    BY <2>1, SnapFacts
  <2> QED
    BY <2>1, <2>2 DEF Sound
<1> QED
  BY <1>1, InvariantHolds, PTL

(* A revoked session is denied to the end of the window, from when the     *)
(* gate has learnt of it and, by what is served as fresh, once max age and *)
(* a probe are over, whatever the life of its tokens                       *)
(* (SnapshotRevokedSessions).                                              *)
THEOREM DeniedStaysDenied == Spec => []DeniedForTheWindow
<1>1. IInv => DeniedForTheWindow
  <2> SUFFICES ASSUME IInv, NEW t \in Tenants, data[t] # NoData, NEW k \in 1 .. Version(t),
                      now < pushes[t][k] + Window,
                      k <= data[t].version \/ (Get(t) /\ now - pushes[t][k] > MaxAge + Timeout)
               PROVE  k \in RevokedSessions(t, data[t])
    BY DEF DeniedForTheWindow
  <2>1. data[t] \in Snapshot /\ Sound(data[t], pushes[t], now) /\ now \in Nat
    BY VersionFacts DEF IInv, Kept, TypeOK
  <2>2. data[t].version \in Nat /\ data[t].builtAt \in Nat /\ data[t].loadedAt \in Nat
    BY <2>1, SnapFacts
  <2>3. k \in 1 .. Len(pushes[t]) /\ Len(pushes[t]) \in Nat
    BY VersionFacts DEF IInv
  <2>4. pushes[t][k] \in Nat
    BY <2>3, VersionFacts DEF IInv
  <2>5. k \in 1 .. data[t].version
    <3>1. CASE k <= data[t].version
      BY <2>2, <2>3, <3>1
    <3>2. CASE Get(t) /\ now - pushes[t][k] > MaxAge + Timeout /\ ~(k <= data[t].version)
      <4>1. k \in data[t].version + 1 .. Len(pushes[t])
        BY <2>2, <2>3, <3>2
      <4>2. data[t].loadedAt - Timeout <= pushes[t][k]
        BY <2>1, <4>1 DEF Sound, MissesNothingBefore
      <4> DEFINE q == pushes[t][k]
                 l == data[t].loadedAt
      <4>3. q \in Nat /\ l \in Nat /\ l - Timeout <= q /\ now - l <= MaxAge /\ now - q > MaxAge + Timeout
        BY <2>2, <2>4, <3>2, <4>2 DEF Get
      <4>4. now \in Nat /\ MaxAge \in Nat /\ Timeout \in Nat
        BY <2>1, Times
      <4> HIDE DEF q, l
      <4> QED
        BY <4>3, <4>4
    <3> QED
      BY <3>1, <3>2
  <2>6. pushes[t][k] > data[t].builtAt - Window
    BY <2>1, <2>2, <2>4 DEF Sound
  <2> QED
    BY <2>5, <2>6 DEF RevokedSessions
<1> QED
  BY <1>1, InvariantHolds, PTL

-----------------------------------------------------------------------------
(* The revocation stream.                                                  *)

(* The steps, by what they do to it.                                       *)
Apart ==
    /\ data' = data /\ heard' = heard /\ queue' = queue /\ dropped' = dropped
    /\ pc' = pc /\ pc \in {"publish", "announce"} => tenant' = tenant /\ news' = news /\ draft' = draft
    /\ pc' \notin {"publish", "announce"} \/ pc' = pc
    /\ pc' # pc => pc # "publish" /\ (pc = "announce" => news = {})

LEMMA StreamCases ==
    ASSUME [Next]_vars
    PROVE  \/ Apart /\ subs' = subs /\ since' = since
              /\ (pushes' = pushes \/ \E t \in Present : Change(t))
           \/ Touch \/ Swap \/ PublishRevocations \/ \E k \in news : Publish(k)
           \/ \E t \in Present : Subscribe(t) \/ Receive(t) \/ Cancel(t)
<1> DEFINE Calm == /\ Apart /\ subs' = subs /\ since' = since
                   /\ (pushes' = pushes \/ \E t \in Present : Change(t))
<1>1. CASE UNCHANGED vars
  BY <1>1 DEF Apart, vars, postgres, loop, loading, stream
<1>2. CASE PollTick \/ TakeDirty \/ CoalesceFires \/ ListTenantsError \/ PassDone
  BY <1>2 DEF Apart, PollTick, TakeDirty, CoalesceFires, StartPass, ListTenantsError, PassDone, EndPass,
              postgres, loading, stream
<1>3. ASSUME NEW t \in Tenants, Load(t) PROVE Calm
  BY <1>3 DEF Apart, Load, postgres, loop, stream
<1>4. CASE ListTenants \/ TenantsListed \/ CatalogVersion \/ ProbeMoved \/ BeginTx \/ LoadSnapshot
  BY <1>4 DEF Apart, ListTenants, TenantsListed, CatalogVersion, ProbeMoved, BeginTx, LoadSnapshot, postgres, loop, loading, stream
<1>5. CASE LoadError \/ LoadDone
  BY <1>5 DEF Apart, LoadError, LoadDone, Return, postgres, loop, stream
<1>6. ASSUME NEW t \in Present, Change(t) PROVE Calm
  BY <1>6 DEF Apart, Change, loop, loading, stream
<1>7. ASSUME NEW t \in Present, SetTenantStatus(t) \/ Notify(t) PROVE Calm
  BY <1>7 DEF Apart, SetTenantStatus, Notify, loop, loading, stream
<1>8. CASE ListenerDropped \/ Tick
  <2>1. CASE ListenerDropped
    BY <2>1 DEF Apart, ListenerDropped, loop, loading, stream
  <2>2. CASE Tick
    BY <2>2 DEF Apart, Tick, postgres, loading, stream
  <2> QED
    BY <1>8, <2>1, <2>2
<1> HIDE DEF Calm
<1>9. Calm \/ Touch \/ Swap \/ PublishRevocations \/ (\E k \in news : Publish(k))
        \/ (\E t \in Present : Subscribe(t) \/ Receive(t) \/ Cancel(t))
  BY <1>1, <1>2, <1>3, <1>4, <1>5, <1>6, <1>7, <1>8, Zenon DEF Next, Run, Environment, Calm
<1> QED
  BY <1>9 DEF Calm

(* A new snapshot has everything the one before had.                       *)
LEMMA SwapFacts ==
    ASSUME IInv, Touch \/ Swap
    PROVE  /\ tenant \in Tenants
           /\ \A t \in Tenants : t # tenant => data'[t] = data[t]
           /\ data'[tenant] # NoData /\ data'[tenant] \in Snapshot
           /\ data[tenant] # NoData => data[tenant].version <= data'[tenant].version
           /\ heard' = heard /\ queue' = queue /\ dropped' = dropped /\ subs' = subs /\ since' = since
           /\ pushes' = pushes /\ pc # "publish"
           /\ Touch => /\ data[tenant] # NoData /\ data'[tenant].version = data[tenant].version
                       /\ data'[tenant].builtAt = data[tenant].builtAt
                       /\ pc' = "load" /\ pc = "touch"
           /\ Swap => pc = "rest" /\ pc' = "publish" /\ tenant' = tenant /\ draft' = data[tenant]
<1>1. CASE Touch
  <2>1. /\ pc = "touch" /\ pc' = "load" /\ data' = [data EXCEPT ![tenant].loadedAt = now]
        /\ heard' = heard /\ queue' = queue /\ dropped' = dropped /\ subs' = subs /\ since' = since
        /\ pushes' = pushes
    BY <1>1 DEF Touch, Unchanged, Return, postgres, stream
  <2>2. tenant \in Tenants /\ data[tenant] \in Snapshot /\ now \in Nat /\ data[tenant] # NoData
    BY <2>1, TenantLoading DEF Loading, InHand
  <2> DEFINE d == [data[tenant] EXCEPT !.loadedAt = now]
  <2>3. d \in Snapshot /\ d.version = data[tenant].version /\ d.builtAt = data[tenant].builtAt /\ d.version \in Nat
    BY <2>2 DEF Snapshot
  <2>4. data' = [data EXCEPT ![tenant] = d]
    BY <2>1
  <2> HIDE DEF d
  <2>5. data'[tenant] = d /\ \A t \in Tenants : t # tenant => data'[t] = data[t]
    BY <2>2, <2>4 DEF IInv, TypeOK
  <2>6. ~Swap
    BY <2>1 DEF Swap
  <2> QED
    BY <2>1, <2>2, <2>3, <2>5, <2>6, NoDataAssumption
<1>2. CASE Swap
  <2>1. /\ pc = "rest" /\ pc' = "publish" /\ data' = [data EXCEPT ![tenant] = draft] /\ draft' = data[tenant]
        /\ heard' = heard /\ queue' = queue /\ dropped' = dropped /\ subs' = subs /\ since' = since
        /\ pushes' = pushes /\ tenant' = tenant
    BY <1>2 DEF Swap, postgres, stream
  <2>2. /\ tenant \in Tenants /\ draft \in Snapshot /\ draft # NoData
        /\ data[tenant] # NoData => data[tenant].version <= draft.version
    BY <2>1, TenantLoading DEF Loading, InHand
  <2>3. data'[tenant] = draft /\ \A t \in Tenants : t # tenant => data'[t] = data[t]
    BY <2>1, <2>2 DEF IInv, TypeOK
  <2>4. ~Touch
    BY <2>1 DEF Touch, Unchanged
  <2> QED
    BY <2>1, <2>2, <2>3, <2>4
<1> QED
  BY <1>1, <1>2

LEMMA QueuedFacts ==
    ASSUME NEW q \in Seq(Nat), NEW k \in Nat
    PROVE  /\ Queued(<<>>) = {}
           /\ Queued(Append(q, k)) = Queued(q) \cup {k}
           /\ q # <<>> => Queued(q) = Queued(Tail(q)) \cup {Head(q)}
<1>1. Queued(<<>>) = {}
  BY DEF Queued
<1>2. Queued(Append(q, k)) = Queued(q) \cup {k}
  <2>1. Len(q) \in Nat /\ Len(Append(q, k)) = Len(q) + 1 /\ Append(q, k)[Len(q) + 1] = k
    OBVIOUS
  <2>2. \A i \in 1 .. Len(q) : Append(q, k)[i] = q[i] /\ i \in 1 .. Len(q) + 1
    OBVIOUS
  <2>3. \A i \in 1 .. Len(q) + 1 : i \in 1 .. Len(q) \/ i = Len(q) + 1
    BY <2>1
  <2>4. Len(q) + 1 \in 1 .. Len(q) + 1
    BY <2>1
  <2> QED
    BY <2>1, <2>2, <2>3, <2>4 DEF Queued
<1>3. ASSUME q # <<>> PROVE Queued(q) = Queued(Tail(q)) \cup {Head(q)}
  <2>1. /\ Len(q) \in Nat /\ Len(q) >= 1 /\ Len(Tail(q)) = Len(q) - 1 /\ Head(q) = q[1]
        /\ \A i \in 1 .. Len(q) - 1 : Tail(q)[i] = q[i + 1]
    BY <1>3
  <2>2. \A i \in 1 .. Len(q) : i = 1 \/ (i - 1 \in 1 .. Len(q) - 1 /\ q[i] = Tail(q)[i - 1])
    BY <2>1
  <2>3. \A i \in 1 .. Len(q) - 1 : i + 1 \in 1 .. Len(q)
    BY <2>1
  <2>4. 1 \in 1 .. Len(q)
    BY <2>1
  <2>5. Queued(q) \subseteq Queued(Tail(q)) \cup {Head(q)}
    BY <2>1, <2>2 DEF Queued
  <2>6. Queued(Tail(q)) \cup {Head(q)} \subseteq Queued(q)
    BY <2>1, <2>3, <2>4 DEF Queued
  <2> QED
    BY <2>5, <2>6
<1> QED
  BY <1>1, <1>2, <1>3

LEMMA AnnouncedStep ==
    ASSUME IInv, IInv', Announced, [Next]_vars
    PROVE  Announced'
<1>0. TypeOK
  BY DEF IInv
<1>1. CASE Apart
  BY <1>1 DEF Apart, Announced
<1>2. CASE Touch \/ Swap
  <2>1. ASSUME NEW t \in Tenants, NEW k \in heard[t] \cup Queued(queue[t])
        PROVE  data'[t] # NoData /\ k <= data'[t].version
    <3>1. data[t] # NoData /\ k <= data[t].version
      BY <2>1 DEF Announced
    <3>2. CASE t # tenant
      BY <1>2, <3>1, <3>2, SwapFacts
    <3>3. CASE t = tenant
      <4>1. data[t] \in Snapshot /\ data'[t] \in Snapshot /\ data[t].version <= data'[t].version /\ data'[t] # NoData
        BY <1>0, <1>2, <3>1, <3>3, SwapFacts, VersionFacts
      <4>2. k \in Nat
        BY <1>0, <2>1 DEF TypeOK, Queued
      <4> QED
        BY <3>1, <4>1, <4>2, SnapFacts
    <3> QED
      BY <3>2, <3>3
  <2>2. pc' # "announce"
    BY <1>2, SwapFacts
  <2> QED
    BY <1>2, <2>1, <2>2, SwapFacts DEF Announced
<1>3. CASE PublishRevocations
  <2>1. /\ pc = "publish" /\ data' = data /\ tenant' = tenant /\ heard' = heard /\ queue' = queue
        /\ news' \subseteq News(tenant, draft, data[tenant])
    BY <1>3 DEF PublishRevocations, loading, stream
  <2>2. data[tenant] \in Snapshot
    BY <2>1, TenantLoading DEF Loading, InHand
  <2>3. \A k \in news' : k <= data[tenant].version
    BY <2>1, <2>2, SnapFacts DEF News, RevokedSessions
  <2> QED
    BY <2>1, <2>3 DEF Announced
<1>4. ASSUME NEW n \in news, Publish(n) PROVE Announced'
  <2>1. /\ pc = "announce" /\ pc' = pc /\ data' = data /\ tenant' = tenant /\ heard' = heard
        /\ news' = news \ {n} /\ (queue' = queue \/ queue' = [queue EXCEPT ![tenant] = Append(@, n)])
    BY <1>4 DEF Publish, loading
  <2>2. tenant \in Tenants /\ data[tenant] # NoData /\ n \in Nat /\ n <= data[tenant].version
    BY <1>0, <2>1, TenantLoading DEF Loading, InHand, TypeOK, Announced
  <2>3. CASE queue' = queue
    BY <2>1, <2>3 DEF Announced
  <2>4. CASE queue' = [queue EXCEPT ![tenant] = Append(@, n)]
    <3>1. queue[tenant] \in Seq(Nat)
      BY <1>0, <2>2 DEF TypeOK
    <3>2. Queued(queue'[tenant]) = Queued(queue[tenant]) \cup {n}
      <4>1. queue'[tenant] = Append(queue[tenant], n)
        BY <1>0, <2>2, <2>4 DEF TypeOK
      <4> QED
        BY <2>2, <3>1, <4>1, QueuedFacts
    <3>3. ASSUME NEW t \in Tenants, t # tenant PROVE queue'[t] = queue[t]
      BY <1>0, <2>4, <3>3 DEF TypeOK
    <3>4. ASSUME NEW t \in Tenants, NEW k \in heard[t] \cup Queued(queue'[t])
          PROVE  data[t] # NoData /\ k <= data[t].version
      <4>1. CASE t = tenant /\ k = n
        BY <2>2, <4>1
      <4>2. CASE ~(t = tenant /\ k = n)
        <5>1. k \in heard[t] \cup Queued(queue[t])
          BY <3>2, <3>3, <3>4, <4>2
        <5> QED
          BY <5>1 DEF Announced
      <4> QED
        BY <4>1, <4>2
    <3> QED
      BY <2>1, <3>4 DEF Announced
  <2> QED
    BY <2>1, <2>3, <2>4
<1>5. ASSUME NEW t \in Present, Subscribe(t) \/ Receive(t) \/ Cancel(t) PROVE Announced'
  <2>0. t \in Tenants
    BY <1>0, PresentFacts
  <2>1. data' = data /\ pc' = pc /\ tenant' = tenant /\ news' = news
    BY <1>5 DEF Subscribe, Receive, Cancel, loading
  <2>2. ASSUME NEW u \in Tenants
        PROVE  heard'[u] \cup Queued(queue'[u]) \subseteq heard[u] \cup Queued(queue[u])
    <3>1. CASE Subscribe(t)
      BY <3>1 DEF Subscribe
    <3>2. CASE (Receive(t) \/ Cancel(t)) /\ u # t
      BY <1>0, <2>0, <3>2 DEF Receive, Cancel, TypeOK
    <3>3. CASE Receive(t) /\ u = t
      <4>1. queue[t] \in Seq(Nat) /\ queue[t] # <<>>
        BY <1>0, <2>0, <3>3 DEF Receive, TypeOK
      <4>2. heard'[t] = heard[t] \cup {Head(queue[t])} /\ queue'[t] = Tail(queue[t])
        BY <1>0, <2>0, <3>3 DEF Receive, TypeOK
      <4>3. Queued(queue[t]) = Queued(Tail(queue[t])) \cup {Head(queue[t])}
        BY <4>1, QueuedFacts
      <4> QED
        BY <3>3, <4>2, <4>3
    <3>4. CASE Cancel(t) /\ u = t
      <4>1. heard'[t] = {} /\ queue'[t] = <<>>
        BY <1>0, <2>0, <3>4 DEF Cancel, TypeOK
      <4> QED
        BY <3>4, <4>1 DEF Queued
    <3> QED
      BY <1>5, <3>1, <3>2, <3>3, <3>4
  <2> QED
    BY <2>1, <2>2 DEF Announced
<1> QED
  BY <1>1, <1>2, <1>3, <1>4, <1>5, StreamCases, Zenon

LEMMA AnnouncedInit == Init => Announced
  BY DEF Init, Announced, Queued

(* An announced revocation is enforced before it is announced (load, swap  *)
(* before publishRevocations).                                             *)
THEOREM EnforcedFirst == Spec => []AnnouncedIsServed
<1>1. Announced => AnnouncedIsServed
  BY DEF Announced, AnnouncedIsServed, Queued
<1>2. IInv /\ IInv' /\ Announced /\ [Next]_vars => Announced'
  BY AnnouncedStep
<1> QED
  BY <1>1, <1>2, AnnouncedInit, InvariantHolds, PTL DEF Spec

-----------------------------------------------------------------------------
(* A synced consumer.                                                      *)

(* Changes that come later are not a snapshot's.                           *)
LEMMA DeniedSame ==
    ASSUME TypeOK, pushes' = pushes \/ \E u \in Present : Change(u), NEW t \in Tenants,
           NEW d \in Snapshot, d.version <= Len(pushes[t])
    PROVE  Denied(pushes'[t], d) = Denied(pushes[t], d)
<1>0. d.version \in Nat /\ Len(pushes[t]) \in Nat /\ pushes[t] \in Seq(Nat) /\ now \in Nat
  BY SnapFacts, VersionFacts DEF TypeOK
<1>1. CASE pushes' = pushes
  BY <1>1
<1>2. ASSUME NEW u \in Present, Change(u) PROVE Denied(pushes'[t], d) = Denied(pushes[t], d)
  <2>1. u \in Tenants /\ pushes' = [pushes EXCEPT ![u] = Append(@, now)]
    BY <1>2, PresentFacts DEF Change
  <2>2. CASE u # t
    <3>1. pushes'[t] = pushes[t]
      BY <2>1, <2>2 DEF TypeOK
    <3> QED
      BY <3>1
  <2>3. CASE u = t
    <3>1. pushes'[t] = Append(pushes[t], now)
      BY <2>1, <2>3 DEF TypeOK
    <3>2. \A k \in 1 .. d.version : Append(pushes[t], now)[k] = pushes[t][k]
      BY <1>0
    <3> QED
      BY <3>1, <3>2 DEF Denied
  <2> QED
    BY <2>2, <2>3
<1> QED
  BY <1>1, <1>2

(* A consumer's state goes on when its snapshot, its news and the version  *)
(* it was synced at do.                                                    *)
LEMMA KeptUpToDateLasts ==
    ASSUME IInv, NEW t \in Tenants, KeptUpToDate(t), since'[t] = since[t], data'[t] = data[t],
           pushes' = pushes \/ \E u \in Present : Change(u),
           Told(t) \subseteq Told(t)', Swapped(t)' <=> Swapped(t), Swapped(t) => draft' = draft
    PROVE  KeptUpToDate(t)'
<1>0. TypeOK
  BY DEF IInv
<1>1. data[t] \in Snapshot /\ data[t].version <= Len(pushes[t]) /\ data[t].version \in Nat /\ Len(pushes[t]) \in Nat
  BY <1>0, VersionFacts, SnapFacts DEF IInv, Kept, Sound, MissesNothingBefore, KeptUpToDate
<1>2. Denied(pushes'[t], data[t]) = Denied(pushes[t], data[t])
  BY <1>0, <1>1, DeniedSame
<1>3. ASSUME Swapped(t), draft # NoData PROVE Denied(pushes'[t], draft) = Denied(pushes[t], draft)
  <2>1. draft \in Snapshot /\ draft.version <= data[t].version
    BY <1>3, TenantLoading DEF Swapped, Loading, InHand
  <2>2. draft.version <= Len(pushes[t])
    BY <1>1, <2>1, SnapFacts
  <2> QED
    BY <1>0, <2>1, <2>2, DeniedSame
<1> HIDE DEF Swapped, Told, Denied
<1> QED
  BY <1>1, <1>2, <1>3 DEF KeptUpToDate

LEMMA SyncedStep ==
    ASSUME IInv, IInv', Synced, [Next]_vars
    PROVE  Synced'
<1>0. TypeOK /\ subs \subseteq Tenants /\ subs' \subseteq Tenants
  BY DEF IInv, TypeOK
<1>1. ASSUME Apart, subs' = subs, since' = since, pushes' = pushes \/ \E t \in Present : Change(t)
      PROVE  Synced'
  <2> SUFFICES ASSUME NEW t \in subs, since[t] # Never PROVE KeptUpToDate(t)'
    BY <1>1 DEF Synced
  <2>1. KeptUpToDate(t) /\ t \in Tenants /\ data' = data
    BY <1>0, <1>1 DEF Synced, Apart
  <2>2. Told(t) \subseteq Told(t)' /\ (Swapped(t)' <=> Swapped(t)) /\ (Swapped(t) => draft' = draft)
    <3>1. CASE pc' = pc /\ pc \in {"publish", "announce"}
      BY <1>1, <3>1 DEF Apart, Told, Swapped
    <3>2. CASE ~(pc' = pc /\ pc \in {"publish", "announce"})
      <4>1. pc # "publish" /\ pc' # "publish" /\ pc' # "announce" /\ (pc = "announce" => news = {})
        BY <1>1, <3>2 DEF Apart
      <4> QED
        BY <1>1, <4>1 DEF Apart, Told, Swapped
    <3> QED
      BY <3>1, <3>2
  <2> QED
    BY <1>1, <2>1, <2>2, KeptUpToDateLasts
<1>2. CASE Touch \/ Swap
  <2> SUFFICES ASSUME NEW t \in subs, since[t] # Never PROVE KeptUpToDate(t)'
    BY <1>2, SwapFacts DEF Synced
  <2>1. /\ KeptUpToDate(t) /\ t \in Tenants /\ data[t] # NoData /\ ~Swapped(t)
        /\ \A k \in Denied(pushes[t], data[t]) : since[t] < k => k \in Told(t)
    BY <1>0, <1>2, SwapFacts DEF Synced, KeptUpToDate, Swapped
  <2>2. Told(t)' = Told(t)
    BY <1>2, SwapFacts DEF Told
  <2>3. CASE t # tenant
    <3>1. ~Swapped(t)'
      BY <1>2, <2>3, SwapFacts DEF Swapped
    <3> QED
      BY <1>2, <2>1, <2>2, <2>3, <3>1, SwapFacts, KeptUpToDateLasts
  <2>4. CASE t = tenant /\ Touch
    <3>1. Denied(pushes'[t], data'[t]) = Denied(pushes[t], data[t])
      BY <2>4, SwapFacts DEF Denied
    <3>2. ~Swapped(t)'
      BY <2>4, SwapFacts DEF Swapped
    <3> QED
      BY <1>2, <2>1, <2>2, <2>4, <3>1, <3>2, SwapFacts DEF KeptUpToDate
  <2>5. CASE t = tenant /\ Swap
    <3>1. Swapped(t)' /\ draft' = data[t] /\ data'[t] # NoData
      BY <2>5, SwapFacts DEF Swapped
    <3> QED
      BY <1>2, <2>1, <2>2, <3>1, SwapFacts DEF KeptUpToDate
  <2> QED
    BY <1>2, <2>3, <2>4, <2>5
<1>3. CASE PublishRevocations
  <2>1. /\ pc = "publish" /\ pc' = "announce" /\ data' = data /\ tenant' = tenant /\ heard' = heard
        /\ queue' = queue /\ dropped' = dropped /\ subs' = subs /\ since' = since /\ pushes' = pushes
        /\ tenant \in subs => news' = News(tenant, draft, data[tenant])
    BY <1>3 DEF PublishRevocations, loading, stream, postgres
  <2> SUFFICES ASSUME NEW t \in subs, since[t] # Never PROVE KeptUpToDate(t)'
    BY <2>1 DEF Synced
  <2>2. KeptUpToDate(t) /\ t \in Tenants
    BY <1>0 DEF Synced
  <2>3. Told(t) \subseteq Told(t)'
    BY <2>1 DEF Told
  <2>4. CASE t # tenant
    <3>1. ~Swapped(t)' /\ ~Swapped(t)
      BY <2>1, <2>4 DEF Swapped
    <3> QED
      BY <2>1, <2>2, <2>3, <3>1, KeptUpToDateLasts
  <2>5. CASE t = tenant
    <3>1. ~Swapped(t)' /\ Swapped(t) /\ news' \subseteq Told(t)'
      BY <2>1, <2>5 DEF Swapped, Told
    <3>2. data[t] \in Snapshot /\ data[t].version \in Nat /\ since[t] \in Nat
      BY <1>0, <2>2, VersionFacts, SnapFacts DEF KeptUpToDate, TypeOK
    <3>3. ASSUME NEW k \in Denied(pushes[t], data[t]), since[t] < k PROVE k \in Told(t)'
      <4>1. k \in 1 .. data[t].version
        BY DEF Denied
      <4>2. draft # NoData
        BY <2>2, <3>1, <3>2, <3>3, <4>1 DEF KeptUpToDate
      <4>3. CASE k \in Denied(pushes[t], draft)
        BY <2>2, <2>3, <3>1, <3>3, <4>2, <4>3 DEF KeptUpToDate
      <4>4. CASE k \notin Denied(pushes[t], draft)
        <5>1. k \in news'
          BY <2>1, <2>5, <4>2, <4>4 DEF News, RevokedSessions, Denied
        <5> QED
          BY <3>1, <5>1
      <4> QED
        BY <4>3, <4>4
    <3> QED
      BY <2>1, <2>2, <3>1, <3>3 DEF KeptUpToDate
  <2> QED
    BY <2>4, <2>5
<1>4. ASSUME NEW n \in news, Publish(n) PROVE Synced'
  <2>1. /\ pc = "announce" /\ pc' = pc /\ data' = data /\ tenant' = tenant /\ heard' = heard
        /\ subs' = subs /\ since' = since /\ pushes' = pushes /\ news' = news \ {n}
        /\ \/ queue' = [queue EXCEPT ![tenant] = Append(@, n)] /\ dropped' = dropped
           \/ /\ dropped' = [dropped EXCEPT ![tenant] = IF tenant \in subs THEN @ \cup {n} ELSE @]
              /\ queue' = queue
    BY <1>4 DEF Publish, loading, postgres
  <2>2. tenant \in Tenants /\ n \in Nat
    BY <1>0, <2>1, TenantLoading DEF Loading, TypeOK
  <2> SUFFICES ASSUME NEW t \in subs, since[t] # Never PROVE KeptUpToDate(t)'
    BY <2>1 DEF Synced
  <2>3. KeptUpToDate(t) /\ t \in Tenants /\ ~Swapped(t) /\ ~Swapped(t)' /\ queue[t] \in Seq(Nat)
    BY <1>0, <2>1 DEF Synced, Swapped, TypeOK
  <2>4. Told(t) \subseteq Told(t)'
    <3>1. CASE t # tenant
      <4>1. queue'[t] = queue[t] /\ dropped'[t] = dropped[t]
        BY <1>0, <2>1, <2>3, <3>1 DEF TypeOK
      <4> QED
        BY <2>1, <3>1, <4>1 DEF Told
    <3>2. CASE t = tenant /\ queue' = [queue EXCEPT ![tenant] = Append(@, n)] /\ dropped' = dropped
      <4>1. queue'[t] = Append(queue[t], n)
        BY <1>0, <2>3, <3>2 DEF TypeOK
      <4>2. Queued(queue'[t]) = Queued(queue[t]) \cup {n}
        BY <2>2, <2>3, <4>1, QueuedFacts
      <4> QED
        BY <2>1, <3>2, <4>2 DEF Told
    <3>3. CASE /\ t = tenant /\ queue' = queue
               /\ dropped' = [dropped EXCEPT ![tenant] = IF tenant \in subs THEN @ \cup {n} ELSE @]
      <4>1. dropped'[t] = dropped[t] \cup {n}
        BY <1>0, <2>3, <3>3 DEF TypeOK
      <4> QED
        BY <2>1, <3>3, <4>1 DEF Told
    <3> QED
      BY <2>1, <3>1, <3>2, <3>3
  <2> QED
    BY <2>1, <2>3, <2>4, KeptUpToDateLasts
<1>5. ASSUME NEW u \in Present, Subscribe(u) \/ Receive(u) \/ Cancel(u) PROVE Synced'
  <2>0. u \in Tenants
    BY <1>0, PresentFacts
  <2>1. data' = data /\ pc' = pc /\ tenant' = tenant /\ news' = news /\ draft' = draft /\ pushes' = pushes
    BY <1>5 DEF Subscribe, Receive, Cancel, loading, postgres
  <2> SUFFICES ASSUME NEW t \in subs', since'[t] # Never PROVE KeptUpToDate(t)'
    BY DEF Synced
  <2>2. t \in Tenants /\ (Swapped(t)' <=> Swapped(t))
    BY <1>0, <2>1 DEF Swapped
  <2>3. CASE t # u
    <3>1. /\ t \in subs /\ since'[t] = since[t] /\ heard'[t] = heard[t] /\ queue'[t] = queue[t]
          /\ dropped'[t] = dropped[t]
      BY <1>0, <1>5, <2>0, <2>2, <2>3 DEF Subscribe, Receive, Cancel, TypeOK
    <3>2. KeptUpToDate(t) /\ Told(t)' = Told(t)
      BY <2>1, <3>1 DEF Synced, Told
    <3> QED
      BY <2>1, <2>2, <3>1, <3>2, KeptUpToDateLasts
  <2>4. CASE t = u /\ Subscribe(u)
    <3>1. since'[t] = IF data[t] = NoData THEN Never ELSE Version(t)
      BY <1>0, <2>0, <2>4 DEF Subscribe, TypeOK
    <3>2. data[t] # NoData /\ since'[t] = Len(pushes[t])
      BY <3>1 DEF Version
    <3>3. /\ data[t] \in Snapshot /\ data[t].version <= Len(pushes[t]) /\ data[t].version \in Nat
          /\ Len(pushes[t]) \in Nat
      BY <1>0, <2>2, <3>2, VersionFacts, SnapFacts DEF IInv, Kept, Sound, MissesNothingBefore
    <3>4. \A k \in Denied(pushes[t], data[t]) : ~(since'[t] < k)
      BY <3>2, <3>3 DEF Denied
    <3>5. ASSUME Swapped(t), draft # NoData PROVE \A k \in Denied(pushes[t], draft) : ~(since'[t] < k)
      <4>1. draft \in Snapshot /\ draft.version <= data[t].version
        BY <3>5, TenantLoading DEF Swapped, Loading, InHand
      <4>2. draft.version \in Nat
        BY <4>1, SnapFacts
      <4> QED
        BY <3>2, <3>3, <4>1, <4>2 DEF Denied
    <3> QED
      BY <2>1, <2>2, <3>2, <3>3, <3>4, <3>5 DEF KeptUpToDate
  <2>5. CASE t = u /\ Receive(u)
    <3>1. queue[t] \in Seq(Nat) /\ queue[t] # <<>>
      BY <1>0, <2>0, <2>5 DEF Receive, TypeOK
    <3>2. /\ heard'[t] = heard[t] \cup {Head(queue[t])} /\ queue'[t] = Tail(queue[t])
          /\ dropped' = dropped /\ since' = since /\ subs' = subs
      BY <1>0, <2>0, <2>5 DEF Receive, TypeOK
    <3>3. Queued(queue[t]) = Queued(Tail(queue[t])) \cup {Head(queue[t])}
      BY <3>1, QueuedFacts
    <3>4. Told(t) \subseteq Told(t)'
      BY <2>1, <3>2, <3>3 DEF Told
    <3>5. KeptUpToDate(t)
      BY <3>2 DEF Synced
    <3> QED
      BY <2>1, <2>2, <3>2, <3>4, <3>5, KeptUpToDateLasts
  <2>6. ~(t = u /\ Cancel(u))
    BY DEF Cancel
  <2> QED
    BY <1>5, <2>3, <2>4, <2>5, <2>6
<1> QED
  BY <1>1, <1>2, <1>3, <1>4, <1>5, StreamCases, Zenon

LEMMA SyncedInit == Init => Synced
  BY DEF Init, Synced

(* A consumer that was told it is synced is sent, or counted as having     *)
(* lost, every revocation the gate has learnt of since and still denies    *)
(* (publishRevocations, Publish, StreamRevocations).                       *)
THEOREM SyncedMissesNothing == Spec => []SyncedHearsAll
<1>1. IInv /\ Synced => SyncedHearsAll
  <2> SUFFICES ASSUME IInv, Synced, NEW t \in subs, since[t] # Never, tenant # t,
                      NEW k \in (since[t] + 1 .. data[t].version) \cap RevokedSessions(t, data[t])
               PROVE  k \in heard[t] \cup dropped[t] \cup Queued(queue[t])
    BY DEF SyncedHearsAll, Queued
  <2>1. KeptUpToDate(t) /\ t \in Tenants /\ ~Swapped(t)
    BY DEF Synced, Swapped, IInv, TypeOK
  <2>2. since[t] \in Nat /\ data[t].version \in Nat
    BY <2>1, VersionFacts, SnapFacts DEF KeptUpToDate, IInv, TypeOK
  <2>3. k \in Denied(pushes[t], data[t]) /\ since[t] < k
    BY <2>2 DEF RevokedSessions, Denied
  <2>4. k \in Told(t)
    BY <2>1, <2>3 DEF KeptUpToDate
  <2> QED
    BY <2>4 DEF Told
<1>2. IInv /\ IInv' /\ Synced /\ [Next]_vars => Synced'
  BY SyncedStep
<1> QED
  BY <1>1, <1>2, SyncedInit, InvariantHolds, PTL DEF Spec

-----------------------------------------------------------------------------
(* A tenant that stopped being active.                                     *)

LEMMA SpanFacts ==
    ASSUME NEW m \in Int, NEW n \in Int
    PROVE  /\ Span(m) \in Int /\ Span(m + 1) = Span(m) + Timeout /\ Span(0) = 0
           /\ m <= n => Span(m) <= Span(n)
<1>1. Span(m) \in Int /\ Span(m + 1) = Span(m) + Timeout /\ Span(0) = 0 /\ Span(n) \in Int
  BY DEF Span
<1>2. ASSUME m <= n PROVE Span(m) <= Span(n)
  <2>1. PICK d \in Nat : n = m + d
    <3>1. n - m \in Nat /\ n = m + (n - m)
      BY <1>2
    <3> QED
      BY <3>1
  <2>2. d * Timeout \in Nat /\ n * Timeout = m * Timeout + d * Timeout
    BY <2>1
  <2> QED
    BY <1>1, <2>2 DEF Span
<1> QED
  BY <1>1, <1>2

(* How much of the pass is left, in tenants.                               *)
LEMMA BatchFacts ==
    ASSUME IInv
    PROVE  /\ IsFiniteSet(batch) /\ Cardinality(batch) \in Nat /\ Cardinality(Present) \in Nat
           /\ Cardinality(batch) <= Cardinality(Present)
           /\ pc \in Loading => Cardinality(batch) + 1 <= Cardinality(Present)
           /\ \A t \in batch : Cardinality(batch \ {t}) = Cardinality(batch) - 1
<1>1. IsFiniteSet(Present) /\ batch \subseteq Present /\ Cardinality(Present) \in Nat
  BY PresentFacts DEF IInv, Places
<1>2. IsFiniteSet(batch) /\ Cardinality(batch) <= Cardinality(Present)
  BY <1>1, FS_Subset
<1>3. Cardinality(batch) \in Nat
  BY <1>2, FS_CardinalityType
<1>4. ASSUME pc \in Loading PROVE Cardinality(batch) + 1 <= Cardinality(Present)
  <2>1. tenant \in Present /\ tenant \notin batch
    BY <1>4 DEF IInv, Places
  <2>2. Cardinality(batch \cup {tenant}) = Cardinality(batch) + 1
    BY <1>2, <2>1, FS_AddElement
  <2>3. batch \cup {tenant} \subseteq Present
    BY <1>1, <2>1
  <2> QED
    BY <1>1, <2>2, <2>3, FS_Subset
<1>5. \A t \in batch : Cardinality(batch \ {t}) = Cardinality(batch) - 1
  BY <1>2, FS_RemoveElement
<1> QED
  BY <1>1, <1>2, <1>3, <1>4, <1>5

(* The steps, by what they do to the pass.                                 *)
Within ==
    /\ data' = data /\ delay' = delay
    /\ \/ /\ pc' = pc \/ (pc \in Loading /\ pc' \in Loading)
          /\ batch' = batch /\ tenant' = tenant /\ started' = started
       \/ pc' \in {"select", "list"}

LEMMA PassCases ==
    ASSUME [Next]_vars
    PROVE  \/ Within /\ suspended' = suspended /\ mode' = mode /\ now' = now
           \/ Tick
           \/ \E t \in Present : SetTenantStatus(t)
           \/ ListTenants \/ TenantsListed \/ Touch \/ LoadError \/ LoadDone \/ Swap
           \/ \E t \in Tenants : Load(t)
<1> DEFINE Calm == Within /\ suspended' = suspended /\ mode' = mode /\ now' = now
<1>1. CASE UNCHANGED vars
  BY <1>1 DEF Within, vars, postgres, loop, loading, stream
<1>2. CASE PollTick \/ TakeDirty \/ CoalesceFires \/ ListTenantsError \/ PassDone
  BY <1>2 DEF Within, PollTick, TakeDirty, CoalesceFires, StartPass, ListTenantsError, PassDone, EndPass,
              postgres, loading, stream
<1>3. CASE CatalogVersion \/ ProbeMoved \/ BeginTx \/ LoadSnapshot
  BY <1>3 DEF Within, CatalogVersion, ProbeMoved, BeginTx, LoadSnapshot, postgres, loop, loading, stream, Loading
<1>4. CASE PublishRevocations
  BY <1>4 DEF Within, PublishRevocations, postgres, loading, Loading
<1>5. ASSUME NEW k \in news, Publish(k) PROVE Calm
  BY <1>5 DEF Within, Publish, postgres, loading
<1>6. ASSUME NEW t \in Present, Change(t) \/ Notify(t) \/ Subscribe(t) \/ Receive(t) \/ Cancel(t) PROVE Calm
  BY <1>6 DEF Within, Change, Notify, Subscribe, Receive, Cancel, postgres, loop, loading, stream
<1>7. CASE ListenerDropped
  BY <1>7 DEF Within, ListenerDropped, loop, loading, stream
<1> HIDE DEF Calm
<1>8. Calm \/ Tick \/ (\E t \in Present : SetTenantStatus(t)) \/ ListTenants \/ TenantsListed \/ Touch
        \/ LoadError \/ LoadDone \/ Swap \/ (\E t \in Tenants : Load(t))
  BY <1>1, <1>2, <1>3, <1>4, <1>5, <1>6, <1>7, Zenon DEF Next, Run, Environment, Calm
<1> QED
  BY <1>8 DEF Calm

LEMMA LeavingStep ==
    ASSUME IInv, IInv', Leaving, [Next]_vars
    PROVE  Leaving'
<1> DEFINE n == Cardinality(Present)
           b == Cardinality(batch)
<1>0. TypeOK /\ TypeOK' /\ now \in Nat /\ started \in Nat /\ n \in Nat /\ b \in Nat /\ b <= n
  BY BatchFacts DEF IInv, TypeOK
<1>1. /\ Span(n) \in Int /\ Span(n - b) \in Int /\ Span(n - b - 1) \in Int /\ Span(n - b) <= Span(n)
      /\ Span(n - b) = Span(n - b - 1) + Timeout /\ 0 <= Span(n - b)
      /\ pc \in Loading => 0 <= Span(n - b - 1)
  <2>1. n - b \in Int /\ n - b - 1 \in Int /\ n - b <= n /\ 0 <= n - b /\ (n - b - 1) + 1 = n - b
    BY <1>0
  <2>2. pc \in Loading => 0 <= n - b - 1
    BY <1>0, BatchFacts
  <2> HIDE DEF n, b
  <2>3. Span(n) \in Int /\ Span(n - b) \in Int /\ Span(n - b - 1) \in Int /\ Span(0) = 0
    BY <1>0, <2>1, SpanFacts
  <2>4. Span(n - b) <= Span(n) /\ 0 <= Span(n - b)
    BY <1>0, <2>1, <2>3, SpanFacts
  <2>5. Span(n - b) = Span(n - b - 1) + Timeout
    BY <2>1, SpanFacts
  <2>6. pc \in Loading => 0 <= Span(n - b - 1)
    BY <2>1, <2>2, <2>3, SpanFacts
  <2> QED
    BY <2>3, <2>4, <2>5, <2>6
<1>2. ASSUME NEW t \in Present \ Active
      PROVE  /\ suspended[t] \in Nat /\ delay[t] \in Nat /\ t \in Tenants /\ Due(t) = suspended[t] + delay[t]
             /\ Due(t) \in Nat /\ suspended[t] <= Due(t)
             /\ data[t] # NoData => data[t].loadedAt \in Nat
  <2>1. suspended[t] \in Nat /\ delay[t] \in Nat /\ t \in Tenants
    BY <1>0, PresentFacts DEF TypeOK, Active
  <2>2. data[t] # NoData => data[t].loadedAt \in Nat
    BY <1>0, <2>1, VersionFacts, SnapFacts
  <2> QED
    BY <2>1, <2>2 DEF Due
<1> HIDE DEF n, b
<1>3. CASE Within /\ suspended' = suspended /\ mode' = mode /\ now' = now
  <2>1. Present' = Present /\ Active' = Active /\ \A t : Due(t)' = Due(t)
    BY <1>3 DEF Present, Active, Due, Within
  <2>2. CASE pc' \in {"select", "list"}
    BY <1>3, <2>1, <2>2 DEF Leaving, Within, Loading
  <2>3. CASE /\ pc' = pc \/ (pc \in Loading /\ pc' \in Loading)
             /\ batch' = batch /\ tenant' = tenant /\ started' = started
    BY <1>3, <2>1, <2>3 DEF Leaving, Within, Loading
  <2> QED
    BY <1>3, <2>2, <2>3 DEF Within
<1>4. CASE Tick
  <2>1. /\ now' = now + 1 /\ mode' = mode /\ suspended' = suspended /\ data' = data /\ pc' = pc /\ batch' = batch
        /\ tenant' = tenant /\ started' = started /\ pc # "load" /\ delay' = delay
    BY <1>4 DEF Tick, Waits, postgres, loading
  <2>2. Present' = Present /\ Active' = Active /\ \A t : Due(t)' = Due(t)
    BY <2>1 DEF Present, Active, Due
  <2>3. \A t \in Present \ Active : suspended[t] <= now + 1
    BY <1>0, <1>2 DEF Leaving
  <2> QED
    BY <2>1, <2>2, <2>3 DEF Leaving
<1>5. ASSUME NEW u \in Present, SetTenantStatus(u) PROVE Leaving'
  <2>1. /\ now' = now /\ mode' = mode /\ data' = data /\ pc' = pc /\ batch' = batch
        /\ tenant' = tenant /\ started' = started /\ delay' = delay
        /\ suspended' = [suspended EXCEPT ![u] = IF u \in Active THEN now ELSE Never]
    BY <1>5 DEF SetTenantStatus, loading
  <2>2. Present' = Present /\ u \in Tenants
    BY <1>0, <2>1, PresentFacts DEF Present
  <2>3. ASSUME NEW t \in Present \ Active', t # u PROVE t \in Present \ Active /\ suspended'[t] = suspended[t]
    BY <1>0, <2>1, <2>2, <2>3, PresentFacts DEF Active, TypeOK
  <2>4. ASSUME NEW t \in Present \ Active', t = u
        PROVE  suspended'[t] = now /\ Due(t)' \in Nat /\ now <= Due(t)'
    <3>1. suspended'[t] = now /\ delay[t] \in Nat
      BY <1>0, <2>1, <2>2, <2>4 DEF Active, TypeOK
    <3> QED
      BY <1>0, <2>1, <3>1 DEF Due
  <2>5. data[u] # NoData => data[u].loadedAt \in Nat /\ data[u].loadedAt <= now
    BY <1>0, <2>2, VersionFacts, SnapFacts DEF IInv, Kept, Sound
  <2>6. (pc \in Loading => started <= now) /\ (pc = "listed" => started <= now)
    BY DEF IInv, InHand, Places
  <2>7. /\ data[u] # NoData => data[u].loadedAt <= now + Span(n)
        /\ now <= now + Span(n - b)
        /\ pc \in Loading => started <= now + Span(n - b - 1)
    BY <1>0, <1>1, <2>5, <2>6
  <2> SUFFICES ASSUME NEW t \in Present \ Active'
               PROVE  /\ suspended'[t] <= now
                      /\ pc = "listed" /\ t \in batch => started <= suspended'[t]
                      /\ data[t] # NoData => data[t].loadedAt <= Due(t)' + Span(n)
                      /\ pc = "load" /\ t \in batch => now <= Due(t)' + Span(n - b)
                      /\ pc \in Loading /\ t \in batch \cup {tenant} => started <= Due(t)' + Span(n - b - 1)
    BY <2>1, <2>2 DEF Leaving, n, b
  <2>8. CASE t # u
    <3>1. t \in Present \ Active /\ suspended'[t] = suspended[t] /\ Due(t)' = Due(t)
      BY <2>1, <2>3, <2>8 DEF Due
    <3> QED
      BY <3>1 DEF Leaving, n, b
  <2>9. CASE t = u
    <3>1. suspended'[t] = now /\ Due(t)' \in Nat /\ now <= Due(t)'
      BY <2>4, <2>9
    <3>2. data[t] # NoData => data[t].loadedAt \in Nat /\ data[t].loadedAt <= now + Span(n)
      BY <2>5, <2>7, <2>9
    <3> QED
      BY <1>0, <1>1, <2>6, <2>7, <3>1, <3>2
  <2> QED
    BY <2>8, <2>9
<1>6. CASE ListTenants
  <2>1. /\ now' = now /\ mode' = mode /\ suspended' = suspended /\ data' = data /\ pc' = "listed"
        /\ batch' \subseteq Active /\ started' = now /\ delay' = delay
    BY <1>6 DEF ListTenants, postgres
  <2>2. Present' = Present /\ Active' = Active /\ \A t : Due(t)' = Due(t)
    BY <2>1 DEF Present, Active, Due
  <2>3. \A t \in Tenants : data[t] # NoData => data[t].loadedAt <= now
    BY DEF IInv, Kept, Sound
  <2> QED
    BY <2>1, <2>2, <2>3 DEF Leaving, Loading
<1>10. CASE TenantsListed
  <2>1. /\ now' = now /\ mode' = mode /\ suspended' = suspended /\ data' = data /\ pc = "listed" /\ pc' = "load"
        /\ batch' = batch
        /\ \A t \in Tenants : delay'[t] = IF t \in batch THEN now - started ELSE delay[t]
    BY <1>10 DEF TenantsListed, postgres
  <2>2. Present' = Present /\ Active' = Active
    BY <2>1 DEF Present, Active
  <2>3. started <= now
    BY <2>1 DEF IInv, Places
  <2> SUFFICES ASSUME NEW t \in Present \ Active
               PROVE  /\ data[t] # NoData => data[t].loadedAt <= Due(t)' + Span(n)
                      /\ t \in batch => now <= Due(t)' + Span(n - b)
    BY <2>1, <2>2 DEF Leaving, Loading, n, b
  <2>4. t \in Tenants /\ suspended[t] \in Nat /\ (data[t] # NoData => data[t].loadedAt \in Nat)
    BY <1>2
  <2>5. CASE t \notin batch
    <3>1. Due(t)' = Due(t)
      BY <2>1, <2>4, <2>5 DEF Due
    <3> QED
      BY <2>5, <3>1 DEF Leaving, n
  <2>6. CASE t \in batch
    <3>1. Due(t)' = suspended[t] + (now - started)
      BY <2>1, <2>4, <2>6 DEF Due
    <3>2. started <= suspended[t] /\ (data[t] # NoData => data[t].loadedAt <= started)
      BY <2>1, <2>4, <2>6 DEF Leaving
    <3>3. Due(t)' \in Nat /\ now <= Due(t)' /\ started <= Due(t)'
      BY <1>0, <2>3, <2>4, <3>1, <3>2
    <3>4. now <= Due(t)' + Span(n - b)
      BY <1>0, <1>1, <3>3
    <3>5. ASSUME data[t] # NoData PROVE data[t].loadedAt <= Due(t)' + Span(n)
      BY <1>0, <1>1, <2>4, <3>2, <3>3, <3>5
    <3> QED
      BY <3>4, <3>5
  <2> QED
    BY <2>5, <2>6
<1>7. ASSUME NEW u \in Tenants, Load(u) PROVE Leaving'
  <2>1. /\ now' = now /\ mode' = mode /\ suspended' = suspended /\ data' = data /\ pc = "load" /\ pc' \in Loading
        /\ u \in batch /\ batch' = batch \ {u} /\ tenant' = u /\ started' = now /\ pc' # "load"
        /\ pc' # "listed" /\ delay' = delay
    BY <1>7 DEF Load, postgres, Loading
  <2>2. Present' = Present /\ Active' = Active /\ batch' \cup {tenant'} = batch /\ \A t : Due(t)' = Due(t)
    BY <2>1 DEF Present, Active, Due
  <2>3. Cardinality(batch') = b - 1
    BY <2>1, BatchFacts DEF b
  <2>4. n - Cardinality(batch') - 1 = n - b
    BY <1>0, <2>3
  <2> QED
    BY <2>1, <2>2, <2>4 DEF Leaving, n, b
<1>8. CASE Touch \/ LoadError \/ LoadDone
  <2>1. /\ pc \in Loading /\ now' = now /\ mode' = mode /\ suspended' = suspended /\ pc' = "load" /\ batch' = batch
        /\ delay' = delay /\ \A t \in Tenants : data'[t] # data[t] => t = tenant
    <3>1. CASE Touch
      BY <1>0, <3>1 DEF Touch, Unchanged, Return, Loading, postgres, TypeOK
    <3>2. CASE LoadError \/ LoadDone
      BY <3>2 DEF LoadError, LoadDone, Return, Loading, postgres
    <3> QED
      BY <1>8, <3>1, <3>2
  <2>2. Present' = Present /\ Active' = Active /\ \A t : Due(t)' = Due(t)
    BY <2>1 DEF Present, Active, Due
  <2>3. now <= started + Timeout
    BY <1>0, <2>1 DEF IInv, InHand
  <2>4. ASSUME NEW t \in Present \ Active, t \in batch \cup {tenant} PROVE now <= Due(t) + Span(n - b)
    <3>1. started <= Due(t) + Span(n - b - 1)
      BY <2>1, <2>4 DEF Leaving, n, b
    <3> QED
      BY <1>0, <1>1, <1>2, <2>3, <3>1
  <2>5. ASSUME NEW t \in Present \ Active, data'[t] # NoData PROVE data'[t].loadedAt <= Due(t) + Span(n)
    <3>1. CASE data'[t] = data[t]
      BY <2>5, <3>1 DEF Leaving, n
    <3>2. CASE data'[t] # data[t]
      <4>1. t \in Tenants /\ t = tenant
        BY <1>2, <2>1, <3>2
      <4>2. data'[t].loadedAt \in Nat /\ data'[t].loadedAt <= now
        BY <1>0, <2>1, <2>5, <4>1, SnapFacts DEF IInv, Kept, Sound, TypeOK
      <4> QED
        BY <1>0, <1>1, <1>2, <2>4, <4>1, <4>2
    <3> QED
      BY <3>1, <3>2
  <2> QED
    BY <2>1, <2>2, <2>4, <2>5 DEF Leaving, Loading, n, b
<1>9. CASE Swap
  <2>1. /\ pc \in Loading /\ now' = now /\ mode' = mode /\ suspended' = suspended /\ pc' = "publish" /\ batch' = batch
        /\ started' = started /\ tenant' = tenant /\ pushes' = pushes /\ delay' = delay
        /\ \A t \in Tenants : data'[t] # data[t] => t = tenant
    BY <1>0, <1>9 DEF Swap, Loading, postgres, TypeOK
  <2>2. Present' = Present /\ Active' = Active /\ \A t : Due(t)' = Due(t)
    BY <2>1 DEF Present, Active, Due
  <2>3. now <= started + Timeout
    BY <1>0, <2>1 DEF IInv, InHand
  <2>5. ASSUME NEW t \in Present \ Active, data'[t] # NoData PROVE data'[t].loadedAt <= Due(t) + Span(n)
    <3>1. CASE data'[t] = data[t]
      BY <2>5, <3>1 DEF Leaving, n
    <3>2. CASE data'[t] # data[t]
      <4>1. t \in Tenants /\ t = tenant
        BY <1>2, <2>1, <3>2
      <4>2. data'[t].loadedAt \in Nat /\ data'[t].loadedAt <= now
        BY <1>0, <2>1, <2>5, <4>1, SnapFacts DEF IInv, Kept, Sound, TypeOK
      <4>3. started <= Due(t) + Span(n - b - 1)
        BY <2>1, <4>1 DEF Leaving, n, b
      <4> QED
        BY <1>0, <1>1, <1>2, <2>3, <4>2, <4>3
    <3> QED
      BY <3>1, <3>2
  <2> QED
    BY <2>1, <2>2, <2>5 DEF Leaving, Loading, n, b
<1> QED
  BY <1>3, <1>4, <1>5, <1>6, <1>7, <1>8, <1>9, <1>10, PassCases, Zenon

LEMMA LeavingInit == Init => Leaving
<1> SUFFICES ASSUME Init, NEW t \in Present \ Active PROVE FALSE
  BY DEF Leaving, Init
<1>1. TypeOK
  BY InitTypes
<1>2. t \in Tenants
  BY <1>1, PresentFacts
<1> QED
  BY <1>2 DEF Init, Active

(* A tenant that is not active any more is served no longer than max age,  *)
(* the pass that was under way and the time its list was on its way,       *)
(* although nobody removes its snapshot (ListTenants, Get).                *)
THEOREM SuspendedDropsOut == Spec => []SuspendedExpires
<1>1. IInv /\ Leaving => SuspendedExpires
  <2> SUFFICES ASSUME IInv, Leaving, NEW t \in Present \ Active, Get(t)
               PROVE  ~(now - suspended[t] > MaxAge + Cardinality(Present) * Timeout + delay[t])
    BY DEF SuspendedExpires
  <2>1. TypeOK /\ t \in Tenants /\ now \in Nat /\ data[t] # NoData /\ now - data[t].loadedAt <= MaxAge
    BY PresentFacts DEF IInv, TypeOK, Get
  <2>2. suspended[t] \in Nat /\ delay[t] \in Nat /\ data[t].loadedAt \in Nat
    BY <2>1, VersionFacts, SnapFacts DEF TypeOK, Active
  <2>3. data[t].loadedAt <= suspended[t] + delay[t] + Span(Cardinality(Present))
    BY <2>1 DEF Leaving, Due
  <2>4. Span(Cardinality(Present)) = Cardinality(Present) * Timeout /\ Span(Cardinality(Present)) \in Int
    BY <2>1, PresentFacts DEF Span
  <2> QED
    BY <2>1, <2>2, <2>3, <2>4
<1>2. IInv /\ IInv' /\ Leaving /\ [Next]_vars => Leaving'
  BY LeavingStep
<1> QED
  BY <1>1, <1>2, LeavingInit, InvariantHolds, PTL DEF Spec

-----------------------------------------------------------------------------
(* How long a change waits.                                                *)

LEMMA PartSpan ==
    ASSUME NEW P, IsFiniteSet(P), NEW A \in SUBSET P, NEW t \in P
    PROVE  /\ Span(Cardinality(A)) \in Nat /\ Span(Cardinality(P)) \in Nat /\ Span(Cardinality(P) - 1) \in Nat
           /\ Span(Cardinality(P)) = Span(Cardinality(P) - 1) + Timeout
           /\ Span(Cardinality(A)) <= Span(Cardinality(P))
           /\ t \notin A => Span(Cardinality(A)) <= Span(Cardinality(P) - 1)
<1>1. /\ IsFiniteSet(A) /\ Cardinality(A) \in Nat /\ Cardinality(P) \in Nat
      /\ Cardinality(A) <= Cardinality(P)
  BY FS_Subset, FS_CardinalityType
<1>2. IsFiniteSet(P \ {t}) /\ Cardinality(P \ {t}) = Cardinality(P) - 1 /\ Cardinality(P \ {t}) \in Nat
  BY FS_RemoveElement, FS_CardinalityType
<1>3. t \notin A => Cardinality(A) <= Cardinality(P) - 1
  <2>1. t \notin A => A \subseteq P \ {t}
    OBVIOUS
  <2> QED
    BY <1>2, <2>1, FS_Subset
<1>4. \A m \in Nat : Span(m) \in Nat
  BY DEF Span
<1>5. Span(Cardinality(P)) = Span(Cardinality(P) - 1) + Timeout
  <2>1. Cardinality(P) - 1 \in Int /\ (Cardinality(P) - 1) + 1 = Cardinality(P)
    BY <1>1
  <2> QED
    BY <2>1, SpanFacts
<1>6. Span(Cardinality(A)) <= Span(Cardinality(P))
  BY <1>1, SpanFacts
<1>7. t \notin A => Span(Cardinality(A)) <= Span(Cardinality(P) - 1)
  <2>1. Cardinality(P) - 1 \in Int /\ Cardinality(A) \in Int
    BY <1>1
  <2> QED
    BY <1>3, <2>1, SpanFacts
<1> QED
  BY <1>1, <1>2, <1>4, <1>5, <1>6, <1>7

(* The time the tenants but one take.                                      *)
Others == Span(Cardinality(Present) - 1)

LEMMA Bounds ==
    ASSUME IInv, NEW t \in Present
    PROVE  /\ Others \in Nat /\ Left \in Int /\ 0 <= Left /\ Left <= Others + Timeout
           /\ Span(Cardinality(Present)) = Others + Timeout
           /\ First = PollInterval + Others + Timeout
           /\ Second = PollInterval + 2 * Others + Timeout
           /\ Third = PollInterval + 3 * Others + 2 * Timeout
           /\ t \notin batch /\ t # tenant => Left <= Others
           /\ pc \in Loading => Left <= Others + Timeout - (now - started)
           /\ now \in Nat /\ started \in Nat /\ tickAt \in Nat
<1>0. TypeOK /\ now \in Nat /\ started \in Nat /\ tickAt \in Nat
  BY DEF IInv, TypeOK
<1> DEFINE n == Cardinality(Present)
<1>1. IsFiniteSet(Present) /\ n \in Nat /\ batch \in SUBSET Present
  BY <1>0, PresentFacts DEF IInv, Places
<1>2. /\ Others \in Nat /\ Span(n) = Others + Timeout
      /\ Span(Cardinality(batch)) \in Nat /\ Span(Cardinality(batch)) <= Span(n)
      /\ t \notin batch => Span(Cardinality(batch)) <= Others
  BY <1>1, PartSpan DEF Others
<1>3. Span(2 * n - 1) = 2 * Others + Timeout /\ Span(3 * n - 1) = 3 * Others + 2 * Timeout
  <2> HIDE DEF n
  <2>1. \A m \in Nat : /\ (2 * m - 1) * Timeout = 2 * ((m - 1) * Timeout) + Timeout
                       /\ (3 * m - 1) * Timeout = 3 * ((m - 1) * Timeout) + 2 * Timeout
    OBVIOUS
  <2> QED
    BY <1>1, <2>1 DEF Span, Others, n
<1>4. ASSUME pc \in Loading
      PROVE  /\ Span(Cardinality(batch)) <= Others
             /\ t \notin batch /\ t # tenant => Span(Cardinality(batch)) + Timeout <= Others
             /\ pc \notin {"listed", "load"} /\ started <= now /\ now - started <= Timeout
  <2>1. tenant \in Present /\ tenant \notin batch /\ InHand
    BY <1>4 DEF IInv, Places
  <2>2. Span(Cardinality(batch)) <= Others
    BY <1>1, <2>1, PartSpan DEF Others
  <2>3. ASSUME t \notin batch, t # tenant PROVE Span(Cardinality(batch)) + Timeout <= Others
    <3>1. IsFiniteSet(batch)
      BY <1>1, FS_Subset
    <3>2. Cardinality(batch \cup {tenant}) = Cardinality(batch) + 1 /\ Cardinality(batch) \in Nat
      BY <2>1, <3>1, FS_AddElement, FS_CardinalityType
    <3>3. batch \cup {tenant} \in SUBSET Present /\ t \notin batch \cup {tenant}
      BY <1>1, <2>1, <2>3
    <3>4. Span(Cardinality(batch \cup {tenant})) <= Others
      BY <1>1, <3>3, PartSpan DEF Others
    <3>5. Span(Cardinality(batch) + 1) = Span(Cardinality(batch)) + Timeout
      BY <3>2, SpanFacts
    <3> QED
      BY <3>2, <3>4, <3>5
  <2>4. pc \notin {"listed", "load"} /\ started <= now /\ now - started <= Timeout
    BY <1>4, <2>1 DEF Loading, InHand
  <2> QED
    BY <2>2, <2>3, <2>4
<1>5. /\ Left \in Int /\ 0 <= Left /\ Left <= Others + Timeout
      /\ t \notin batch /\ t # tenant => Left <= Others
      /\ pc \in Loading => Left <= Others + Timeout - (now - started)
  <2>1. CASE pc \in {"listed", "load"}
    BY <1>0, <1>2, <2>1 DEF Left, Loading
  <2>2. CASE pc \in Loading
    <3>1. Left = Span(Cardinality(batch)) + Timeout - (now - started)
      BY <1>4, <2>2 DEF Left
    <3> QED
      BY <1>0, <1>2, <1>4, <2>2, <3>1
  <2>3. CASE pc \notin {"listed", "load"} /\ pc \notin Loading
    BY <1>2, <2>3 DEF Left
  <2> QED
    BY <2>1, <2>2, <2>3
<1> QED
  BY <1>0, <1>2, <1>3, <1>5 DEF First, Second, Third

(* Steps that leave the clock, the pass and the snapshots alone.           *)
Resting ==
    /\ UNCHANGED <<now, mode, suspended, data, batch, tenant, started, probed, draft, ticker, tickAt, pass, pc>>
    /\ coalesce' = coalesce \/ (pc = "select" /\ coalesce' = "set")

Steady == ~Faults /\ ~Suspensions

LEMMA SteadyCases ==
    ASSUME [Next]_vars, Steady
    PROVE  \/ Resting /\ pushes' = pushes
           \/ \E t \in Present : Change(t)
           \/ PollTick \/ CoalesceFires \/ ListTenants \/ TenantsListed \/ PassDone \/ (\E t \in Tenants : Load(t))
           \/ CatalogVersion \/ Touch \/ ProbeMoved \/ BeginTx \/ LoadSnapshot \/ Swap
           \/ PublishRevocations \/ LoadDone \/ Tick
<1> DEFINE Calm == Resting /\ pushes' = pushes
<1>1. CASE UNCHANGED vars
  BY <1>1 DEF Resting, vars, postgres, loop, loading, stream
<1>2. CASE TakeDirty
  BY <1>2 DEF Resting, TakeDirty, postgres, loading
<1>3. ASSUME NEW k \in news, Publish(k) PROVE Calm
  BY <1>3 DEF Resting, Publish, postgres, loading, loop
<1>4. ASSUME NEW t \in Present, Notify(t) \/ Subscribe(t) \/ Receive(t) \/ Cancel(t) PROVE Calm
  BY <1>4 DEF Resting, Notify, Subscribe, Receive, Cancel, postgres, loop, loading
<1>5. CASE ListenerDropped
  BY <1>5 DEF Resting, ListenerDropped, loop, loading
<1>6. ~ListTenantsError /\ ~LoadError /\ \A t \in Present : ~SetTenantStatus(t)
  BY DEF Steady, ListTenantsError, LoadError, SetTenantStatus
<1> HIDE DEF Calm
<1>7. Calm \/ (\E t \in Present : Change(t))
        \/ PollTick \/ CoalesceFires \/ ListTenants \/ TenantsListed \/ PassDone \/ (\E t \in Tenants : Load(t))
        \/ CatalogVersion \/ Touch \/ ProbeMoved \/ BeginTx \/ LoadSnapshot \/ Swap
        \/ PublishRevocations \/ LoadDone \/ Tick
  BY <1>1, <1>2, <1>3, <1>4, <1>5, <1>6, Zenon DEF Next, Run, Environment, Calm
<1> QED
  BY <1>7 DEF Calm

LEMMA SameReach ==
    ASSUME mode' = mode
    PROVE  /\ Present' = Present /\ First' = First /\ Second' = Second /\ Third' = Third /\ Others' = Others
           /\ Steady' = Steady
  BY DEF Present, First, Second, Third, Others, Steady, Faults, Suspensions

LEMMA RestingWaits ==
    ASSUME Resting, NEW t, NEW k, NEW a, WaitedFor(t, k, a)
    PROVE  WaitedFor(t, k, a)'
<1>1. /\ First' = First /\ Second' = Second /\ Third' = Third /\ Left' = Left /\ Present' = Present
      /\ Awaited(t, k)' = Awaited(t, k) /\ ReadBefore(t, k)' = ReadBefore(t, k)
  BY SameReach DEF Resting, Left, Awaited, ReadBefore
<1> QED
  BY <1>1 DEF WaitedFor, ForThePoll, Resting

(* A change that was just made.                                            *)
LEMMA FreshWaits ==
    ASSUME IInv, Clock, NEW t \in Present, NEW k
    PROVE  WaitedFor(t, k, now)
<1>1. /\ now \in Nat /\ started \in Nat /\ tickAt \in Nat /\ now - now = 0
      /\ pc \in Loading => started <= now
  BY Bounds DEF IInv, InHand
<1>2. ReadBefore(t, k) => pc \in Loading
  BY DEF ReadBefore, Loading
<1>3. now - now + Left = Left
  BY <1>1, Bounds
<1>4. ForThePoll(now)
  BY <1>1, <1>3, Bounds DEF ForThePoll, Clock
<1>5. 0 <= Second /\ Left <= Third
  BY Bounds
<1> QED
  BY <1>1, <1>2, <1>3, <1>4, <1>5 DEF WaitedFor

(* Between two passes nothing is awaited.                                  *)
LEMMA NothingAwaited ==
    ASSUME IInv, NEW t \in Present, NEW k, pc = "select" \/ (pc = "load" /\ batch = {}) \/ (pc = "list" /\ pass # "poll")
    PROVE  ~Awaited(t, k) /\ ~ReadBefore(t, k) /\ Left = 0
<1>1. batch = {} /\ tenant = NoTenant /\ NoTenant \notin Present /\ pc \notin Loading
  BY PresentFacts DEF IInv, Places, Loading
<1>2. Left = 0
  BY <1>1, FS_EmptySet, SpanFacts DEF Left
<1> QED
  BY <1>1, <1>2 DEF Awaited, ReadBefore

LEMMA PollTickWaits ==
    ASSUME IInv, NEW t \in Present, NEW k, NEW a \in Nat, WaitedFor(t, k, a), PollTick
    PROVE  WaitedFor(t, k, a)'
<1>1. /\ pc = "select" /\ ticker /\ pc' = "list" /\ pass' = "poll" /\ now' = now /\ mode' = mode
      /\ tenant' = tenant
  BY DEF PollTick, StartPass
<1>2. now - a <= Second
  BY <1>1, NothingAwaited DEF WaitedFor, ForThePoll
<1>3. Awaited(t, k)' /\ Left' = 0
  BY <1>1 DEF Awaited, Left, Loading
<1>4. ~ReadBefore(t, k)'
  BY <1>1 DEF ReadBefore
<1>5. now - a + 0 <= Third
  BY <1>2, Bounds
<1> QED
  BY <1>1, <1>2, <1>3, <1>4, <1>5, SameReach DEF WaitedFor

LEMMA CoalesceWaits ==
    ASSUME IInv, Clock, NEW t \in Present, NEW k, NEW a \in Nat, WaitedFor(t, k, a), CoalesceFires
    PROVE  WaitedFor(t, k, a)'
<1>1. /\ pc = "select" /\ (coalesce = "fired" \/ ~ticker) /\ pc' = "list" /\ pass' = "pending" /\ now' = now
      /\ mode' = mode /\ tenant' = tenant /\ batch' = batch /\ ticker' = ticker /\ tickAt' = tickAt
  BY DEF CoalesceFires, StartPass
<1>2. ForThePoll(a) /\ tickAt # 0
  BY <1>1, NothingAwaited DEF WaitedFor, Clock
<1>3. batch = {} /\ tenant = NoTenant /\ tenant # t
  BY <1>1, PresentFacts DEF IInv, Places, Loading
<1>4. ~ReadBefore(t, k)' /\ ~Awaited(t, k)'
  BY <1>1, <1>3 DEF ReadBefore, Awaited
<1>5. ForThePoll(a)'
  BY <1>1, <1>2, SameReach DEF ForThePoll, Loading
<1> QED
  BY <1>1, <1>4, <1>5 DEF WaitedFor

LEMMA ListWaits ==
    ASSUME IInv, Clock, NEW t \in Present, NEW k, NEW a \in Nat, WaitedFor(t, k, a), ListTenants
    PROVE  WaitedFor(t, k, a)'
<1>1. /\ pc = "list" /\ pc' = "listed" /\ pass' = pass /\ now' = now /\ mode' = mode /\ tenant' = tenant
      /\ ticker' = ticker /\ tickAt' = tickAt /\ batch' = IF pass = "poll" THEN Active ELSE Active \cap pending
  BY DEF ListTenants, loop
<1>2. Active = Present /\ IsFiniteSet(Present)
  BY PresentFacts DEF Active, Clock, IInv
<1>3. tenant # t
  BY <1>1, PresentFacts DEF IInv, Places, Loading
<1>4. ~ReadBefore(t, k)' /\ (Awaited(t, k)' <=> t \in batch')
  BY <1>1, <1>3 DEF ReadBefore, Awaited
<1>5. PICK A \in SUBSET Present : A = batch'
  BY <1>1, <1>2
<1>6. Left' = Span(Cardinality(A))
  BY <1>1, <1>5 DEF Left
<1>7. Left' \in Nat /\ Left' <= Others + Timeout /\ (t \notin A => Left' <= Others)
  BY <1>2, <1>6, PartSpan DEF Others
<1>8. CASE pass = "poll"
  <2>1. now - a <= Second /\ t \in batch'
    BY <1>1, <1>2, <1>8 DEF WaitedFor
  <2>2. now - a + Left' <= Third
    BY <1>7, <2>1, Bounds
  <2> QED
    BY <1>1, <1>4, <2>1, <2>2, SameReach DEF WaitedFor
<1>9. CASE pass # "poll"
  <2>1. ForThePoll(a)
    BY <1>1, <1>9, NothingAwaited DEF WaitedFor
  <2>2. tickAt # 0 /\ now < tickAt
    BY <1>9 DEF Clock
  <2>3. now - a <= First /\ (~ticker => tickAt - a <= First)
    BY <1>1, <2>1, <2>2, Bounds DEF ForThePoll
  <2>4. now - a + Left' <= Third
    BY <1>7, <2>3, Bounds
  <2>5. t \notin batch' => now - a + Left' <= Second
    BY <1>5, <1>7, <2>3, Bounds
  <2>6. t \notin batch' => ForThePoll(a)'
    BY <1>1, <1>9, <2>2, <2>3, <2>5, SameReach DEF ForThePoll
  <2> QED
    BY <1>1, <1>4, <2>4, <2>6, SameReach DEF WaitedFor
<1> QED
  BY <1>8, <1>9

LEMMA ListedWaits ==
    ASSUME IInv, NEW t \in Present, NEW k, NEW a \in Nat, WaitedFor(t, k, a), TenantsListed
    PROVE  WaitedFor(t, k, a)'
<1>1. /\ pc = "listed" /\ pc' = "load" /\ pass' = pass /\ now' = now /\ mode' = mode /\ tenant' = tenant
      /\ ticker' = ticker /\ tickAt' = tickAt /\ batch' = batch
  BY DEF TenantsListed, loop
<1>2. tenant # t
  BY <1>1, PresentFacts DEF IInv, Places, Loading
<1>3. ~ReadBefore(t, k)' /\ (Awaited(t, k)' <=> Awaited(t, k)) /\ Left' = Left
  BY <1>1, <1>2 DEF ReadBefore, Awaited, Left
<1>4. ForThePoll(a) => ForThePoll(a)'
  BY <1>1, <1>3, SameReach DEF ForThePoll
<1> QED
  BY <1>1, <1>3, <1>4, SameReach DEF WaitedFor

LEMMA PassDoneWaits ==
    ASSUME IInv, Clock, NEW t \in Present, NEW k, NEW a \in Nat, WaitedFor(t, k, a), PassDone
    PROVE  WaitedFor(t, k, a)'
<1>1. /\ pc = "load" /\ batch = {} /\ pc' = "select" /\ pass' = "poll" /\ now' = now /\ mode' = mode
      /\ tenant' = tenant /\ batch' = batch /\ ticker' = ticker /\ coalesce' = coalesce
      /\ tickAt' = IF tickAt = 0 THEN now + PollInterval ELSE tickAt
  BY DEF PassDone, EndPass
<1>2. ForThePoll(a) /\ Left = 0
  BY <1>1, NothingAwaited DEF WaitedFor
<1>3. tenant # t
  BY <1>1, PresentFacts DEF IInv, Places, Loading
<1>4. ~ReadBefore(t, k)' /\ ~Awaited(t, k)'
  BY <1>1, <1>3 DEF ReadBefore, Awaited
<1>5. now - a + Left = now - a /\ tickAt' # 0
  BY <1>1, <1>2, Bounds
<1>6. tickAt = 0 => ~ticker /\ tickAt' - a <= First
  BY <1>1, <1>2, <1>5, Bounds DEF ForThePoll, Clock
<1>7. tickAt # 0 /\ ~ticker => tickAt' - a <= First
  BY <1>1, <1>2 DEF ForThePoll
<1>8. ticker => now - a <= Second /\ (coalesce = "fired" => now - a <= First)
  <2>1. ticker => now - a <= IF pass = "poll" THEN First ELSE Second
    BY <1>1, <1>2, <1>5 DEF ForThePoll
  <2>2. coalesce = "fired" => pass = "poll"
    BY DEF Clock, IInv, TypeOK
  <2> QED
    BY <2>1, <2>2, Bounds
<1>9. ForThePoll(a)'
  BY <1>1, <1>5, <1>6, <1>7, <1>8, SameReach DEF ForThePoll, Loading
<1> QED
  BY <1>1, <1>4, <1>9 DEF WaitedFor

LEMMA LoadWaits ==
    ASSUME IInv, NEW t \in Present, NEW k, NEW a \in Nat, WaitedFor(t, k, a), NEW u \in Tenants, Load(u)
    PROVE  WaitedFor(t, k, a)'
<1>1. /\ pc = "load" /\ pc' \in {"probe", "begin"} /\ u \in batch /\ batch' = batch \ {u} /\ tenant' = u
      /\ started' = now /\ pass' = pass /\ now' = now /\ mode' = mode /\ ticker' = ticker /\ tickAt' = tickAt
  BY DEF Load, loop
<1>2. tenant # t
  BY <1>1, PresentFacts DEF IInv, Places, Loading
<1>3. ~ReadBefore(t, k)' /\ (Awaited(t, k)' <=> Awaited(t, k))
  BY <1>1, <1>2 DEF ReadBefore, Awaited
<1>4. Left' = Left
  <2>1. Cardinality(batch \ {u}) = Cardinality(batch) - 1 /\ Cardinality(batch) \in Nat
    BY <1>1, BatchFacts
  <2>2. Span(Cardinality(batch)) = Span(Cardinality(batch) - 1) + Timeout /\ Span(Cardinality(batch) - 1) \in Int
    <3>1. Cardinality(batch) - 1 \in Int /\ (Cardinality(batch) - 1) + 1 = Cardinality(batch)
      BY <2>1
    <3> QED
      BY <3>1, SpanFacts
  <2>3. Left = Span(Cardinality(batch)) /\ Left' = Span(Cardinality(batch \ {u})) + Timeout - (now - now)
    BY <1>1 DEF Left, Loading
  <2>4. now \in Nat
    BY Bounds
  <2> QED
    BY <2>1, <2>2, <2>3, <2>4
<1>5. ForThePoll(a) => ForThePoll(a)'
  BY <1>1, <1>4, SameReach DEF ForThePoll, Loading
<1> QED
  BY <1>1, <1>3, <1>4, <1>5, SameReach DEF WaitedFor

(* Within one load. A load that starts over because the version moved      *)
(* reads the change it did not know of.                                    *)
LEMMA LoadingWaits ==
    ASSUME IInv, NEW t \in Present, NEW k, NEW a \in Nat, WaitedFor(t, k, a),
           pc \in Loading, pc' \in Loading, pass' = pass, now' = now, mode' = mode, ticker' = ticker, tickAt' = tickAt,
           batch' = batch, tenant' = tenant, started' = started, ReadBefore(t, k)' => ReadBefore(t, k)
    PROVE  WaitedFor(t, k, a)'
<1>1. /\ pc \notin {"list", "select", "listed", "load"} /\ pc' \notin {"list", "select", "listed", "load"}
      /\ Left' = Left
  BY DEF Loading, Left
<1>2. Awaited(t, k)' <=> (t \in batch \/ (tenant = t /\ ~ReadBefore(t, k)'))
  BY <1>1 DEF Awaited
<1>3. Awaited(t, k) <=> (t \in batch \/ (tenant = t /\ ~ReadBefore(t, k)))
  BY <1>1 DEF Awaited
<1>4. ForThePoll(a) => ForThePoll(a)'
  BY <1>1, SameReach DEF ForThePoll
<1>5. ASSUME Awaited(t, k)', ~Awaited(t, k) PROVE now - a + Left <= Third
  <2>1. ReadBefore(t, k)
    BY <1>2, <1>3, <1>5
  <2>2. started <= a
    BY <2>1 DEF WaitedFor
  <2> QED
    BY <2>2, Bounds
<1> HIDE DEF Left, Awaited, ReadBefore, ForThePoll
<1> QED
  BY <1>1, <1>2, <1>3, <1>4, <1>5, SameReach DEF WaitedFor

(* A load that ends has read what it did, and the pass goes on.            *)
LEMMA ReturnWaits ==
    ASSUME IInv, NEW t \in Present, NEW k, NEW a \in Nat, WaitedFor(t, k, a),
           pc \in Loading, Return, now' = now, mode' = mode, ticker' = ticker, tickAt' = tickAt,
           tenant = t => ReadBefore(t, k)
    PROVE  WaitedFor(t, k, a)'
<1>1. pc' = "load" /\ tenant' = NoTenant /\ pass' = pass /\ batch' = batch /\ NoTenant # t
  BY PresentFacts DEF Return, IInv
<1>2. ~ReadBefore(t, k)' /\ (Awaited(t, k)' <=> t \in batch)
  BY <1>1 DEF ReadBefore, Awaited
<1>3. Awaited(t, k) <=> t \in batch
  BY DEF Awaited, Loading
<1>4. Left' \in Int /\ Left' <= Left
  <2>1. Left' = Span(Cardinality(batch)) /\ Left = Span(Cardinality(batch)) + Timeout - (now - started)
    BY <1>1 DEF Left, Loading
  <2>2. Cardinality(batch) \in Nat /\ now - started <= Timeout
    BY BatchFacts DEF IInv, InHand
  <2>3. Span(Cardinality(batch)) \in Int
    BY <2>2, SpanFacts
  <2> QED
    BY <2>1, <2>2, <2>3, Bounds
<1>5. now - a + Left' <= now - a + Left /\ now - a + Left \in Int /\ now - a + Left' \in Int
  BY <1>4, Bounds
<1>6. Span(Cardinality(Present)) \in Int /\ First \in Int /\ Second \in Int /\ Third \in Int
  BY Bounds
<1>7. ForThePoll(a) => ForThePoll(a)'
  <2>1. pc \notin {"list", "select", "listed", "load"}
    BY DEF Loading
  <2> QED
    BY <1>1, <1>5, <1>6, <2>1, SameReach DEF ForThePoll, Loading
<1>8. Awaited(t, k) => now - a + Left' <= Third
  BY <1>5, <1>6 DEF WaitedFor
<1> QED
  BY <1>1, <1>2, <1>3, <1>7, <1>8, SameReach DEF WaitedFor

LEMMA TickWaits ==
    ASSUME IInv, Clock, Steady, NEW t \in Present, NEW k, NEW a \in Nat, WaitedFor(t, k, a), Tick
    PROVE  WaitedFor(t, k, a)'
<1>1. /\ now' = now + 1 /\ pc' = pc /\ mode' = mode /\ pass' = pass /\ batch' = batch /\ tenant' = tenant
      /\ started' = started /\ probed' = probed /\ draft' = draft
      /\ coalesce' = IF coalesce = "set" THEN "fired" ELSE coalesce
  BY DEF Tick, loading
<1>2. \/ ~ticker /\ ~ticker' /\ tickAt' = tickAt /\ now + 1 # tickAt
      \/ ~ticker /\ ticker' /\ now + 1 = tickAt /\ tickAt' = tickAt + PollInterval
      \/ ticker /\ ticker'
  BY DEF Tick
<1>3. \/ pc = "select" /\ ~ticker /\ coalesce = "off"
      \/ pc \in Loading
  BY DEF Tick, Waits, Steady, Loading
<1>4. ReadBefore(t, k)' = ReadBefore(t, k) /\ Awaited(t, k)' = Awaited(t, k)
  BY <1>1 DEF ReadBefore, Awaited
<1>5. ReadBefore(t, k) => started <= a
  BY DEF WaitedFor
<1>6. CASE pc = "select" /\ ~ticker /\ coalesce = "off"
  <2>1. ~Awaited(t, k) /\ ~ReadBefore(t, k) /\ ForThePoll(a) /\ tickAt # 0
    BY <1>6, NothingAwaited DEF WaitedFor, Clock
  <2>2. tickAt - a <= First
    BY <1>6, <2>1 DEF ForThePoll
  <2>3. tickAt' # 0 /\ (~ticker' => tickAt' - a <= First) /\ (ticker' => now' - a <= Second)
    BY <1>1, <1>2, <1>6, <2>1, <2>2, Bounds
  <2>4. ForThePoll(a)'
    BY <1>1, <1>6, <2>3, SameReach DEF ForThePoll, Loading
  <2> QED
    BY <1>1, <1>4, <1>6, <2>1, <2>4 DEF WaitedFor
<1>7. CASE pc \in Loading
  <2>1. pc \notin {"list", "select", "listed", "load"}
    BY <1>7 DEF Loading
  <2>2. Left' = Left - 1
    <3>1. Left' = Span(Cardinality(batch')) + Timeout - (now' - started')
      BY <1>1, <1>7, <2>1 DEF Left
    <3>2. Left = Span(Cardinality(batch)) + Timeout - (now - started)
      BY <1>7, <2>1 DEF Left
    <3>3. Span(Cardinality(batch)) \in Int
      BY BatchFacts, SpanFacts
    <3>4. Span(Cardinality(batch')) = Span(Cardinality(batch))
      BY <1>1
    <3> QED
      BY <1>1, <3>1, <3>2, <3>3, <3>4, Bounds
  <2>3. now' - a + Left' = now - a + Left
    BY <1>1, <2>2, Bounds
  <2>4. ASSUME ~Awaited(t, k) PROVE ForThePoll(a)'
    <3>1. ForThePoll(a) /\ t \notin batch /\ (tenant = t => started <= a)
      BY <1>5, <2>1, <2>4 DEF WaitedFor, Awaited
    <3>2. tickAt' = 0 => tickAt = 0
      BY <1>1, Bounds DEF Tick
    <3>3. tickAt' = 0 => now' - a + Left' <= Span(Cardinality(Present))
      BY <2>3, <3>1, <3>2 DEF ForThePoll
    <3>4. tickAt' # 0 /\ ~ticker' => /\ tickAt' - a <= First
                                     /\ pass = "poll" => tickAt' - a <= PollInterval
      BY <1>2, <2>1, <3>1 DEF ForThePoll
    <3>5. ticker' => now' - a + Left' <= IF pass = "poll" THEN First ELSE Second
      <4>1. CASE ticker
        BY <1>7, <2>3, <3>1, <4>1 DEF ForThePoll
      <4>2. CASE ~ticker /\ ticker' /\ now + 1 = tickAt /\ tickAt' = tickAt + PollInterval
        <5>1. tickAt # 0 /\ tickAt - a <= First /\ (pass = "poll" => tickAt - a <= PollInterval)
          BY <2>1, <3>1, <4>2, Bounds DEF ForThePoll
        <5>2. now + 1 - a <= First /\ (pass = "poll" => now + 1 - a <= PollInterval)
          BY <4>2, <5>1, Bounds
        <5>3. pass = "poll" => now - a + Left <= First
          BY <5>2, Bounds
        <5>4. CASE tenant = t
          <6>1. now - a + Left <= Others + Timeout
            BY <1>7, <3>1, <5>4, Bounds
          <6> QED
            BY <2>3, <5>3, <6>1, Bounds
        <5>5. CASE tenant # t
          <6>1. Left <= Others
            BY <3>1, <5>5, Bounds
          <6> QED
            BY <2>3, <5>2, <5>3, <6>1, Bounds
        <5> QED
          BY <5>4, <5>5
      <4> QED
        BY <1>2, <4>1, <4>2
    <3> QED
      BY <1>1, <2>1, <3>3, <3>4, <3>5, SameReach DEF ForThePoll
  <2>5. Awaited(t, k) => now' - a + Left' <= Third
    BY <2>3 DEF WaitedFor
  <2> QED
    BY <1>1, <1>4, <1>5, <2>1, <2>4, <2>5, SameReach DEF WaitedFor
<1> QED
  BY <1>3, <1>6, <1>7

LEMMA ClockStep ==
    ASSUME IInv, Clock, Steady, [Next]_vars
    PROVE  Clock' /\ mode' = mode
<1>0. now \in Nat /\ tickAt \in Nat /\ pass \in {"poll", "pending"} /\ coalesce \in {"off", "set", "fired"}
  BY DEF IInv, TypeOK
<1> DEFINE Keep == /\ now' = now /\ tickAt' = tickAt /\ ticker' = ticker /\ coalesce' = coalesce /\ pass' = pass
                   /\ mode' = mode /\ suspended' = suspended
                   /\ pc # "select" /\ pc' # "select"
<1>1. ASSUME Keep PROVE Clock' /\ mode' = mode
  BY <1>1 DEF Clock, Present
<1>2. CASE Resting
  BY <1>2 DEF Resting, Clock, Present
<1>3. ASSUME NEW t \in Present, Change(t) PROVE Clock' /\ mode' = mode
  BY <1>3 DEF Change, loop, loading, Clock, Present
<1>4. CASE PollTick
  BY <1>4 DEF PollTick, StartPass, Clock, Present, postgres
<1>5. CASE CoalesceFires
  BY <1>5 DEF CoalesceFires, StartPass, Clock, Present, postgres
<1>6. CASE ListTenants \/ TenantsListed
  BY <1>1, <1>6 DEF ListTenants, TenantsListed, postgres, loop
<1>7. CASE PassDone
  <2>1. /\ pc' = "select" /\ pass' = "poll" /\ now' = now /\ mode' = mode /\ ticker' = ticker /\ coalesce' = coalesce
        /\ tickAt' = (IF tickAt = 0 THEN now + PollInterval ELSE tickAt) /\ suspended' = suspended
    BY <1>7 DEF PassDone, EndPass, postgres
  <2>2. tickAt' # 0 /\ now < tickAt' /\ tickAt' <= now + PollInterval
    BY <1>0, <2>1 DEF Clock
  <2> QED
    BY <2>1, <2>2 DEF Clock, Present
<1>8. ASSUME NEW t \in Tenants, Load(t) PROVE Clock' /\ mode' = mode
  BY <1>1, <1>8 DEF Load, postgres, loop
<1>9. CASE CatalogVersion \/ ProbeMoved \/ BeginTx \/ LoadSnapshot \/ Swap \/ PublishRevocations
  BY <1>1, <1>9 DEF CatalogVersion, ProbeMoved, BeginTx, LoadSnapshot, Swap, PublishRevocations, postgres, loop, loading
<1>10. CASE Touch \/ LoadDone
  BY <1>1, <1>10 DEF Touch, Unchanged, LoadDone, Return, postgres, loop
<1>11. CASE Tick
  <2>1. /\ now' = now + 1 /\ pc' = pc /\ mode' = mode /\ pass' = pass /\ suspended' = suspended
        /\ coalesce' = (IF coalesce = "set" THEN "fired" ELSE coalesce)
        /\ tickAt' = IF now + 1 = tickAt THEN tickAt + PollInterval ELSE tickAt
    BY <1>11 DEF Tick, loading, postgres
  <2>2. tickAt = 0 => tickAt' = 0 /\ ~ticker'
    <3>1. tickAt = 0 => now + 1 # tickAt /\ tickAt' = 0
      BY <1>0, <2>1
    <3>2. tickAt = 0 /\ now + 1 # tickAt => ~ticker'
      BY <1>11 DEF Tick, Clock
    <3> QED
      BY <3>1, <3>2
  <2>3. tickAt # 0 => tickAt' # 0 /\ now' < tickAt' /\ tickAt' <= now' + PollInterval
    BY <1>0, <2>1 DEF Clock
  <2> QED
    BY <2>1, <2>2, <2>3 DEF Clock, Present
<1> HIDE DEF Keep
<1> QED
  BY <1>2, <1>3, <1>4, <1>5, <1>6, <1>7, <1>8, <1>9, <1>10, <1>11, SteadyCases, Zenon

(* The surroundings are given, and only a tenant that is there changes.    *)
LEMMA SameSurroundings ==
    ASSUME [Next]_vars
    PROVE  mode' = mode /\ (pushes' = pushes \/ \E t \in Present : Change(t))
<1>1. CASE UNCHANGED vars
  BY <1>1 DEF vars, postgres
<1>2. CASE Tick
  BY <1>2 DEF Tick, postgres
<1>3. ASSUME NEW t \in Present, Change(t) PROVE mode' = mode
  BY <1>3 DEF Change
<1>4. ASSUME NEW t \in Present, SetTenantStatus(t) \/ Notify(t) \/ Subscribe(t) \/ Receive(t) \/ Cancel(t)
      PROVE  mode' = mode /\ pushes' = pushes
  BY <1>4 DEF SetTenantStatus, Notify, Subscribe, Receive, Cancel, postgres
<1>5. CASE ListenerDropped
  BY <1>5 DEF ListenerDropped
<1>6. CASE Run
  BY <1>6 DEF Run, PollTick, TakeDirty, CoalesceFires, StartPass, ListTenants, TenantsListed, ListTenantsError, PassDone,
              Load, CatalogVersion, Touch, ProbeMoved, BeginTx, LoadSnapshot, LoadError, Swap,
              PublishRevocations, Publish, LoadDone, postgres
<1> QED
  BY <1>1, <1>2, <1>3, <1>4, <1>5, <1>6 DEF Next, Environment

Absent == \A t \in Tenants \ Present : pushes[t] = <<>>

LEMMA AbsentStep ==
    ASSUME IInv, Absent, [Next]_vars
    PROVE  Absent'
<1>1. mode' = mode /\ Present' = Present /\ (pushes' = pushes \/ \E t \in Present : Change(t))
  BY SameSurroundings DEF Present
<1>2. ASSUME NEW u \in Present, Change(u) PROVE Absent'
  <2>1. pushes' = [pushes EXCEPT ![u] = Append(@, now)] /\ u \in Tenants
    BY <1>2, PresentFacts DEF Change, IInv
  <2>2. \A t \in Tenants : t # u => pushes'[t] = pushes[t]
    BY <2>1 DEF IInv, TypeOK
  <2> QED
    BY <1>1, <2>2 DEF Absent
<1> QED
  BY <1>1, <1>2 DEF Absent

LEMMA WaitedStep ==
    ASSUME IInv, IInv', Waited, [Next]_vars
    PROVE  Waited'
<1>0. ASSUME ~Faults', ~Suspensions', ~Steady PROVE FALSE
  BY <1>0, SameSurroundings DEF Steady, Faults, Suspensions
<1> SUFFICES ASSUME Steady PROVE Waited'
  BY <1>0 DEF Waited
<1>1. Clock /\ \A t \in Present : \A k \in 1 .. Version(t) : Unserved(t, k) => WaitedFor(t, k, pushes[t][k])
  BY DEF Waited, Steady
<1>2. Clock' /\ mode' = mode /\ Present' = Present
  BY <1>1, ClockStep, SameReach
<1> SUFFICES ASSUME NEW t \in Present, NEW k \in 1 .. Version(t)', Unserved(t, k)'
             PROVE  WaitedFor(t, k, pushes[t][k])'
  BY <1>2 DEF Waited
<1>3. /\ TypeOK /\ t \in Tenants /\ Len(pushes[t]) \in Nat /\ pushes[t] \in Seq(Nat) /\ now \in Nat
      /\ \A i \in 1 .. Len(pushes[t]) : pushes[t][i] \in Nat
  BY PresentFacts, VersionFacts DEF IInv, TypeOK
<1> HIDE DEF Unserved, WaitedFor, Version
(* Every step but a change.                                                *)
<1>4. ASSUME pushes' = pushes, Unserved(t, k), NEW a \in Nat, a = pushes[t][k]
      PROVE  k \in 1 .. Version(t) /\ WaitedFor(t, k, a) /\ pushes'[t][k] = a
  BY <1>1, <1>4 DEF Version
<1>5. ASSUME pushes' = pushes, Unserved(t, k),
             ASSUME NEW a \in Nat, WaitedFor(t, k, a) PROVE WaitedFor(t, k, a)'
      PROVE  WaitedFor(t, k, pushes[t][k])'
  <2>1. k \in 1 .. Len(pushes[t])
    BY <1>5 DEF Version
  <2>2. PICK a \in Nat : a = pushes[t][k]
    BY <1>3, <2>1
  <2>3. WaitedFor(t, k, a)' /\ pushes'[t][k] = a
    BY <1>4, <1>5, <2>2
  <2> QED
    BY <2>3 DEF WaitedFor, ForThePoll
<1>6. CASE Resting /\ pushes' = pushes
  <2>1. Unserved(t, k)
    BY <1>6 DEF Unserved, Resting
  <2> QED
    BY <1>5, <1>6, <2>1, RestingWaits
<1>7. ASSUME NEW u \in Present, Change(u) PROVE WaitedFor(t, k, pushes[t][k])'
  <2>1. /\ now' = now /\ data' = data /\ pc' = pc /\ Resting
        /\ pushes' = [pushes EXCEPT ![u] = Append(@, now)]
    BY <1>7 DEF Change, loop, loading, Resting
  <2>2. u \in Tenants
    BY <1>3, PresentFacts
  <2>3. Unserved(t, k)
    BY <2>1 DEF Unserved
  <2>4. CASE k \in 1 .. Len(pushes[t])
    <3>1. PICK a \in Nat : a = pushes[t][k]
      BY <1>3, <2>4
    <3>2. pushes'[t][k] = a
      <4>1. CASE t # u
        BY <1>3, <2>1, <2>2, <3>1, <4>1 DEF TypeOK
      <4>2. CASE t = u
        <5>1. pushes'[t] = Append(pushes[t], now)
          BY <1>3, <2>1, <2>2, <4>2 DEF TypeOK
        <5> QED
          BY <1>3, <2>4, <3>1, <5>1
      <4> QED
        BY <4>1, <4>2
    <3>3. WaitedFor(t, k, a)
      BY <1>1, <2>3, <2>4, <3>1 DEF Version
    <3>4. WaitedFor(t, k, a)'
      BY <2>1, <3>3, RestingWaits
    <3> QED
      BY <3>2, <3>4 DEF WaitedFor, ForThePoll
  <2>5. CASE k \notin 1 .. Len(pushes[t])
    <3>1. t = u
      BY <1>3, <2>1, <2>2, <2>5 DEF TypeOK, Version
    <3>2. pushes'[t] = Append(pushes[t], now)
      BY <1>3, <2>1, <2>2, <3>1 DEF TypeOK
    <3>3. k = Len(pushes[t]) + 1
      BY <1>3, <2>5, <3>2 DEF Version
    <3>4. PICK a \in Nat : a = now
      BY <1>3
    <3>5. pushes'[t][k] = a
      BY <1>3, <3>2, <3>3, <3>4
    <3>6. WaitedFor(t, k, a)
      BY <1>1, <3>4, FreshWaits
    <3>7. WaitedFor(t, k, a)'
      BY <2>1, <3>6, RestingWaits
    <3> QED
      BY <3>5, <3>7 DEF WaitedFor, ForThePoll
  <2> QED
    BY <2>4, <2>5
<1>8. CASE PollTick
  <2>1. pushes' = pushes /\ Unserved(t, k)
    BY <1>8 DEF PollTick, StartPass, postgres, Unserved
  <2> QED
    BY <1>5, <1>8, <2>1, PollTickWaits
<1>9. CASE CoalesceFires
  <2>1. pushes' = pushes /\ Unserved(t, k)
    BY <1>9 DEF CoalesceFires, StartPass, postgres, Unserved
  <2> QED
    BY <1>1, <1>5, <1>9, <2>1, CoalesceWaits
<1>10. CASE ListTenants
  <2>1. pushes' = pushes /\ Unserved(t, k)
    BY <1>10 DEF ListTenants, postgres, Unserved
  <2> QED
    BY <1>1, <1>5, <1>10, <2>1, ListWaits
<1>16. CASE TenantsListed
  <2>1. pushes' = pushes /\ Unserved(t, k)
    BY <1>16 DEF TenantsListed, postgres, Unserved
  <2> QED
    BY <1>5, <1>16, <2>1, ListedWaits
<1>11. CASE PassDone
  <2>1. pushes' = pushes /\ Unserved(t, k)
    BY <1>11 DEF PassDone, postgres, Unserved
  <2> QED
    BY <1>1, <1>5, <1>11, <2>1, PassDoneWaits
<1>12. ASSUME NEW u \in Tenants, Load(u) PROVE WaitedFor(t, k, pushes[t][k])'
  <2>1. pushes' = pushes /\ Unserved(t, k)
    BY <1>12 DEF Load, postgres, Unserved
  <2> QED
    BY <1>5, <1>12, <2>1, LoadWaits
<1>13. CASE CatalogVersion \/ ProbeMoved \/ BeginTx \/ LoadSnapshot \/ Swap \/ PublishRevocations
  <2>1. /\ pushes' = pushes /\ pc \in Loading /\ pc' \in Loading /\ pass' = pass /\ now' = now /\ ticker' = ticker
        /\ tickAt' = tickAt /\ batch' = batch /\ tenant' = tenant /\ started' = started
    BY <1>13 DEF CatalogVersion, ProbeMoved, BeginTx, LoadSnapshot, Swap, PublishRevocations,
                 postgres, loop, loading, Loading
  <2>2. Unserved(t, k) /\ (ReadBefore(t, k)' => ReadBefore(t, k))
    <3>1. CASE CatalogVersion
      <4>1. data' = data /\ pc' = "touch" /\ probed' = Len(pushes[tenant])
        BY <3>1 DEF CatalogVersion, Version
      <4>2. t = tenant => ~(probed' < k)
        BY <1>3, <2>1, <4>1 DEF Version
      <4> QED
        BY <2>1, <4>1, <4>2 DEF Unserved, ReadBefore
    <3>2. CASE ProbeMoved \/ BeginTx
      BY <3>2 DEF ProbeMoved, BeginTx, Unserved, ReadBefore
    <3>3. CASE LoadSnapshot
      <4>1. data' = data /\ pc = "read" /\ pc' = "rest" /\ draft' = [draft EXCEPT !.version = Len(pushes[tenant])]
        BY <3>3 DEF LoadSnapshot, Version
      <4>2. draft \in Snapshot
        BY <4>1, TenantLoading DEF Loading, InHand
      <4>3. draft'.version = Len(pushes[tenant])
        BY <4>1, <4>2 DEF Snapshot
      <4>4. t = tenant => ~(draft'.version < k)
        BY <1>3, <2>1, <4>3 DEF Version
      <4> QED
        BY <2>1, <4>1, <4>4 DEF Unserved, ReadBefore
    <3>4. CASE Swap
      <4>1. /\ pc = "rest" /\ pc' = "publish" /\ draft \in Snapshot /\ InHand /\ data'[tenant] = draft
            /\ \A u \in Tenants : u # tenant => data'[u] = data[u]
        BY <1>3, <3>4, TenantLoading DEF Swap, Loading, InHand, TypeOK
      <4>2. CASE t # tenant
        BY <1>3, <2>1, <4>1, <4>2 DEF Unserved, ReadBefore
      <4>3. CASE t = tenant
        <5>1. draft.version < k /\ draft.version \in Nat /\ draft # NoData
          BY <4>1, <4>3, SnapFacts DEF Unserved
        <5>2. data[t] # NoData => data[t].version <= draft.version /\ data[t].version \in Nat
          BY <1>3, <4>1, <4>3, SnapFacts, VersionFacts DEF InHand
        <5>3. k \in Nat
          BY <1>3, <2>1 DEF Version
        <5>4. Unserved(t, k)
          BY <5>1, <5>2, <5>3 DEF Unserved
        <5>5. ReadBefore(t, k)
          BY <4>1, <4>3, <5>1 DEF ReadBefore
        <5> QED
          BY <5>4, <5>5
      <4> QED
        BY <4>2, <4>3
    <3>5. CASE PublishRevocations
      BY <3>5 DEF PublishRevocations, loading, Unserved, ReadBefore
    <3> QED
      BY <1>13, <3>1, <3>2, <3>3, <3>4, <3>5
  <2> QED
    BY <1>2, <1>5, <2>1, <2>2, LoadingWaits
<1>14. CASE Touch \/ LoadDone
  <2>1. /\ pushes' = pushes /\ pc \in Loading /\ Return /\ now' = now /\ ticker' = ticker /\ tickAt' = tickAt
    BY <1>14 DEF Touch, Unchanged, LoadDone, postgres, loop, Loading
  <2>2. Unserved(t, k) /\ (tenant = t => ReadBefore(t, k))
    <3>1. CASE LoadDone
      BY <3>1 DEF LoadDone, Unserved, ReadBefore
    <3>2. CASE Touch
      <4>1. pc = "touch" /\ probed = data[tenant].version
        BY <3>2 DEF Touch, Unchanged
      <4>2. CASE t # tenant
        BY <1>3, <3>2, <4>2, SwapFacts DEF Unserved
      <4>3. CASE t = tenant
        <5>1. data'[t] # NoData /\ data'[t].version = data[t].version
          BY <3>2, <4>3, SwapFacts
        <5> QED
          BY <4>1, <4>3, <5>1 DEF Unserved, ReadBefore
      <4> QED
        BY <4>2, <4>3
    <3> QED
      BY <1>14, <3>1, <3>2
  <2> QED
    BY <1>2, <1>5, <2>1, <2>2, ReturnWaits
<1>15. CASE Tick
  <2>1. pushes' = pushes /\ Unserved(t, k)
    BY <1>15 DEF Tick, postgres, Unserved
  <2> QED
    BY <1>1, <1>5, <1>15, <2>1, TickWaits
<1> QED
  BY <1>6, <1>7, <1>8, <1>9, <1>10, <1>11, <1>12, <1>13, <1>14, <1>15, <1>16, SteadyCases, Zenon

LEMMA WaitedInit == Init => Waited
<1> SUFFICES ASSUME Init PROVE Waited
  OBVIOUS
<1>1. TypeOK
  BY InitTypes
<1>2. \A t \in Present : suspended[t] = Never /\ Version(t) = 0
  BY <1>1, PresentFacts DEF Init, Version
<1>3. Clock
  BY <1>2 DEF Init, Clock
<1> QED
  BY <1>2, <1>3 DEF Waited

(* "the poll will catch up": when queries answer, a change is served       *)
(* within a poll interval and three passes, whatever happens to its        *)
(* NOTIFY (Run, refreshAll).                                               *)
THEOREM ThePollCatchesUp == Spec => []PollCatchesUp
<1>1. IInv /\ Absent /\ Waited => PollCatchesUp
  <2> SUFFICES ASSUME IInv, Absent, Waited, ~Faults, ~Suspensions, NEW t \in Tenants, NEW k \in 1 .. Version(t),
                      Unserved(t, k)
               PROVE  ~(now - pushes[t][k] > PollInterval + (3 * Cardinality(Present) - 1) * Timeout)
    <3>1. ASSUME NEW t \in Tenants, NEW k \in 1 .. Version(t), ~(data[t] # NoData /\ k <= data[t].version), IInv
          PROVE  Unserved(t, k)
      <4>1. data[t] # NoData => data[t].version \in Nat
        BY <3>1, VersionFacts, SnapFacts DEF IInv
      <4>2. k \in Nat
        BY <3>1, VersionFacts DEF IInv
      <4> QED
        BY <3>1, <4>1, <4>2 DEF Unserved
    <3> QED
      BY <3>1 DEF PollCatchesUp
  <2>1. t \in Present
    <3>1. ASSUME t \notin Present PROVE FALSE
      <4>1. Version(t) = 0
        BY <3>1 DEF Absent, Version
      <4> QED
        BY <4>1
    <3> QED
      BY <3>1
  <2>2. Clock /\ WaitedFor(t, k, pushes[t][k])
    BY <2>1 DEF Waited
  <2>3. PICK a \in Nat : a = pushes[t][k]
    BY VersionFacts DEF IInv
  <2>4. now - a <= Third
    <3>1. CASE Awaited(t, k)
      <4>1. now - a + Left <= Third
        BY <2>2, <2>3, <3>1 DEF WaitedFor
      <4> QED
        BY <2>1, <4>1, Bounds
    <3>2. CASE ~Awaited(t, k)
      <4>1. ForThePoll(a)
        BY <2>2, <2>3, <3>2 DEF WaitedFor
      <4>2. CASE tickAt = 0
        <5>1. now - a + Left <= Span(Cardinality(Present))
          BY <4>1, <4>2 DEF ForThePoll
        <5> QED
          BY <2>1, <5>1, Bounds
      <4>3. CASE tickAt # 0 /\ ~ticker
        <5>1. tickAt - a <= First /\ now < tickAt
          BY <2>2, <4>1, <4>3 DEF ForThePoll, Clock
        <5> QED
          BY <2>1, <5>1, Bounds
      <4>4. CASE ticker
        <5>1. pc \in {"select", "list", "listed", "load"} \cup Loading
          BY DEF IInv, TypeOK, States, Loading
        <5>2. \/ now - a <= Second \/ now - a <= First
              \/ now - a + Left <= First \/ now - a + Left <= Second
          BY <4>1, <4>4, <5>1 DEF ForThePoll
        <5> QED
          BY <2>1, <5>2, Bounds
      <4> QED
        BY <4>2, <4>3, <4>4
    <3> QED
      BY <3>1, <3>2
  <2>5. Third = PollInterval + (3 * Cardinality(Present) - 1) * Timeout
    BY DEF Third, Span
  <2> QED
    BY <2>1, <2>3, <2>4, <2>5, Bounds
<1>2. IInv /\ IInv' /\ Waited /\ [Next]_vars => Waited'
  BY WaitedStep
<1>3. IInv /\ Absent /\ [Next]_vars => Absent'
  BY AbsentStep
<1>4. Init => Absent
  BY DEF Init, Absent
<1> QED
  BY <1>1, <1>2, <1>3, <1>4, WaitedInit, InvariantHolds, PTL DEF Spec
=============================================================================
