-------------------------- MODULE SnapshotManager --------------------------
(***************************************************************************)
(* The gate's snapshot manager (internal/gate/app/manager.go) in one       *)
(* instance of the server, with the two things it talks to: the catalog in *)
(* Postgres, and the consumers of the revocation stream.                   *)
(*                                                                         *)
(* Time is discrete.  A query takes any time up to the timeout of load's   *)
(* context; what the process does between two queries takes none, and an   *)
(* event the idle loop is ready for is handled before time passes.  The    *)
(* database and the instance read the same clock.                          *)
(*                                                                         *)
(* Every change the gate must learn of is one entry of pushes[t], written  *)
(* with the time it committed: migration 0040 gave every table the         *)
(* snapshot reads a trigger that bumps catalog_version, so the version is  *)
(* the number of changes.  Each change stands for a revocation, the kind   *)
(* the stream announces.                                                   *)
(***************************************************************************)
EXTENDS Integers, Sequences, FiniteSets

CONSTANTS
    Tenants,
    MaxAge,        \* ANUBIS_SNAPSHOT_MAX_AGE
    RebuildEvery,  \* rebuildEvery
    PollInterval,  \* pollInterval
    Timeout,       \* of load's context
    Window,        \* revokedWindow
    AccessTTL,     \* the longest life of an access token, the realm's to set
    DirtyCap,      \* capacity of the dirty channel
    SubBuffer,     \* capacity of a subscriber's channel
    Modes,         \* the surroundings to run in: [tenants, changes, until, switches]
    NoData, NoTenant

ASSUME TimesAssumption ==
    /\ {MaxAge, RebuildEvery, PollInterval, Timeout, Window} \subseteq Nat \ {0}
    /\ {DirtyCap, SubBuffer, AccessTTL} \subseteq Nat
\* NewManager gives the two the same value.
ASSUME RebuildAssumption == RebuildEvery = MaxAge
ASSUME ModesAssumption ==
    Modes \subseteq [tenants : SUBSET Tenants, changes : Nat, until : Nat,
                     switches : SUBSET {"faults", "suspensions", "streams"}]
ASSUME TenantsAssumption == IsFiniteSet(Tenants) /\ NoTenant \notin Tenants

VARIABLES
    now,
    mode,      \* the surroundings of this behaviour, the same throughout
    \* Postgres
    pushes,    \* Tenants -> the commit times of its changes, in order
    suspended, \* Tenants -> when its status ceased to be 'active', or Never
    notes,     \* NOTIFYs on their way to the listener
    \* the manager
    data,      \* m.data
    dirty,     \* m.dirty
    pending,   \* Run's pending set
    coalesce,  \* its timer: "off", "set" or "fired"
    ticker,    \* whether ticker.C has a tick
    tickAt,    \* when the next is due; 0 before Run creates ticker and listener
    pc,        \* where Run's goroutine is
    pass,      \* "poll" (refreshAll) or "pending" (refreshPending)
    batch,     \* tenants the pass has still to load
    tenant, started, \* load's argument, and when its context began; or when
               \* Postgres read the list the pass waits for
    probed,    \* the version CatalogVersion returned
    draft,     \* the snapshot under construction
    news,      \* publishRevocations: events still to publish
    delay,     \* how long the list a tenant was last loaded from was on its way
    \* the revocation stream
    subs,      \* tenants somebody streams
    since,     \* the version when that consumer was told it is synced, Never
               \* if the tenant had no snapshot then
    queue,     \* its channel
    heard, dropped  \* events received, events its full channel lost

postgres == <<pushes, suspended, notes>>
loop     == <<dirty, pending, coalesce, ticker, tickAt>>
loading  == <<pass, batch, tenant, started, probed, draft>>
stream   == <<subs, since, queue, heard, dropped>>
vars == <<now, mode, postgres, data, loop, pc, loading, news, delay, stream>>

Present     == mode.tenants                      \* the tenants there are
MaxChanges  == mode.changes                      \* bound on the changes of each
MaxTime     == mode.until                        \* bound on the clock
Faults      == "faults" \in mode.switches       \* a query may fail, and the tenant list may hang
Suspensions == "suspensions" \in mode.switches  \* tenants are suspended and reactivated
Streams     == "streams" \in mode.switches      \* consumers subscribe to revocations

----------------------------------------------------------------------------
Version(t) == Len(pushes[t])

Never == -1
Active == {t \in Present : suspended[t] = Never}

Snapshot == [version : Nat, builtAt : Nat, loadedAt : Nat]

ASSUME NoDataAssumption == NoData \notin Snapshot

States == {"select", "list", "listed", "load", "probe", "touch", "begin", "read", "rest",
           "publish", "announce"}

TypeOK ==
    /\ now \in Nat
    /\ mode \in Modes
    /\ pushes \in [Tenants -> Seq(Nat)]
    /\ suspended \in [Tenants -> Nat \cup {Never}]
    /\ notes \subseteq Tenants
    /\ data \in [Tenants -> Snapshot \cup {NoData}]
    /\ dirty \in Seq(Tenants)
    /\ pending \subseteq Tenants
    /\ coalesce \in {"off", "set", "fired"}
    /\ ticker \in BOOLEAN
    /\ tickAt \in Nat
    /\ pc \in States
    /\ pass \in {"poll", "pending"}
    /\ batch \subseteq Tenants
    /\ tenant \in Tenants \cup {NoTenant}
    /\ started \in Nat
    /\ probed \in Nat
    /\ draft \in Snapshot \cup {NoData}
    /\ news \subseteq Nat
    /\ delay \in [Tenants -> Nat]
    /\ subs \subseteq Tenants
    /\ since \in [Tenants -> Nat \cup {Never}]
    /\ queue \in [Tenants -> Seq(Nat)]
    /\ heard \in [Tenants -> SUBSET Nat]
    /\ dropped \in [Tenants -> SUBSET Nat]

\* Run begins with refreshAll.
Init ==
    /\ now = 0
    /\ mode \in Modes
    /\ pushes = [t \in Tenants |-> <<>>]
    /\ suspended = [t \in Tenants |-> Never]
    /\ notes = {}
    /\ data = [t \in Tenants |-> NoData]
    /\ dirty = <<>>
    /\ pending = {}
    /\ coalesce = "off"
    /\ ticker = FALSE
    /\ tickAt = 0
    /\ pc = "list"
    /\ pass = "poll"
    /\ batch = {}
    /\ tenant = NoTenant
    /\ started = 0
    /\ probed = 0
    /\ draft = NoData
    /\ news = {}
    /\ delay = [t \in Tenants |-> 0]
    /\ subs = {}
    /\ since = [t \in Tenants |-> Never]
    /\ queue = [t \in Tenants |-> <<>>]
    /\ heard = [t \in Tenants |-> {}]
    /\ dropped = [t \in Tenants |-> {}]

----------------------------------------------------------------------------
(***************************************************************************)
(* What the gate reads.                                                    *)
(***************************************************************************)
\* Get's second result: within maxAge of the last confirmation.
Get(t) == data[t] # NoData /\ now - data[t].loadedAt <= MaxAge

\* Variant of RevokedSessions: the window is shorter than a token's life.
RevokedSessionsShort(t, d) ==
    {k \in 1..d.version : pushes[t][k] > d.builtAt - Window + 1}

\* RevokedSessions of a snapshot of t: what its window still held when its
\* transaction began.
RevokedSessions(t, d) ==
    {k \in 1..d.version : pushes[t][k] > d.builtAt - Window}

----------------------------------------------------------------------------
(***************************************************************************)
(* Postgres: changes, their notifications, the status of a tenant.         *)
(***************************************************************************)
Change(t) ==
    /\ Version(t) < MaxChanges
    /\ pushes' = [pushes EXCEPT ![t] = Append(@, now)]
    /\ notes' = IF tickAt = 0 THEN notes ELSE notes \cup {t}
    /\ UNCHANGED <<now, mode, suspended, data, loop, pc, loading, news, delay, stream>>

SetTenantStatus(t) ==
    /\ Suspensions
    /\ suspended' = [suspended EXCEPT ![t] = IF t \in Active THEN now ELSE Never]
    /\ UNCHANGED <<now, mode, pushes, notes, data, loop, pc, loading, news, delay, stream>>

\* WatchCatalog hands a notification to the loop, unless the channel is full.
Notify(t) ==
    /\ t \in notes
    /\ notes' = notes \ {t}
    /\ dirty' = IF Len(dirty) < DirtyCap THEN Append(dirty, t) ELSE dirty
    /\ UNCHANGED <<now, mode, pushes, suspended, data, pending, coalesce, ticker, tickAt, pc, loading,
                   news, delay, stream>>

\* The listener's connection drops: what was on its way is gone.
ListenerDropped ==
    /\ notes # {}
    /\ notes' = {}
    /\ UNCHANGED <<now, mode, pushes, suspended, data, loop, pc, loading, news, delay, stream>>

----------------------------------------------------------------------------
(***************************************************************************)
(* Run's loop.                                                             *)
(***************************************************************************)
StartPass(kind) ==
    /\ pc' = "list"
    /\ pass' = kind
    /\ UNCHANGED <<now, mode, postgres, data, dirty, pending, tickAt, batch, tenant, started, probed,
                   draft, news, delay, stream>>

\* refreshAll or refreshPending returns.  The first time, at Run's start, the
\* listener and the ticker come after it.
EndPass ==
    /\ pc' = "select"
    /\ pass' = "poll"
    /\ tickAt' = IF tickAt = 0 THEN now + PollInterval ELSE tickAt

PollTick ==
    /\ pc = "select" /\ ticker
    /\ ticker' = FALSE
    /\ StartPass("poll")
    /\ UNCHANGED coalesce

TakeDirty ==
    /\ pc = "select" /\ dirty # <<>>
    /\ pending' = pending \cup {Head(dirty)}
    /\ dirty' = Tail(dirty)
    /\ coalesce' = "set"
    /\ UNCHANGED <<now, mode, postgres, data, ticker, tickAt, pc, loading, news, delay, stream>>

\* The timer is shorter than a unit of time, and longer than none: a tick that
\* was there when it was set is taken before it fires.
CoalesceFires ==
    /\ pc = "select"
    /\ coalesce = "fired" \/ (coalesce = "set" /\ ~ticker)
    /\ coalesce' = "off"
    /\ StartPass("pending")
    /\ UNCHANGED ticker

\* Variant of ListTenants: tenants of every status.
ListTenantsOfAnyStatus ==
    /\ pc = "list"
    /\ batch' = IF pass = "poll" THEN Tenants ELSE pending
    /\ started' = now
    /\ pc' = "listed"
    /\ UNCHANGED <<now, mode, postgres, data, loop, pass, tenant, probed, draft, news, delay, stream>>

\* Variant of ListTenants: the poll, too, loads only what a NOTIFY named.
ListTenantsPending ==
    /\ pc = "list"
    /\ batch' = Active \cap pending
    /\ started' = now
    /\ pc' = "listed"
    /\ UNCHANGED <<now, mode, postgres, data, loop, pass, tenant, probed, draft, news, delay, stream>>

\* Postgres reads the tenant list, of which the pass loads a part.
ListTenants ==
    /\ pc = "list"
    /\ batch' = IF pass = "poll" THEN Active ELSE Active \cap pending
    /\ started' = now
    /\ pc' = "listed"
    /\ UNCHANGED <<now, mode, postgres, data, loop, pass, tenant, probed, draft, news, delay, stream>>

\* Its answer arrives: no context of its own limits how much later.
TenantsListed ==
    /\ pc = "listed"
    /\ delay' = [t \in Tenants |-> IF t \in batch THEN now - started ELSE delay[t]]
    /\ started' = 0
    /\ pc' = "load"
    /\ UNCHANGED <<now, mode, postgres, data, loop, pass, batch, tenant, probed, draft, news, stream>>

\* The list fails: the pass is over, and pending keeps what it holds.
ListTenantsError ==
    /\ Faults
    /\ pc \in {"list", "listed"}
    /\ batch' = {} /\ started' = 0
    /\ EndPass
    /\ UNCHANGED <<now, mode, postgres, data, dirty, pending, coalesce, ticker, tenant,
                   probed, draft, news, delay, stream>>

\* Every tenant of the pass is done; refreshPending clears its set.
PassDone ==
    /\ pc = "load" /\ batch = {}
    /\ pending' = IF pass = "pending" THEN {} ELSE pending
    /\ EndPass
    /\ UNCHANGED <<now, mode, postgres, data, dirty, coalesce, ticker, batch, tenant, started, probed,
                   draft, news, delay, stream>>

----------------------------------------------------------------------------
(***************************************************************************)
(* load: one tenant.                                                       *)
(***************************************************************************)
\* Variant of DueForRebuild: no periodic proof from scratch.
NeverDue(d) == d = NoData

\* No snapshot yet, or one built longer ago than rebuildEvery.
DueForRebuild(d) == d = NoData \/ now - d.builtAt >= RebuildEvery

Load(t) ==
    /\ pc = "load" /\ t \in batch
    /\ tenant' = t
    /\ started' = now
    /\ batch' = batch \ {t}
    /\ pc' = IF DueForRebuild(data[t]) THEN "begin" ELSE "probe"
    /\ UNCHANGED <<now, mode, postgres, data, loop, pass, probed, draft, news, delay, stream>>

\* load returns: its locals are gone, the pass goes on.
Return ==
    /\ pc' = "load"
    /\ tenant' = NoTenant /\ started' = 0 /\ probed' = 0 /\ draft' = NoData
    /\ UNCHANGED <<pass, batch>>

CatalogVersion ==
    /\ pc = "probe"
    /\ probed' = Version(tenant)
    /\ pc' = "touch"
    /\ UNCHANGED <<now, mode, postgres, data, loop, pass, batch, tenant, started, draft, news, delay, stream>>

\* Variant of Unchanged: the probe's answer is not compared.
AnyVersion == pc = "touch"

\* The answer arrives, and it is the version the snapshot was built from.
Unchanged == pc = "touch" /\ probed = data[tenant].version

\* Only this goroutine writes m.data, so touch never loses the race it checks.
Touch ==
    /\ Unchanged
    /\ data' = [data EXCEPT ![tenant].loadedAt = now]
    /\ Return
    /\ UNCHANGED <<now, mode, postgres, loop, news, delay, stream>>

\* The version moved, or the probe failed: rebuild.
ProbeMoved ==
    /\ pc \in {"probe", "touch"}
    /\ Faults \/ (pc = "touch" /\ ~Unchanged)
    /\ pc' = "begin"
    /\ UNCHANGED <<now, mode, postgres, data, loop, loading, news, delay, stream>>

\* LoadSnapshot opens its REPEATABLE READ transaction and stamps the result;
\* SHOW takes no snapshot, the first query does.
BeginTx ==
    /\ pc = "begin"
    /\ draft' = [version |-> 0, builtAt |-> now, loadedAt |-> now]
    /\ pc' = "read"
    /\ UNCHANGED <<now, mode, postgres, data, loop, pass, batch, tenant, started, probed, news, delay, stream>>

\* The first query fixes what all of them read.
LoadSnapshot ==
    /\ pc = "read"
    /\ draft' = [draft EXCEPT !.version = Version(tenant)]
    /\ pc' = "rest"
    /\ UNCHANGED <<now, mode, postgres, data, loop, pass, batch, tenant, started, probed, news, delay, stream>>

LoadError ==
    /\ Faults
    /\ pc \in {"begin", "read", "rest"}
    /\ Return
    /\ UNCHANGED <<now, mode, postgres, data, loop, news, delay, stream>>

\* Variant of News: only the newest change is announced.
NewsOfLast(t, prev, next) ==
    IF prev = NoData THEN {} ELSE {next.version} \ RevokedSessions(t, prev)

\* What publishRevocations finds new in next.
News(t, prev, next) ==
    IF prev = NoData THEN {} ELSE RevokedSessions(t, next) \ RevokedSessions(t, prev)

\* Variant of Swap: a reload announces what it read before it is swapped in.
SwapAnnouncesFirst ==
    /\ pc = "rest"
    /\ data' = IF data[tenant] = NoData THEN [data EXCEPT ![tenant] = draft] ELSE data
    /\ news' = IF tenant \in subs THEN News(tenant, data[tenant], draft) ELSE {}
    /\ pc' = "announce"
    /\ UNCHANGED <<now, mode, postgres, loop, loading, delay, stream>>

\* The swap.  draft keeps the snapshot it replaced for publishRevocations.
Swap ==
    /\ pc = "rest"
    /\ data' = [data EXCEPT ![tenant] = draft]
    /\ draft' = data[tenant]
    /\ pc' = "publish"
    /\ UNCHANGED <<now, mode, postgres, loop, pass, batch, tenant, started, probed, news, delay, stream>>

\* Nobody streaming the tenant: the comparison is skipped.
PublishRevocations ==
    /\ pc = "publish"
    /\ news' = IF tenant \in subs THEN News(tenant, draft, data[tenant]) ELSE {}
    /\ pc' = "announce"
    /\ UNCHANGED <<now, mode, postgres, data, loop, loading, delay, stream>>

Publish(k) ==
    /\ pc = "announce" /\ k \in news
    /\ news' = news \ {k}
    /\ IF tenant \in subs /\ Len(queue[tenant]) < SubBuffer
       THEN /\ queue' = [queue EXCEPT ![tenant] = Append(@, k)]
            /\ UNCHANGED dropped
       ELSE /\ dropped' = [dropped EXCEPT ![tenant] = IF tenant \in subs THEN @ \cup {k} ELSE @]
            /\ UNCHANGED queue
    /\ UNCHANGED <<now, mode, postgres, data, loop, pc, loading, delay, subs, since, heard>>

LoadDone ==
    /\ pc = "announce" /\ news = {}
    /\ Return
    /\ UNCHANGED <<now, mode, postgres, data, loop, news, delay, stream>>

----------------------------------------------------------------------------
(***************************************************************************)
(* StreamRevocations: subscribe, say synced, forward.                      *)
(***************************************************************************)
Subscribe(t) ==
    /\ Streams /\ t \notin subs
    /\ subs' = subs \cup {t}
    /\ since' = [since EXCEPT ![t] = IF data[t] = NoData THEN Never ELSE Version(t)]
    /\ UNCHANGED <<now, mode, postgres, data, loop, pc, loading, news, delay, queue, heard, dropped>>

Receive(t) ==
    /\ queue[t] # <<>>
    /\ heard' = [heard EXCEPT ![t] = @ \cup {Head(queue[t])}]
    /\ queue' = [queue EXCEPT ![t] = Tail(@)]
    /\ UNCHANGED <<now, mode, postgres, data, loop, pc, loading, news, delay, subs, since, dropped>>

Cancel(t) ==
    /\ t \in subs
    /\ subs' = subs \ {t}
    /\ queue' = [queue EXCEPT ![t] = <<>>]
    /\ heard' = [heard EXCEPT ![t] = {}]
    /\ dropped' = [dropped EXCEPT ![t] = {}]
    /\ since' = [since EXCEPT ![t] = Never]
    /\ UNCHANGED <<now, mode, postgres, data, loop, pc, loading, news, delay>>

----------------------------------------------------------------------------
\* Whether the goroutine may let time pass: idle with nothing to do, or
\* waiting for a query whose context has not ended.
Waits ==
    \/ pc = "select" /\ ~ticker /\ coalesce = "off" /\ dirty = <<>>
    \/ pc \in {"list", "listed"} /\ Faults
    \/ pc \in {"probe", "touch", "begin", "read", "rest"} /\ now - started < Timeout

Tick ==
    /\ now < MaxTime
    /\ Waits
    /\ now' = now + 1
    /\ ticker' = (ticker \/ now + 1 = tickAt)
    /\ tickAt' = IF now + 1 = tickAt THEN tickAt + PollInterval ELSE tickAt
    /\ coalesce' = IF coalesce = "set" THEN "fired" ELSE coalesce
    /\ UNCHANGED <<mode, postgres, data, dirty, pending, pc, loading, news, delay, stream>>

Run ==
    \/ PollTick \/ TakeDirty \/ CoalesceFires
    \/ ListTenants \/ TenantsListed \/ ListTenantsError \/ PassDone
    \/ \E t \in Tenants : Load(t)
    \/ CatalogVersion \/ Touch \/ ProbeMoved
    \/ BeginTx \/ LoadSnapshot \/ LoadError \/ Swap
    \/ PublishRevocations \/ (\E k \in news : Publish(k)) \/ LoadDone

Environment ==
    \/ \E t \in Present : Change(t) \/ SetTenantStatus(t) \/ Notify(t)
    \/ ListenerDropped
    \/ \E t \in Present : Subscribe(t) \/ Receive(t) \/ Cancel(t)

Next == Run \/ Environment \/ Tick

Spec == Init /\ [][Next]_vars

----------------------------------------------------------------------------
(***************************************************************************)
(* What the gate promises.                                                 *)
(***************************************************************************)
\* What the gate serves as fresh misses no change older than max age, plus
\* the time one version probe may take: a touch is stamped when the answer
\* arrives, not when Postgres gave it (manager.go, load and touch).  A
\* snapshot that was never touched misses nothing older than max age.
ServedIsRecent ==
    \A t \in Tenants : Get(t) =>
        \A k \in data[t].version + 1 .. Version(t) :
            /\ now - pushes[t][k] <= MaxAge + Timeout
            /\ data[t].loadedAt = data[t].builtAt => now - pushes[t][k] <= MaxAge

\* However long the version does not move (a lost trigger), what is served was
\* built within twice max age and one probe (rebuildEvery).
RebuiltInTime ==
    \A t \in Tenants : Get(t) => now - data[t].builtAt < 2 * MaxAge + Timeout

\* An announced revocation is already enforced: a consumer that reacts by
\* asking this gate is not told the session is live (load, swap before
\* publishRevocations).
AnnouncedIsServed ==
    \A t \in Tenants : \A k \in heard[t] \cup {queue[t][i] : i \in 1..Len(queue[t])} :
        data[t] # NoData /\ k <= data[t].version

\* "the poll will catch up": with queries that answer, a change to an active
\* tenant is served within a poll interval and three passes (the one that
\* missed it, one over other tenants, the poll's), although its NOTIFY is lost
\* or finds the channel full (Run, refreshAll).
PollCatchesUp ==
    ~Faults /\ ~Suspensions =>
        \A t \in Tenants : \A k \in 1..Version(t) :
            now - pushes[t][k] > PollInterval + (3 * Cardinality(Present) - 1) * Timeout =>
                data[t] # NoData /\ k <= data[t].version

\* A revoked session is denied to the end of the denylist's window, however
\* often the snapshot is rebuilt: from when the gate has learnt of it and, by
\* everything served as fresh, once max age and a probe are over
\* (SnapshotRevokedSessions, revokedWindow).
DeniedForTheWindow ==
    \A t \in Tenants : data[t] # NoData =>
        \A k \in 1..Version(t) :
            /\ now < pushes[t][k] + Window
            /\ \/ k <= data[t].version
               \/ Get(t) /\ now - pushes[t][k] > MaxAge + Timeout
            => k \in RevokedSessions(t, data[t])

\* A tenant that stopped being active drops out of the gate, although nobody
\* removes its snapshot: nothing is served for it once max age and the loads
\* of one pass are over, and the time the list that pass worked from was on
\* its way, which nothing limits (ListTenants, Get).
SuspendedExpires ==
    \A t \in Present \ Active :
        now - suspended[t] > MaxAge + Cardinality(Present) * Timeout + delay[t] => ~Get(t)

\* "no window in which a revocation happens, the consumer is told it is synced,
\* and the event was never delivered", for a consumer that came once the tenant
\* had a snapshot: whatever the gate has learnt of and still denies, committed
\* after the consumer was synced, was sent to it or counted as dropped
\* (publishRevocations, Publish).
SyncedHearsAll ==
    \A t \in subs : since[t] # Never /\ tenant # t =>
        \A k \in (since[t] + 1 .. data[t].version) \cap RevokedSessions(t, data[t]) :
            k \in heard[t] \cup dropped[t] \cup {queue[t][i] : i \in 1..Len(queue[t])}

----------------------------------------------------------------------------
(***************************************************************************)
(* What comments and documents say and these steps refute.                 *)
(***************************************************************************)
\* NewManager and docs/adr/0015: "nothing is served that has not been fully
\* rebuilt within max age".
RebuiltWithinMaxAge == \A t \in Tenants : Get(t) => now - data[t].builtAt <= MaxAge

\* SnapshotRevokedSessions: the window is "bounded by the longest access-token
\* TTL: a revocation older than that cannot match a still-valid token", so a
\* session the gate has denied stays denied while a token issued before its
\* revocation lives.  It does where AccessTTL <= Window.
RevokedStaysDenied ==
    \A t \in Tenants : data[t] # NoData =>
        \A k \in 1..data[t].version :
            now < pushes[t][k] + AccessTTL => k \in RevokedSessions(t, data[t])

=============================================================================
