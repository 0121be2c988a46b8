----------------------------- MODULE AuditChain -----------------------------
(***************************************************************************)
(* The chained auditor: every replica has a bounded queue of audit events  *)
(* and one goroutine that appends them, each in a transaction of its own,  *)
(* to the tenant's hash chain in Postgres. Replicas extend one chain, so   *)
(* an append takes the tenant's advisory lock, reads the tip and inserts   *)
(* the next link. Emitters are request handlers and background jobs; a     *)
(* security event blocks its emitter while the queue is full, a sampled    *)
(* authorize event is counted and dropped.                                 *)
(*                                                                         *)
(* What is abstracted: an event is a name, and of its fields only the text *)
(* of its ids is told apart: as the caller wrote it, or as the uuid        *)
(* columns give it back. The hash of a link is the sequence of everything  *)
(* it commits to, so two hashes are equal exactly when their histories     *)
(* are; a verification's pages are read at one moment, which for an        *)
(* append-only chain is what its last page sees; there is one signing key. *)
(***************************************************************************)
EXTENDS Naturals, Sequences, FiniteSets

CONSTANTS
    Tenants,
    Replicas,
    Events,
    TenantOf,       \* event -> its tenant, or NoTenant
    Home,           \* event -> the replica it happens on
    After,          \* event -> the events of its replica its operation comes after
    Sampled,        \* the events of action "authorize"
    Jobs,           \* the events a background job emits
    Detached,       \* those of a goroutine a request left behind (mail delivery);
                    \* requests emit all the others
    InTx,           \* the events emitted inside a transaction of their own
    RawIds,         \* those with an id a caller wrote, not all in lower case
    Scenes,         \* what behaviours to look at: the events, the time and the
                    \* anchor job's runs a behaviour starts with
    QueueSize,      \* the queue's capacity (4096)
    PoolSize,       \* database connections of a replica
    MaxTime,        \* bound on the clock
    MaxStops,       \* bound on shutdowns and stops together
    MaxAnchors,     \* bound on the anchor job's runs
    Faults,         \* whether statements may fail
    NoTenant, NoReplica, NoEvent

ASSUME SizesAssumption ==
    /\ QueueSize \in Nat \ {0} /\ PoolSize \in Nat \ {0}
    /\ MaxTime \in Nat /\ MaxStops \in Nat /\ MaxAnchors \in Nat /\ Faults \in BOOLEAN
ASSUME EventsAssumption ==
    /\ TenantOf \in [Events -> Tenants \cup {NoTenant}]
    /\ Home \in [Events -> Replicas]
    /\ After \in [Events -> SUBSET Events]
    /\ \A e \in Events : \A d \in After[e] : Home[d] = Home[e]
    /\ Sampled \subseteq Events /\ Jobs \subseteq Events
    /\ Detached \subseteq Events \ Jobs /\ InTx \subseteq Events
    /\ Sampled \cap InTx = {}
    /\ RawIds \subseteq Events
    /\ Scenes \subseteq [events : SUBSET Events, now : 0..MaxTime, signings : 0..MaxAnchors]
ASSUME NoneAssumption ==
    NoTenant \notin Tenants /\ NoReplica \notin Replicas /\ NoEvent \notin Events

VARIABLES
    emit,       \* event -> how far the operation that emits it has come
    queue,      \* replica -> the channel's buffer
    waiting,    \* replica -> the senders blocked on the channel, in order
    cancelled,  \* the events whose caller's context is done
    phase,      \* replica -> up, draining, closed, cut, stopped
    pc,         \* replica -> where its append stands
    cur,        \* replica -> the event being appended
    began,      \* replica -> when its transaction began
    tip,        \* replica -> the tip its append read
    lock,       \* tenant -> the replica whose transaction holds its chain's lock
    rows,       \* tenant -> the committed rows of audit_log
    anchoring,  \* what the anchor job has read: [tenant, seq, hash]
    anchors,    \* tenant -> the rows of audit_anchors
    counted,    \* the events counted as dropped
    lost,       \* event -> why it will never be appended nor counted
    now,        \* the database's clock
    stops,      \* how many shutdowns and stops there were
    signings    \* how often the anchor job ran

emitters == <<emit, queue, waiting, cancelled>>
worker   == <<pc, cur, began, tip, lock>>
anchorjob == <<anchoring, anchors, signings>>
vars == <<emitters, worker, anchorjob, phase, rows, counted, lost, now, stops>>

-----------------------------------------------------------------------------
(* The chain.                                                              *)

Nil == <<>>

(* chainHash: the hash of a link, as what it commits to, the text of the   *)
(* event's ids included.                                                   *)
ChainHash(prev, seq, e, ids) == Append(prev, <<seq, e, ids>>)

(* The text of an event's ids: append hashes what the emitter sent; the    *)
(* insert turns it into uuids (ParseUUID takes capitals), so that the      *)
(* verifier reads, and hashes, the canonical text whatever was sent.       *)
Texts == {"canonical", "raw"}
IdsSent(e) == IF e \in RawIds THEN "raw" ELSE "canonical"
IdsRead(e) == "canonical"

EmptyTip == [seq |-> 0, hash |-> Nil]

(* LastAuditEntry: the row of the highest seq; an empty chain is at 0.     *)
LastAuditEntry(t) ==
    IF rows[t] = {} THEN EmptyTip
    ELSE LET last == CHOOSE x \in rows[t] : \A y \in rows[t] : y.seq <= x.seq
         IN  [seq |-> last.seq, hash |-> last.hash]

(* The row an append writes; occurred_at is the column's default, now(),   *)
(* which Postgres fixes when the transaction begins.                       *)
NextRow(r) ==
    [seq |-> tip[r].seq + 1, ev |-> cur[r], prev |-> tip[r].hash,
     hash |-> ChainHash(tip[r].hash, tip[r].seq + 1, cur[r], IdsSent(cur[r])), at |-> began[r]]

Init ==
    /\ \E scene \in Scenes :
          /\ emit = [e \in Events |-> IF e \in scene.events THEN "idle" ELSE "absent"]
          /\ now = scene.now
          /\ signings = scene.signings
    /\ queue = [r \in Replicas |-> <<>>]
    /\ waiting = [r \in Replicas |-> <<>>]
    /\ cancelled = {}
    /\ phase = [r \in Replicas |-> "up"]
    /\ pc = [r \in Replicas |-> "receive"]
    /\ cur = [r \in Replicas |-> NoEvent]
    /\ began = [r \in Replicas |-> 0]
    /\ tip = [r \in Replicas |-> EmptyTip]
    /\ lock = [t \in Tenants |-> NoReplica]
    /\ rows = [t \in Tenants |-> {}]
    /\ anchoring = [tenant |-> NoTenant, seq |-> 0, hash |-> Nil]
    /\ anchors = [t \in Tenants |-> {}]
    /\ counted = {}
    /\ lost = [e \in Events |-> "no"]
    /\ stops = 0

-----------------------------------------------------------------------------
(* Emitters.                                                               *)

On(r) == {e \in Events : Home[e] = r}
InFlight(r) == {e \in On(r) : emit[e] \in {"running", "waiting"}}

(* Connections of r's pool nobody holds.                                   *)
Free(r) == PoolSize - Cardinality(InFlight(r) \cap InTx)
                    - (IF pc[r] \in {"lock", "read", "insert"} THEN 1 ELSE 0)

(* A request is accepted, with the goroutine it may leave behind, or a     *)
(* job's tick comes; draining replicas start neither.                      *)
Start(e) ==
    LET r == Home[e] IN
    /\ emit[e] = "idle"
    /\ phase[r] = "up"
    /\ \A d \in After[e] : emit[d] = "returned"
    /\ e \in InTx => Free(r) > 0
    /\ emit' = [emit EXCEPT ![e] = "running"]
    /\ UNCHANGED <<queue, waiting, cancelled, worker, anchorjob, phase, rows,
                   counted, lost, now, stops>>

Returns(e) == emit' = [emit EXCEPT ![e] = "returned"]

Room(r) == Len(queue[r]) < QueueSize

(* The queue is closed, in an orderly way or over the heads of requests    *)
(* that outlived the grace; what that does to an event not yet sent.       *)
Closed(r) == phase[r] \in {"closed", "cut"}
LossWhen(ph) == IF ph = "cut" THEN "forced" ELSE "late"
KillWhen(ph) == IF ph = "cut" THEN "forced" ELSE "panic"

(* The transaction of r is over: its lock, if it holds one, is released.   *)
Ends(r) ==
    /\ lock' = [t \in Tenants |-> IF lock[t] = r THEN NoReplica ELSE lock[t]]
    /\ pc' = [pc EXCEPT ![r] = "receive"]
    /\ cur' = [cur EXCEPT ![r] = NoEvent]
    /\ began' = [began EXCEPT ![r] = 0]
    /\ tip' = [tip EXCEPT ![r] = EmptyTip]

(* The process is gone, and with it the events it had not stored.          *)
Stop(r, why) ==
    LET gone == {e \in On(r) : emit[e] \in {"running", "waiting"}
                               \/ e = cur[r]
                               \/ \E i \in 1..Len(queue[r]) : queue[r][i] = e}
    IN
    /\ phase' = [phase EXCEPT ![r] = "stopped"]
    /\ emit' = [e \in Events |-> IF e \in gone /\ emit[e] # "returned"
                                 THEN "panicked" ELSE emit[e]]
    /\ lost' = [e \in Events |-> IF e \in gone THEN why ELSE lost[e]]
    /\ queue' = [queue EXCEPT ![r] = <<>>]
    /\ waiting' = [waiting EXCEPT ![r] = <<>>]
    /\ Ends(r)
    /\ UNCHANGED <<cancelled, anchorjob, rows, counted, now>>

(* Emit, up to the moment its send succeeds, is refused or blocks. A send  *)
(* on the closed channel panics; net/http and the scheduler recover it,    *)
(* a goroutine of its own takes the process with it.                       *)
Emit(e) ==
    LET r == Home[e] IN
    /\ emit[e] = "running"
    /\ phase[r] # "stopped"
    /\ \/ /\ TenantOf[e] = NoTenant
          /\ counted' = counted \cup {e}
          /\ Returns(e)
          /\ UNCHANGED <<queue, waiting, lost>>
       \/ /\ TenantOf[e] # NoTenant
          /\ Closed(r)
          /\ e \notin Detached
          /\ emit' = [emit EXCEPT ![e] = "panicked"]
          /\ lost' = [lost EXCEPT ![e] = LossWhen(phase[r])]
          /\ UNCHANGED <<queue, waiting, counted>>
       \/ /\ TenantOf[e] # NoTenant
          /\ ~Closed(r)
          /\ Room(r)
          /\ queue' = [queue EXCEPT ![r] = Append(@, e)]
          /\ Returns(e)
          /\ UNCHANGED <<waiting, counted, lost>>
       \/ /\ TenantOf[e] # NoTenant
          /\ ~Closed(r)
          /\ ~Room(r)
          /\ e \in Sampled
          /\ counted' = counted \cup {e}
          /\ Returns(e)
          /\ UNCHANGED <<queue, waiting, lost>>
       \/ /\ TenantOf[e] # NoTenant
          /\ ~Closed(r)
          /\ ~Room(r)
          /\ e \notin Sampled
          /\ waiting' = [waiting EXCEPT ![r] = Append(@, e)]
          /\ emit' = [emit EXCEPT ![e] = "waiting"]
          /\ UNCHANGED <<queue, counted, lost>>
    /\ UNCHANGED <<cancelled, worker, anchorjob, phase, rows, now, stops>>

EmitKills(e) ==
    LET r == Home[e] IN
    /\ emit[e] = "running"
    /\ TenantOf[e] # NoTenant
    /\ Closed(r)
    /\ e \in Detached
    /\ Stop(r, KillWhen(phase[r]))
    /\ UNCHANGED stops

(* A bug: the event of a caller that went away is forgotten.               *)
ContextDoneForgets(e) ==
    LET r == Home[e] IN
    /\ emit[e] = "waiting"
    /\ e \notin cancelled
    /\ cancelled' = cancelled \cup {e}
    /\ waiting' = [waiting EXCEPT ![r] = SelectSeq(@, LAMBDA d : d # e)]
    /\ Returns(e)
    /\ UNCHANGED <<queue, worker, anchorjob, phase, rows,
                   counted, lost, now, stops>>

(* e leaves its place among those that wait and comes last.                *)
Behind(s, e) ==
    LET i == CHOOSE k \in 1 .. Len(s) : s[k] = e
    IN  [k \in 1 .. Len(s) |-> IF k < i THEN s[k] ELSE IF k < Len(s) THEN s[k + 1] ELSE e]

(* The caller of a blocked Emit goes away: the select's other case is      *)
(* taken and the event is sent again, behind the others that wait.         *)
ContextDone(e) ==
    LET r == Home[e] IN
    /\ emit[e] = "waiting"
    /\ e \notin cancelled
    /\ cancelled' = cancelled \cup {e}
    /\ waiting' = [waiting EXCEPT ![r] = Behind(@, e)]
    /\ UNCHANGED <<emit, queue, worker, anchorjob, phase, rows,
                   counted, lost, now, stops>>

-----------------------------------------------------------------------------
(* The appender.                                                           *)

(* A bug: a sender that waits hands its event over past the buffer.        *)
ReceiveOvertaking(r) ==
    /\ pc[r] = "receive"
    /\ phase[r] # "stopped"
    /\ queue[r] # <<>>
    /\ pc' = [pc EXCEPT ![r] = "begin"]
    /\ IF waiting[r] = <<>>
       THEN /\ cur' = [cur EXCEPT ![r] = Head(queue[r])]
            /\ queue' = [queue EXCEPT ![r] = Tail(@)]
            /\ UNCHANGED <<waiting, emit>>
       ELSE /\ cur' = [cur EXCEPT ![r] = Head(waiting[r])]
            /\ waiting' = [waiting EXCEPT ![r] = Tail(@)]
            /\ Returns(Head(waiting[r]))
            /\ UNCHANGED queue
    /\ UNCHANGED <<cancelled, began, tip, lock, anchorjob, phase, rows,
                   counted, lost, now, stops>>

(* run receives: the head of the buffer comes out, and the sender that     *)
(* waited longest puts its event at the end.                               *)
Receive(r) ==
    /\ pc[r] = "receive"
    /\ phase[r] # "stopped"
    /\ queue[r] # <<>>
    /\ cur' = [cur EXCEPT ![r] = Head(queue[r])]
    /\ pc' = [pc EXCEPT ![r] = "begin"]
    /\ IF waiting[r] = <<>>
       THEN /\ queue' = [queue EXCEPT ![r] = Tail(@)]
            /\ UNCHANGED <<waiting, emit>>
       ELSE /\ queue' = [queue EXCEPT ![r] = Append(Tail(@), Head(waiting[r]))]
            /\ waiting' = [waiting EXCEPT ![r] = Tail(@)]
            /\ Returns(Head(waiting[r]))
    /\ UNCHANGED <<cancelled, began, tip, lock, anchorjob, phase, rows,
                   counted, lost, now, stops>>

(* WithinTx takes a connection and begins.                                 *)
Begin(r) ==
    /\ pc[r] = "begin"
    /\ Free(r) > 0
    /\ began' = [began EXCEPT ![r] = now]
    /\ pc' = [pc EXCEPT ![r] = "lock"]
    /\ UNCHANGED <<emitters, cur, tip, lock, anchorjob, phase, rows, counted,
                   lost, now, stops>>

(* A bug: the lock is released with its own statement, not with the        *)
(* transaction (pg_advisory_lock on a pooled connection, unlocked at once).*)
LockAuditChainBriefly(r) ==
    LET t == TenantOf[cur[r]] IN
    /\ pc[r] = "lock"
    /\ lock[t] = NoReplica
    /\ pc' = [pc EXCEPT ![r] = "read"]
    /\ UNCHANGED <<emitters, cur, began, tip, lock, anchorjob, phase, rows,
                   counted, lost, now, stops>>

LockAuditChain(r) ==
    LET t == TenantOf[cur[r]] IN
    /\ pc[r] = "lock"
    /\ lock[t] = NoReplica
    /\ lock' = [lock EXCEPT ![t] = r]
    /\ pc' = [pc EXCEPT ![r] = "read"]
    /\ UNCHANGED <<emitters, cur, began, tip, anchorjob, phase, rows, counted,
                   lost, now, stops>>

(* The tip is read by a statement of its own, which at READ COMMITTED sees *)
(* what the previous holder of the lock committed.                         *)
ReadTip(r) ==
    /\ pc[r] = "read"
    /\ tip' = [tip EXCEPT ![r] = LastAuditEntry(TenantOf[cur[r]])]
    /\ pc' = [pc EXCEPT ![r] = "insert"]
    /\ UNCHANGED <<emitters, cur, began, lock, anchorjob, phase, rows, counted,
                   lost, now, stops>>

(* A bug: an append whose commit was not answered is tried again.          *)
InsertAuditRetried(r) ==
    LET t == TenantOf[cur[r]] IN
    /\ pc[r] = "insert"
    /\ rows' = [rows EXCEPT ![t] = @ \cup {NextRow(r)}]
    /\ \/ Ends(r)
       \/ /\ Faults
          /\ lock' = [lock EXCEPT ![t] = NoReplica]
          /\ pc' = [pc EXCEPT ![r] = "begin"]
          /\ UNCHANGED <<cur, began, tip>>
    /\ UNCHANGED <<emitters, anchorjob, phase, counted, lost, now, stops>>

(* InsertAudit and the commit that shows the row to others. The answer to  *)
(* the commit may be lost: then the row is there and run counts a drop.    *)
InsertAudit(r) ==
    LET t == TenantOf[cur[r]] IN
    /\ pc[r] = "insert"
    /\ rows' = [rows EXCEPT ![t] = @ \cup {NextRow(r)}]
    /\ \/ UNCHANGED counted
       \/ Faults /\ counted' = counted \cup {cur[r]}
    /\ Ends(r)
    /\ UNCHANGED <<emitters, anchorjob, phase, lost, now, stops>>

(* run's answer to an error of append, the transaction rolled back: the    *)
(* event is counted, and never tried again.                                *)
CountDropped(r) ==
    /\ counted' = counted \cup {cur[r]}
    /\ Ends(r)
    /\ UNCHANGED <<emitters, anchorjob, phase, rows, lost, now, stops>>

AppendFails(r) ==
    /\ Faults
    /\ pc[r] \in {"begin", "lock", "read", "insert"}
    /\ CountDropped(r)

(* What an append waits for: a connection, or the lock of another replica. *)
Blocked(r) ==
    \/ pc[r] = "begin" /\ Free(r) = 0
    \/ pc[r] = "lock" /\ lock[TenantOf[cur[r]]] # NoReplica

(* A bug: append has no timeout.                                           *)
AppendWaits(r) == FALSE

(* append's five seconds are over while it waits.                          *)
AppendTimesOut(r) == Blocked(r) /\ CountDropped(r)

-----------------------------------------------------------------------------
(* The process.                                                            *)

(* A signal: the server stops accepting, the contexts of jobs are done.    *)
Shutdown(r) ==
    /\ phase[r] = "up"
    /\ stops < MaxStops
    /\ stops' = stops + 1
    /\ phase' = [phase EXCEPT ![r] = "draining"]
    /\ UNCHANGED <<emitters, worker, anchorjob, rows, counted, lost, now>>

(* The queue is closed; a sender blocked on the channel panics.            *)
Close(r, ph) ==
    /\ phase[r] = "draining"
    /\ IF \E e \in Detached \cap On(r) : emit[e] = "waiting"
       THEN Stop(r, KillWhen(ph))
       ELSE /\ phase' = [phase EXCEPT ![r] = ph]
            /\ emit' = [e \in Events |-> IF e \in On(r) /\ emit[e] = "waiting"
                                         THEN "panicked" ELSE emit[e]]
            /\ lost' = [e \in Events |-> IF e \in On(r) /\ emit[e] = "waiting"
                                         THEN LossWhen(ph) ELSE lost[e]]
            /\ waiting' = [waiting EXCEPT ![r] = <<>>]
            /\ UNCHANGED <<queue, cancelled, worker, anchorjob, rows, counted, now>>
    /\ UNCHANGED stops

(* A bug: the server is closed without waiting for anybody.                *)
DrainedUnawaited(r) == TRUE

(* The server waits for the requests in flight, not for jobs.              *)
Drained(r) == InFlight(r) \subseteq Jobs \cup Detached

DrainedClose(r) == Drained(r) /\ Close(r, "closed")

(* The grace is over and requests are still in flight.                     *)
ForcedClose(r) == ~Drained(r) /\ Close(r, "cut")

(* Close waits for run to drain the queue; then serve returns and the      *)
(* process ends, whatever is still running in it.                          *)
Exit(r) ==
    /\ Closed(r)
    /\ pc[r] = "receive"
    /\ queue[r] = <<>>
    /\ Stop(r, LossWhen(phase[r]))
    /\ UNCHANGED stops

Crash(r) ==
    /\ phase[r] # "stopped"
    /\ stops < MaxStops
    /\ Stop(r, "crash")
    /\ stops' = stops + 1

Restart(r) ==
    /\ phase[r] = "stopped"
    /\ phase' = [phase EXCEPT ![r] = "up"]
    /\ UNCHANGED <<emitters, worker, anchorjob, rows, counted, lost, now, stops>>

-----------------------------------------------------------------------------
(* The anchor job and the verifier.                                        *)

(* AnchorChain reads the tip in a statement of its own and signs it; an    *)
(* empty chain has nothing to sign.                                        *)
AnchorRead(t) ==
    /\ anchoring.tenant = NoTenant
    /\ LastAuditEntry(t).seq # 0
    /\ signings < MaxAnchors
    /\ signings' = signings + 1
    /\ anchoring' = [tenant |-> t, seq |-> LastAuditEntry(t).seq,
                     hash |-> LastAuditEntry(t).hash]
    /\ UNCHANGED <<emitters, worker, anchors, phase, rows, counted, lost,
                   now, stops>>

(* ON CONFLICT (tenant_id, seq) DO NOTHING.                                *)
WithAnchor(as, a) ==
    IF \E x \in as : x.seq = a.seq THEN as ELSE as \cup {a}

AnchorInsert ==
    LET t == anchoring.tenant IN
    /\ t # NoTenant
    /\ anchors' = [anchors EXCEPT ![t] =
         WithAnchor(@, [seq |-> anchoring.seq, hash |-> anchoring.hash])]
    /\ anchoring' = [tenant |-> NoTenant, seq |-> 0, hash |-> Nil]
    /\ UNCHANGED <<emitters, worker, signings, phase, rows, counted, lost, now, stops>>

(* VerifyAnchors: the anchored rows that no longer carry what was signed.  *)
BrokenAnchors(t) ==
    {a \in anchors[t] : \A x \in rows[t] : x.seq = a.seq => x.hash # a.hash}

(* AuditChainRange: the rows of a window, to be taken in seq order.        *)
ChainRange(t, w) == {x \in rows[t] : w.from <= x.at /\ x.at < w.to}

(* VerifyChain: the first row's prev is trusted, every other row must hash *)
(* from the row walked before it; the seqs of the rows that do not. Rows   *)
(* of one seq are walked next to each other, in an order the query leaves  *)
(* open.                                                                   *)
BrokenLinks(t, w) ==
    LET range == ChainRange(t, w)
        Before(x) == {y \in range \ {x} : y.seq <= x.seq}
        Prevs(x) == IF Before(x) = {} THEN {x.prev}
                    ELSE {y.hash : y \in {z \in Before(x) : \A q \in Before(x) : q.seq <= z.seq}}
    IN  {x.seq : x \in {y \in range :
                          \E prev \in Prevs(y) : y.hash # ChainHash(prev, y.seq, y.ev, IdsRead(y.ev))}}

Tick ==
    /\ now < MaxTime
    /\ now' = now + 1
    /\ UNCHANGED <<emitters, worker, anchorjob, phase, rows, counted, lost, stops>>

-----------------------------------------------------------------------------
AppendStep(r) == Receive(r) \/ Begin(r) \/ LockAuditChain(r) \/ ReadTip(r)
              \/ InsertAudit(r) \/ AppendTimesOut(r)

Next ==
    \/ \E e \in Events : Start(e) \/ Emit(e) \/ EmitKills(e) \/ ContextDone(e)
    \/ \E r \in Replicas :
          \/ Receive(r) \/ Begin(r) \/ LockAuditChain(r) \/ ReadTip(r) \/ InsertAudit(r)
          \/ AppendTimesOut(r) \/ AppendFails(r)
          \/ Shutdown(r) \/ DrainedClose(r) \/ ForcedClose(r) \/ Exit(r)
          \/ Crash(r) \/ Restart(r)
    \/ \E t \in Tenants : AnchorRead(t)
    \/ AnchorInsert \/ Tick

Spec == Init /\ [][Next]_vars

(* The appender runs until its process stops, and append cannot wait for   *)
(* longer than its timeout.                                                *)
Fairness == \A r \in Replicas : WF_vars(AppendStep(r)) /\ WF_vars(Exit(r))
FairSpec == Spec /\ Fairness

-----------------------------------------------------------------------------
(* Properties.                                                             *)

Hash == Seq(Nat \X Events \X Texts)
Row == [seq : Nat \ {0}, ev : Events, prev : Hash, hash : Hash, at : Nat]
Link == [seq : Nat, hash : Hash]

(* TypeOK: the shape of every variable.                                    *)
TypeOK ==
    /\ emit \in [Events -> {"absent", "idle", "running", "waiting", "returned", "panicked"}]
    /\ \A r \in Replicas : queue[r] \in Seq(Events) /\ Len(queue[r]) <= QueueSize
    /\ \A r \in Replicas : waiting[r] \in Seq(Events)
    /\ cancelled \subseteq Events
    /\ phase \in [Replicas -> {"up", "draining", "closed", "cut", "stopped"}]
    /\ pc \in [Replicas -> {"receive", "begin", "lock", "read", "insert"}]
    /\ cur \in [Replicas -> Events \cup {NoEvent}]
    /\ began \in [Replicas -> Nat]
    /\ \A r \in Replicas : tip[r] \in Link /\ (pc[r] = "receive" <=> cur[r] = NoEvent)
    /\ lock \in [Tenants -> Replicas \cup {NoReplica}]
    /\ \A t \in Tenants : \A x \in rows[t] : x \in Row
    /\ anchoring.tenant \in Tenants \cup {NoTenant}
    /\ \A t \in Tenants : \A a \in anchors[t] : a \in Link
    /\ counted \subseteq Events
    /\ lost \in [Events -> {"no", "crash", "forced", "late", "panic"}]
    /\ now \in 0..MaxTime /\ stops \in 0..MaxStops

Stored(e) == \E t \in Tenants : \E x \in rows[t] : x.ev = e
OnItsWay(e) ==
    \/ emit[e] = "waiting"
    \/ \E r \in Replicas : cur[r] = e \/ \E i \in 1..Len(queue[r]) : queue[r][i] = e

Whole == [from |-> 0, to |-> MaxTime + 1]

(* BreaksOnlyAtRawIds: over the whole of a chain nobody touched, however   *)
(* the replicas' appends interleaved, VerifyChain finds every link whole   *)
(* but those of events whose ids did not survive the uuid columns as they  *)
(* were hashed (chainHashDetail, ParseUUID, records), and VerifyAnchors    *)
(* finds every anchor whole: what the anchor job signed, from a read       *)
(* outside any transaction, is what the chain still says at that seq.      *)
BreaksOnlyAtRawIds ==
    \A t \in Tenants :
        /\ BrokenLinks(t, Whole) = {x.seq : x \in {y \in rows[t] : y.ev \in RawIds}}
        /\ BrokenAnchors(t) = {}

(* NothingSilentlyLost: an event whose operation was done is about to be   *)
(* emitted, on its way, in the chain, counted, or was on a process that    *)
(* stopped; a caller that goes away, a full queue, a failing or timed-out  *)
(* append lose none without a count.                                       *)
NothingSilentlyLost ==
    \A e \in Events :
        \/ emit[e] \in {"absent", "idle", "running"} \/ OnItsWay(e)
        \/ Stored(e) \/ e \in counted \/ lost[e] # "no"

(* DrainKeepsRequests: in a shutdown that does not run out of its grace no *)
(* request meets the closed queue.                                         *)
DrainKeepsRequests == \A e \in Events \ (Jobs \cup Detached) : lost[e] # "late"

(* OrderKept: an operation that began after another's Emit returned comes  *)
(* after it in the chain, whoever was blocked and cancelled meanwhile.     *)
OrderKept ==
    \A t \in Tenants : \A x, y \in rows[t] :
        x.ev \in After[y.ev] => x.seq < y.seq

(* Settles: an event that blocks its emitter or stands in the queue is     *)
(* stored, counted or lost with its process in the end, also when the      *)
(* emitters hold every connection the appender needs.                      *)
Settled(e) == Stored(e) \/ e \in counted \/ lost[e] # "no"
Settles == \A e \in Events : OnItsWay(e) ~> Settled(e)

(* CloseReturns: a closed queue is drained and the process ends.           *)
CloseReturns == \A r \in Replicas : Closed(r) ~> phase[r] = "stopped"

(* The chain of hashes implements the abstract log.                        *)
LogOf(t) == [i \in 1..Cardinality(rows[t]) |-> (CHOOSE x \in rows[t] : x.seq = i).ev]
Said(h) == [i \in 1..Len(h) |-> h[i][2]]

Abstract == INSTANCE AuditLog WITH
    log <- [t \in Tenants |-> LogOf(t)],
    dropped <- counted,
    signed <- [t \in Tenants |-> {Said(a.hash) : a \in anchors[t]}]

(* ImplementsLog: the replicas together behave as one append-only log per  *)
(* tenant, with every signature a prefix of it.                            *)
ImplementsLog == Abstract!Spec

-----------------------------------------------------------------------------
(* What comments in the code claim and these steps refute: either as an    *)
(* INVARIANT of Audit.cfg gives the counterexample.                        *)

(* DrainLosesNothing: serve's "an audit event dropped during drain is a    *)
(* security record lost": nor is what requests emitted lost later on.      *)
DrainLosesNothing ==
    \A e \in Events \ (Jobs \cup Detached) : lost[e] \notin {"late", "panic"}

(* UntouchedChainVerifies: "chainHash is the canonical hash every verifier *)
(* must reproduce": a chain nobody touched has no broken link.             *)
UntouchedChainVerifies == \A t \in Tenants : BrokenLinks(t, Whole) = {}

=============================================================================
