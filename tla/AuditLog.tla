------------------------------ MODULE AuditLog ------------------------------
(***************************************************************************)
(* What the audit log promises, whoever writes it: per tenant, one growing *)
(* sequence of events, no event twice; an event the log will not hold is   *)
(* counted; and a signature, once given, speaks of a prefix of the log.    *)
(* AuditChain, several replicas extending one hash chain in Postgres, is   *)
(* shown to implement it.                                                  *)
(***************************************************************************)
EXTENDS Naturals, Sequences

CONSTANTS Tenants, Events, TenantOf

VARIABLES
    log,        \* tenant -> the events recorded, in order
    dropped,    \* the events counted as dropped
    signed      \* tenant -> the prefixes of the log that were signed

avars == <<log, dropped, signed>>

Recorded(t) == {log[t][i] : i \in 1..Len(log[t])}

Init ==
    /\ log = [t \in Tenants |-> <<>>]
    /\ dropped = {}
    /\ signed = [t \in Tenants |-> {}]

(* An event is recorded behind everything recorded so far. The writer may  *)
(* be left unsure that it was, and then counts it as well.                 *)
Record(e) ==
    /\ TenantOf[e] \in Tenants
    /\ e \notin Recorded(TenantOf[e])
    /\ log' = [log EXCEPT ![TenantOf[e]] = Append(@, e)]
    /\ dropped' \in {dropped, dropped \cup {e}}
    /\ UNCHANGED signed

Drop(e) ==
    /\ dropped' = dropped \cup {e}
    /\ UNCHANGED <<log, signed>>

Sign(t) ==
    /\ \E n \in 1..Len(log[t]) :
          signed' = [signed EXCEPT ![t] = @ \cup {SubSeq(log[t], 1, n)}]
    /\ UNCHANGED <<log, dropped>>

Next == (\E e \in Events : Record(e) \/ Drop(e)) \/ (\E t \in Tenants : Sign(t))

Spec == Init /\ [][Next]_avars

=============================================================================
