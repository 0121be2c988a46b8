---------------------------- MODULE MCAuditChain ----------------------------
(* A small instance of AuditChain for TLC. *)
EXTENDS AuditChain

CONSTANTS t1, r1, r2, login, suspend, erase, sweep, authz, stray, mail

(* Somebody signs in, and then erases an identity inside a transaction;    *)
(* on the other replica somebody suspends a tenant, its id written in      *)
(* capitals, and a reset link is mailed; a job sweeps; an authorize event  *)
(* is sampled; a stray event has no tenant.                                *)
HomeOf == [e \in Events |-> IF e \in {suspend, mail} THEN r2 ELSE r1]
TenantFor == [e \in Events |-> IF e = stray THEN NoTenant ELSE t1]
AfterOf == [e \in Events |-> IF e = erase THEN {login} ELSE {}]

(* Two replicas append to one chain that is anchored; one is short of      *)
(* connections and its queue is full; time passes and a tenant is not      *)
(* known.                                                                  *)
ThreeScenes == {[events |-> {login, suspend, mail}, now |-> MaxTime, signings |-> 0],
                [events |-> {login, erase, sweep, authz}, now |-> MaxTime, signings |-> MaxAnchors],
                [events |-> {login, stray}, now |-> 0, signings |-> MaxAnchors]}

=============================================================================
