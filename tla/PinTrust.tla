------------------------------ MODULE PinTrust ------------------------------
(***************************************************************************)
(* What the rotation of a host key promises, whatever its steps are: an    *)
(* operator trusts a set of keys at each host; a host begins to serve only *)
(* a key that is trusted already; and the other keys are forgotten only    *)
(* once the host serves a key of its own, never the seeded one.            *)
(***************************************************************************)
EXTENDS Naturals

CONSTANTS Hosts, Keys

VARIABLES trusted,  \* the keys that pass for each host
          served    \* the key each host's sshd shows

vars == <<trusted, served>>

NoKey == 0  \* sshd has no key to show: nobody can log in
Seed  == 1  \* the key the server booted with (cloud-init)

Init ==
  /\ trusted = [h \in Hosts |-> {Seed}]
  /\ served = [h \in Hosts |-> Seed]

(* A key made on the host passes beside the others before it is served.    *)
Trust(h) ==
  /\ \E k \in Keys \ {Seed, NoKey} : trusted' = [trusted EXCEPT ![h] = @ \cup {k}]
  /\ UNCHANGED served

(* sshd changes its key to one that passes, or loses its key.              *)
Switch(h) ==
  /\ \E k \in trusted[h] \cup {NoKey} : served' = [served EXCEPT ![h] = k]
  /\ UNCHANGED trusted

(* Only the key the host proved it holds still passes.                     *)
Settle(h) ==
  /\ served[h] \notin {Seed, NoKey}
  /\ trusted' = [trusted EXCEPT ![h] = {served[h]}]
  /\ UNCHANGED served

Next == \E h \in Hosts : Trust(h) \/ Switch(h) \/ Settle(h)

Spec == Init /\ [][Next]_vars
=============================================================================
