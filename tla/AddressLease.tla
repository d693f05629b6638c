---------------------------- MODULE AddressLease ----------------------------
(***************************************************************************)
(* What the Workers' commands promise about addresses, whatever their      *)
(* steps are: an address is leased to one Worker; only the machine of that *)
(* Worker, at that address, is let on it; and neither the lease nor the    *)
(* machine goes before its last use of the address is gone.  So no machine *)
(* ever answers at an address where another one is still expected.         *)
(***************************************************************************)
CONSTANTS Names, Addrs, Keys

VARIABLES leases,    \* who has which address: [name, addr]
          machines,  \* the Workers' machines: [name, addr, key]
          uses       \* what expects a machine's key at an address: [addr, key]

vars == <<leases, machines, uses>>

Lease   == [name : Names, addr : Addrs]
Machine == [name : Names, addr : Addrs, key : Keys]

UsesAt(a) == {u \in uses : u.addr = a}
UsesOf(k) == {u \in uses : u.key = k}
Apart(x, y) == x.name # y.name /\ x.addr # y.addr

Init ==
  /\ \A d, e \in leases : d = e \/ Apart(d, e)
  /\ \A m, n \in machines : m = n \/ (Apart(m, n) /\ m.key # n.key)
  /\ \A u \in uses : \E m \in machines, e \in leases :
       m.addr = u.addr /\ m.key = u.key /\ e.addr = u.addr /\ e.name = m.name

Grant(e) ==
  /\ \A d \in leases : Apart(d, e)
  /\ UsesAt(e.addr) = {}
  /\ leases' = leases \cup {e}
  /\ UNCHANGED <<machines, uses>>

Release(E) ==
  /\ \A e \in E : UsesAt(e.addr) = {}
  /\ leases' = leases \ E
  /\ UNCHANGED <<machines, uses>>

(* The machines in gone make room for a new one of the leaseholder.        *)
Provide(m, gone) ==
  /\ \E e \in leases : e.name = m.name /\ e.addr = m.addr
  /\ \A o \in machines \ gone : Apart(o, m)
  /\ \A o \in machines : o.key # m.key
  /\ UsesOf(m.key) = {}
  /\ \A o \in gone : UsesOf(o.key) = {}
  /\ machines' = (machines \ gone) \cup {m}
  /\ UNCHANGED <<leases, uses>>

Destroy(gone) ==
  /\ \A o \in gone : UsesOf(o.key) = {}
  /\ machines' = machines \ gone
  /\ UNCHANGED <<leases, uses>>

(* The leaseholder's machine is let on its address, where nothing expects  *)
(* another.                                                                *)
Admit(m) ==
  /\ \E e \in leases : e.name = m.name /\ e.addr = m.addr
  /\ \A u \in UsesAt(m.addr) : u.key = m.key
  /\ uses' = uses \cup {[addr |-> m.addr, key |-> m.key]}
  /\ UNCHANGED <<leases, machines>>

Drop ==
  /\ uses' \subseteq uses
  /\ UNCHANGED <<leases, machines>>

Next ==
  \/ \E e \in Lease : Grant(e)
  \/ \E E \in SUBSET leases : Release(E)
  \/ \E gone \in SUBSET machines :
       Destroy(gone) \/ \E m \in Machine : Provide(m, gone)
  \/ \E m \in machines : Admit(m)
  \/ Drop

Spec == Init /\ [][Next]_vars
=============================================================================
