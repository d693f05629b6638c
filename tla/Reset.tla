-------------------------------- MODULE Reset --------------------------------
(***************************************************************************)
(* `kluster reset --apply`: node replace of each Worker the set declares,  *)
(* in name order, beside the databases whose instances run on them.        *)
(* Before a Worker leaves, every CloudNativePG Cluster has all its         *)
(* instances ready (the database gate); between two Workers the reset      *)
(* waits for that.  A reset that stops says which Workers it replaced and  *)
(* which it did not touch; the operator goes on with node replace, node    *)
(* add, or another reset.                                                  *)
(*                                                                         *)
(* The Workers are 1..N, in name order.  The set declares them all, is     *)
(* committed and does not change: WorkerLifecycle has the set, the hub and *)
(* the pins at VPN addresses, which a replacement treats as node remove    *)
(* and node add do.  The numbers and states of the instances are what the  *)
(* API server says at the time.  One run is under way at a time.           *)
(***************************************************************************)
EXTENDS Naturals, FiniteSets

CONSTANTS N,           \* the declared Workers are 1..N
          Instances,   \* the instances of the databases
          DatabaseOf,  \* the database of each
          IPs,         \* the public addresses Hetzner gives
          MaxKeys,     \* bound: servers ever created
          MaxStops,    \* bound: runs interrupted, creations failed
          MaxFaults,   \* bound: instances that fail on their own
          MaxRestarts  \* bound: kubelet restarts that bring a Node back

ASSUME ResetAssumption ==
  /\ N \in Nat \ {0}
  /\ MaxKeys \in Nat /\ MaxStops \in Nat /\ MaxFaults \in Nat /\ MaxRestarts \in Nat
  /\ \E d \in [Instances -> {DatabaseOf[i] : i \in Instances}] : d = DatabaseOf

VARIABLES
  servers,   \* the Workers' servers: [name, key, ip, joined]
  nodes,     \* the cluster's Nodes: [name, key, cordoned]
  pins,      \* the pins at public addresses: [ip, key]
  made,      \* servers created so far
  place,     \* the Worker each instance is on; 0 is none
  ready,     \* the instances that are ready
  pc,        \* the step the run is at
  cmd,       \* its command
  at,        \* the Worker it works on
  last,      \* the last one it is for
  seen,      \* the servers it read at its start
  exposed,   \* history: the instances on that Worker at the gate, and those that failed since
  report,    \* the Workers the last reset says are replaced, and not touched
  stops, faults, restarts  \* counters of the bounds

cloudVars    == <<servers, pins, made>>
databaseVars == <<place, ready>>
runVars      == <<cmd, at, last, seen, exposed, report>>
bounds       == <<stops, faults, restarts>>
vars == <<cloudVars, nodes, databaseVars, pc, runVars, bounds>>

Workers == 1..N
Server  == [name : Workers, key : Nat, ip : IPs, joined : BOOLEAN]
Node    == [name : Workers, key : Nat, cordoned : BOOLEAN]
Pin     == [ip : IPs, key : Nat]

Steps == {"idle", "wait", "plan", "database", "nodes", "cordon", "drain", "deleteNode",
          "unpin", "replace", "checkNode", "create", "pin", "join", "ready"}

Named(S, w) == {x \in S : x.name = w}
On(w) == {i \in Instances : place[i] = w}

(* A Node is Ready while a server of its name that joined posts its state, *)
(* also one that found the Node of another there; pods are put on it while *)
(* it is not cordoned.  (A kubelet that stops is in WorkerLifecycle; here  *)
(* the instances it takes with it fail.)                                   *)
Ready(nd) == \E s \in servers : s.name = nd.name /\ s.joined
Runs(w)   == \E nd \in Named(nodes, w) : Ready(nd)
Open(w)   == \E nd \in Named(nodes, w) : Ready(nd) /\ ~nd.cordoned

(* Mutant: a Cluster with one instance down passes.                        *)
HealthyEnough(d) == \A i, j \in Instances : i # j /\ DatabaseOf[i] = d /\ DatabaseOf[j] = d => i \in ready \/ j \in ready

(* Every instance the Cluster asks for is ready.                           *)
Healthy(d) == \A i \in Instances : DatabaseOf[i] = d => i \in ready

(* The database gate: every Cluster is.                                    *)
AllHealthy == \A i \in Instances : Healthy(DatabaseOf[i])

-----------------------------------------------------------------------------
(* The Workers are built; kluster pinned those it built.                   *)
Init ==
  /\ \E i \in [Workers -> IPs] :
       /\ \A v, w \in Workers : v # w => i[v] # i[w]
       /\ servers = {[name |-> w, key |-> w, ip |-> i[w], joined |-> TRUE] : w \in Workers}
       /\ \E P \in SUBSET Workers : pins = {[ip |-> i[w], key |-> w] : w \in P}
  /\ nodes = {[name |-> w, key |-> w, cordoned |-> FALSE] : w \in Workers}
  /\ made = N
  /\ place \in [Instances -> Workers]
  /\ ready \in SUBSET Instances
  /\ pc = "idle"
  /\ cmd = "replace"
  /\ at = 1
  /\ last = 1
  /\ seen = {}
  /\ exposed = {}
  /\ report = [done |-> {}, left |-> {}]
  /\ stops = 0 /\ faults = 0 /\ restarts = 0

-----------------------------------------------------------------------------
(* The shape of a run.                                                     *)
Go(step) == pc' = step /\ UNCHANGED runVars

Begin(c, first, until, step) ==
  /\ pc = "idle"
  /\ pc' = step
  /\ cmd' = c
  /\ at' = first
  /\ last' = until
  /\ seen' = servers
  /\ UNCHANGED <<cloudVars, nodes, databaseVars, exposed, report, bounds>>

End ==
  /\ pc' = "idle"
  /\ cmd' = "replace"
  /\ at' = 1
  /\ last' = 1
  /\ seen' = {}
  /\ exposed' = {}

(* Mutant: the Worker that failed counts as replaced.                      *)
StoppedReportIncluding == [done |-> 1..at, left |-> (at + 1)..N]

(* resetStopped: the Workers before this one, and those after it.          *)
StoppedReport == [done |-> 1..(at - 1), left |-> (at + 1)..N]

EndEarly == End /\ report' = IF cmd = "reset" THEN StoppedReport ELSE report

(* reset reads every Worker's server; one that has none ends it.           *)
StartReset ==
  /\ \A w \in Workers : Named(servers, w) # {}
  /\ Begin("reset", 1, N, "plan")

NodeReplace(w) ==
  /\ Named(servers, w) # {}
  /\ Begin("replace", w, w, "plan")

(* node add creates the server of a Worker that has none, or resumes the   *)
(* build of one kluster pinned.                                            *)
NodeAdd(w) ==
  \/ Named(servers, w) = {} /\ Begin("add", w, w, "checkNode")
  \/ /\ \E s \in Named(servers, w) : \E x \in pins : x.ip = s.ip
     /\ Begin("add", w, w, "join")

-----------------------------------------------------------------------------
(* One Worker: the wait, the plan and the gates.                           *)

(* Between two Workers, until the gate passes or the time is over.         *)
WaitDatabases ==
  /\ pc = "wait"
  /\ AllHealthy
  /\ Go("plan")
  /\ UNCHANGED <<cloudVars, nodes, databaseVars, bounds>>

(* The plan replaces this server and creates no other: each Worker has one.*)
ReplacesOnly == \A w \in Workers : Named(servers, w) # {}

PlanReplace ==
  /\ pc = "plan"
  /\ ReplacesOnly
  /\ Go("database")
  /\ UNCHANGED <<cloudVars, nodes, databaseVars, bounds>>

DatabaseGate ==
  /\ pc = "database"
  /\ AllHealthy
  /\ pc' = "nodes"
  /\ exposed' = On(at)
  /\ UNCHANGED <<cloudVars, nodes, databaseVars, cmd, at, last, seen, report, bounds>>

(* The only Ready Worker does not leave.                                   *)
MayLeave(w) == ~Runs(w) \/ \E v \in Workers \ {w} : Runs(v)

LastReadyWorker ==
  /\ pc = "nodes"
  /\ MayLeave(at)
  /\ Go("cordon")
  /\ UNCHANGED <<cloudVars, nodes, databaseVars, bounds>>

-----------------------------------------------------------------------------
(* The Worker leaves.                                                      *)

(* kubectl drain cordons the Node, then evicts; with no Node it is done.   *)
Cordon ==
  /\ pc = "cordon"
  /\ nodes' = {IF nd.name = at THEN [nd EXCEPT !.cordoned = TRUE] ELSE nd : nd \in nodes}
  /\ Go(IF Named(nodes, at) = {} THEN "deleteNode" ELSE "drain")
  /\ UNCHANGED <<cloudVars, databaseVars, bounds>>

(* An eviction respects the PodDisruptionBudget: the only ready instance   *)
(* of a database stays.                                                    *)
Evict(i) ==
  /\ pc = "drain"
  /\ place[i] = at
  /\ i \in ready => \E j \in ready \ {i} : DatabaseOf[j] = DatabaseOf[i]
  /\ place' = [place EXCEPT ![i] = 0]
  /\ ready' = ready \ {i}
  /\ UNCHANGED <<cloudVars, nodes, pc, runVars, bounds>>

(* Mutant: a cordoned Node is drained.                                     *)
DrainedIfCordoned ==
  /\ pc = "drain"
  /\ \A nd \in Named(nodes, at) : nd.cordoned
  /\ Go("deleteNode")
  /\ UNCHANGED <<cloudVars, nodes, databaseVars, bounds>>

(* The Probe after the drain: no Node, or cordoned and nothing left on it. *)
Drained ==
  /\ pc = "drain"
  /\ Named(nodes, at) # {} => On(at) = {} /\ \A nd \in Named(nodes, at) : nd.cordoned
  /\ Go("deleteNode")
  /\ UNCHANGED <<cloudVars, nodes, databaseVars, bounds>>

DeleteNode ==
  /\ pc = "deleteNode"
  /\ \A nd \in Named(nodes, at) : nd.cordoned
  /\ nodes' = nodes \ Named(nodes, at)
  /\ Go("unpin")
  /\ UNCHANGED <<cloudVars, databaseVars, bounds>>

(* Mutant: the public pin stays until the new key is pinned.               *)
KeepPin ==
  /\ pc = "unpin"
  /\ Go("replace")
  /\ UNCHANGED <<cloudVars, nodes, databaseVars, bounds>>

(* dropPins, at the address the run read at its start.                     *)
Unpin ==
  /\ pc = "unpin"
  /\ pins' = {x \in pins : \A s \in Named(seen, at) : x.ip # s.ip}
  /\ Go("replace")
  /\ UNCHANGED <<servers, made, nodes, databaseVars, bounds>>

-----------------------------------------------------------------------------
(* The new server.                                                         *)

NewServer(others) ==
  \E ip \in IPs \ {s.ip : s \in others} :
    /\ servers' = others \cup {[name |-> at, key |-> made + 1, ip |-> ip, joined |-> FALSE]}
    /\ made' = made + 1

(* What runs on a server goes with it.                                     *)
Destroyed(w) == ready' = ready \ On(w) /\ UNCHANGED place

(* Terraform destroys the server, then creates it again.                   *)
Replace ==
  /\ pc = "replace"
  /\ made < MaxKeys
  /\ NewServer(servers \ Named(servers, at))
  /\ Destroyed(at)
  /\ Go("pin")
  /\ UNCHANGED <<pins, nodes, bounds>>

(* The old server is destroyed, and the new one cannot be created.         *)
ReplaceFails ==
  /\ pc = "replace"
  /\ stops < MaxStops
  /\ stops' = stops + 1
  /\ servers' = servers \ Named(servers, at)
  /\ Destroyed(at)
  /\ EndEarly
  /\ UNCHANGED <<pins, made, nodes, faults, restarts>>

(* node add: no stale Node, and a plan that creates this server alone.     *)
CheckNode ==
  /\ pc = "checkNode"
  /\ Named(nodes, at) = {}
  /\ \A w \in Workers \ {at} : Named(servers, w) # {}
  /\ Go("create")
  /\ UNCHANGED <<cloudVars, nodes, databaseVars, bounds>>

Create ==
  /\ pc = "create"
  /\ made < MaxKeys
  /\ NewServer(servers)
  /\ Go("pin")
  /\ UNCHANGED <<pins, nodes, databaseVars, bounds>>

(* pinCreated: the key it seeded, at the address the outputs give.         *)
PinCreated ==
  /\ pc = "pin"
  /\ \E s \in Named(servers, at) : pins' = {x \in pins : x.ip # s.ip} \cup {[ip |-> s.ip, key |-> s.key]}
  /\ Go("join")
  /\ UNCHANGED <<servers, made, nodes, databaseVars, bounds>>

(* buildWorker up to the join, on a server that shows its pinned key.  A   *)
(* server that joined before keeps what Node it has, and so does a Node of *)
(* the name.                                                               *)
Join ==
  /\ pc = "join"
  /\ \E s \in Named(servers, at) :
       /\ [ip |-> s.ip, key |-> s.key] \in pins
       /\ servers' = (servers \ {s}) \cup {[s EXCEPT !.joined = TRUE]}
       /\ nodes' = IF s.joined \/ Named(nodes, at) # {} THEN nodes
                   ELSE nodes \cup {[name |-> at, key |-> s.key, cordoned |-> FALSE]}
  /\ Go("ready")
  /\ UNCHANGED <<pins, made, databaseVars, bounds>>

(* NodeReady: the Node is the new server's.                                *)
IsReady == \E s \in Named(servers, at), nd \in Named(nodes, at) : nd.key = s.key

(* Another Worker comes after this one.                                    *)
More == at < last

(* The next Worker, or the end.                                            *)
NodeReady ==
  /\ pc = "ready"
  /\ IsReady
  /\ \/ /\ More
        /\ pc' = "wait"
        /\ at' = at + 1
        /\ exposed' = {}
        /\ UNCHANGED <<cmd, last, seen, report>>
     \/ /\ at = last
        /\ End
        /\ report' = IF cmd = "reset" THEN [done |-> Workers, left |-> {}] ELSE report
  /\ UNCHANGED <<cloudVars, nodes, databaseVars, bounds>>

-----------------------------------------------------------------------------
(* A run ends at a check that refuses or a wait that is over, or is        *)
(* stopped anywhere.                                                       *)
Refuses ==
  \/ pc \in {"wait", "database"} /\ ~AllHealthy
  \/ pc = "plan" /\ ~ReplacesOnly
  \/ pc = "nodes" /\ ~MayLeave(at)
  \/ pc = "drain" /\ On(at) # {}
  \/ pc = "deleteNode" /\ \E nd \in Named(nodes, at) : ~nd.cordoned
  \/ pc = "checkNode" /\ (Named(nodes, at) # {} \/ \E w \in Workers \ {at} : Named(servers, w) = {})
  \/ pc \in {"replace", "create"} /\ made = MaxKeys
  \/ pc = "join" /\ \A s \in Named(servers, at) : [ip |-> s.ip, key |-> s.key] \notin pins
  \/ pc = "ready" /\ ~IsReady

Refuse ==
  /\ Refuses
  /\ EndEarly
  /\ UNCHANGED <<cloudVars, nodes, databaseVars, bounds>>

Stop ==
  /\ pc # "idle"
  /\ stops < MaxStops
  /\ stops' = stops + 1
  /\ EndEarly
  /\ UNCHANGED <<cloudVars, nodes, databaseVars, faults, restarts>>

-----------------------------------------------------------------------------
(* The databases and the cluster around the run.                           *)

(* An instance fails where it is.                                          *)
Fail(i) ==
  /\ i \in ready
  /\ faults < MaxFaults
  /\ faults' = faults + 1
  /\ ready' = ready \ {i}
  /\ exposed' = IF pc = "idle" THEN exposed ELSE exposed \cup {i}
  /\ UNCHANGED <<cloudVars, nodes, place, pc, cmd, at, last, seen, report, stops, restarts>>

(* The scheduler puts an instance that is nowhere on a Node that takes it; *)
(* its volume follows.                                                     *)
Schedule(i, w) ==
  /\ place[i] = 0
  /\ Open(w)
  /\ place' = [place EXCEPT ![i] = w]
  /\ UNCHANGED <<cloudVars, nodes, ready, pc, runVars, bounds>>

Recover(i) ==
  /\ i \notin ready
  /\ Runs(place[i])
  /\ ready' = ready \cup {i}
  /\ UNCHANGED <<cloudVars, nodes, place, pc, runVars, bounds>>

(* Pods of a Node that is gone are deleted, and made again elsewhere.      *)
Orphaned(i) ==
  /\ place[i] # 0
  /\ Named(nodes, place[i]) = {}
  /\ place' = [place EXCEPT ![i] = 0]
  /\ ready' = ready \ {i}
  /\ UNCHANGED <<cloudVars, nodes, pc, runVars, bounds>>

(* A joined server's kubelet that restarts registers a Node it finds gone. *)
KubeletRestart ==
  /\ restarts < MaxRestarts
  /\ restarts' = restarts + 1
  /\ \E s \in servers :
       /\ s.joined /\ Named(nodes, s.name) = {}
       /\ nodes' = nodes \cup {[name |-> s.name, key |-> s.key, cordoned |-> FALSE]}
  /\ UNCHANGED <<cloudVars, databaseVars, pc, runVars, stops, faults>>

(* The cloud controller deletes a Node whose server is gone.               *)
NodeForgotten ==
  /\ \E nd \in nodes : ~Ready(nd) /\ nodes' = nodes \ {nd}
  /\ UNCHANGED <<cloudVars, databaseVars, pc, runVars, bounds>>

-----------------------------------------------------------------------------
Start == StartReset \/ \E w \in Workers : NodeReplace(w) \/ NodeAdd(w)

Leave ==
  \/ WaitDatabases \/ PlanReplace \/ DatabaseGate \/ LastReadyWorker \/ Cordon
  \/ (\E i \in Instances : Evict(i)) \/ Drained \/ DeleteNode \/ Unpin

Build ==
  \/ Replace \/ CheckNode \/ Create \/ PinCreated \/ Join \/ NodeReady

Environment ==
  \/ \E i \in Instances :
       Fail(i) \/ Recover(i) \/ Orphaned(i) \/ \E w \in Workers : Schedule(i, w)
  \/ KubeletRestart \/ NodeForgotten

Next == Start \/ Leave \/ Build \/ Refuse \/ Stop \/ ReplaceFails \/ Environment

Spec == Init /\ [][Next]_vars

-----------------------------------------------------------------------------
(* The type of every variable.                                             *)
TypeOK ==
  /\ servers \subseteq Server
  /\ nodes \subseteq Node
  /\ pins \subseteq Pin
  /\ made \in Nat
  /\ place \in [Instances -> 0..N]
  /\ ready \subseteq Instances
  /\ pc \in Steps
  /\ cmd \in {"reset", "replace", "add"}
  /\ at \in Workers /\ last \in Workers
  /\ seen \subseteq Server
  /\ exposed \subseteq Instances
  /\ report \in [done : SUBSET Workers, left : SUBSET Workers]
  /\ stops \in Nat /\ faults \in Nat /\ restarts \in Nat

(* From the gate until the Worker is built again, every instance that is   *)
(* not ready was on that Worker at the gate, or failed since on its own:   *)
(* the reset never has instances of two Workers down ("the next Worker     *)
(* starts only once [...] every CNPG Cluster has all its instances ready   *)
(* again", reset.go:27).                                                   *)
Leaving == pc \in {"nodes", "cordon", "drain", "deleteNode", "unpin", "replace"}
Rebuilding == cmd # "add" /\ pc \in {"pin", "join", "ready"}

LosesOnlyItsOwn == Leaving \/ Rebuilding => Instances \ ready \subseteq exposed

(* Every pin at a public address is the key of the server there, though    *)
(* the addresses a reset drops pins at were read before the first Worker   *)
(* was replaced and Hetzner hands a freed address out again (reset.go:54,  *)
(* node_replace.go:147).                                                   *)
PinsOfServers == \A x \in pins : \E s \in servers : s.ip = x.ip /\ s.key = x.key

(* A run takes no database's last ready instance: the drain leaves it, and *)
(* the server that is destroyed runs none.  But for a server whose Node    *)
(* registered again after it was deleted, which takes pods until the apply *)
(* ("The old Node is gone before the new server exists",                   *)
(* node_replace.go:100).                                                   *)
Serves(d) == \E i \in ready : DatabaseOf[i] = d
Returned == pc = "replace" /\ Runs(at) /\ servers' # servers

NeverTheLast ==
  [][\A i \in Instances :
       Serves(DatabaseOf[i]) /\ ~Serves(DatabaseOf[i])' => (\E j \in Instances : Fail(j)) \/ Returned]_vars

(* "The old Node is gone before the new server exists, so the new kubelet  *)
(* registers a fresh Node" (node_replace.go:100): when the server is       *)
(* replaced, the cluster has no Node of its name.                          *)
OldNodeIsGone == [][pc = "replace" /\ servers' # servers => Named(nodes, at) = {}]_vars

(* The only Node that can be there is one that registered again: until a   *)
(* kubelet restarts, the sentence holds.  In no run: ResetProofs proves it.*)
GoneUntilRestart ==
  [][pc = "replace" /\ servers' # servers /\ restarts = 0 => Named(nodes, at) = {}]_vars

(* What a reset says when it ends is so: each Worker it calls replaced has *)
(* another server than at the start, pinned, with a Node of its own; each  *)
(* it calls not touched still has the server it had (resetStopped,         *)
(* reset.go:82).                                                           *)
Replaced(w) ==
  \E s \in Named(servers, w) :
    /\ \A o \in seen : o.key # s.key
    /\ [ip |-> s.ip, key |-> s.key] \in pins
    /\ \E nd \in Named(nodes, w) : nd.key = s.key

Untouched(w) == \E s \in Named(servers, w), o \in Named(seen, w) : s.key = o.key

ReportHolds ==
  [][cmd = "reset" /\ pc # "idle" /\ pc' = "idle"
       => /\ \A w \in report'.done : Replaced(w)
          /\ \A w \in report'.left : Untouched(w)]_vars

(* At most one Worker is ever without a server, however often replacements *)
(* fail and whatever command comes next: a command destroys or creates one *)
(* server only once its plan found that every other Worker has one ("and   *)
(* nothing else", workers.go:78; "another Worker with no server",          *)
(* workers.go:49).  In no run: ResetProofs proves it.                      *)
AtMostOneMissing ==
  \A v, w \in Workers : Named(servers, v) = {} /\ Named(servers, w) = {} => v = w
=============================================================================
