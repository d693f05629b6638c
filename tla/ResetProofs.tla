----------------------------- MODULE ResetProofs -----------------------------
(***************************************************************************)
(* Proofs about Reset, for any number of Workers and databases, any        *)
(* placement of the instances, and any number of stops, failures and       *)
(* kubelet restarts.                                                       *)
(***************************************************************************)
EXTENDS Reset, TLAPS

Before == {"wait", "plan", "database", "nodes", "cordon", "drain", "deleteNode", "unpin", "replace"}

(* Servers differ in name, key and address, and a Node is that of the      *)
(* server with its key.                                                    *)
ApartInv ==
  /\ \A s, t \in servers : s.name = t.name \/ s.key = t.key \/ s.ip = t.ip => s = t
  /\ \A s \in servers : s.key <= made
  /\ \A nd, md \in nodes : nd.name = md.name => nd = md
  /\ \A nd \in nodes : nd.key <= made
  /\ \A nd \in nodes, s \in servers : nd.key = s.key => nd.name = s.name /\ s.joined

(* A ready instance is on a Ready Node, and a drained Worker holds none    *)
(* unless its Node came back.                                              *)
PlaceInv ==
  /\ \A i \in ready : Runs(place[i])
  /\ pc = "deleteNode" => \A nd \in Named(nodes, at) : nd.cordoned => On(at) = {}

(* Between the gate and the apply, what is on the Worker is exposed too.   *)
ExposedInv ==
  /\ LosesOnlyItsOwn
  /\ Leaving => On(at) \subseteq exposed
  /\ pc \in {"checkNode", "create"} => cmd = "add"

(* What the run read at its start is so for the Workers it has not come to.*)
SeenInv ==
  /\ \A o \in seen : o.key <= made
  /\ pc # "idle" => \A w \in Workers : w > at => Named(seen, w) = Named(servers, w)
  /\ pc \in Before => Named(seen, at) = Named(servers, at)
  /\ pc \in {"checkNode", "create"} => Named(servers, at) = {}

(* Once unpinned, a Worker has no pin until the new key is pinned.         *)
PinInv ==
  /\ PinsOfServers
  /\ pc = "replace" => \A x \in pins, s \in Named(servers, at) : x.ip # s.ip

(* The Workers a reset has passed are built anew, and the one it is on is  *)
(* another server from the apply on, pinned before it joins.               *)
PassedInv ==
  /\ cmd = "reset" /\ pc # "idle" =>
       /\ last = N /\ \A w \in Workers : Named(seen, w) # {}
       /\ \A w \in Workers : w < at => Replaced(w)
  /\ cmd = "reset" /\ pc \in {"pin", "join", "ready"} =>
       \A s \in Named(servers, at), o \in seen : o.key # s.key
  /\ pc = "ready" => \A s \in Named(servers, at) : [ip |-> s.ip, key |-> s.key] \in pins

RInv == TypeOK /\ ApartInv /\ PlaceInv /\ ExposedInv /\ SeenInv /\ PinInv /\ PassedInv

-----------------------------------------------------------------------------
(* Types.                                                                  *)

LEMMA InitTypes == Init => TypeOK
<1> SUFFICES ASSUME Init PROVE TypeOK
  OBVIOUS
<1>n. N \in Nat /\ N >= 1 /\ 1 \in Workers /\ Workers \subseteq Nat
  BY ResetAssumption DEF Workers
<1>1. PICK i \in [Workers -> IPs] :
        /\ servers = {[name |-> w, key |-> w, ip |-> i[w], joined |-> TRUE] : w \in Workers}
        /\ \E P \in SUBSET Workers : pins = {[ip |-> i[w], key |-> w] : w \in P}
  BY DEF Init
<1>2. ASSUME NEW w \in Workers
      PROVE  /\ [name |-> w, key |-> w, ip |-> i[w], joined |-> TRUE] \in Server
             /\ [name |-> w, key |-> w, cordoned |-> FALSE] \in Node
             /\ [ip |-> i[w], key |-> w] \in Pin
  <2>1. w \in Nat /\ i[w] \in IPs
    BY <1>n
  <2> QED
    BY <2>1 DEF Server, Node, Pin
<1>3. nodes = {[name |-> w, key |-> w, cordoned |-> FALSE] : w \in Workers}
  BY DEF Init
<1>4. servers \subseteq Server /\ nodes \subseteq Node /\ pins \subseteq Pin
  BY <1>1, <1>2, <1>3
<1>5. place \in [Instances -> 0..N]
  BY <1>n DEF Init, Workers
<1> QED
  BY <1>n, <1>4, <1>5 DEF Init, TypeOK, Steps

(* Where a run is, and what its end leaves.                                *)
LEMMA EndTypes == ASSUME TypeOK, EndEarly
                  PROVE  /\ pc' = "idle" /\ cmd' = "replace" /\ at' \in Workers /\ last' \in Workers
                         /\ seen' = {} /\ exposed' = {}
                         /\ report' \in [done : SUBSET Workers, left : SUBSET Workers]
<1>1. 1 \in Workers /\ 1..(at - 1) \subseteq Workers /\ (at + 1)..N \subseteq Workers
  BY ResetAssumption DEF TypeOK, Workers
<1> QED
  BY <1>1 DEF EndEarly, End, StoppedReport, TypeOK

LEMMA NewServerTypes ==
  ASSUME TypeOK, NEW others \in SUBSET servers, NewServer(others)
  PROVE  servers' \subseteq Server /\ made' \in Nat
<1>1. PICK ip \in IPs :
        /\ servers' = others \cup {[name |-> at, key |-> made + 1, ip |-> ip, joined |-> FALSE]}
        /\ made' = made + 1
  BY DEF NewServer
<1>2. [name |-> at, key |-> made + 1, ip |-> ip, joined |-> FALSE] \in Server
  <2>1. at \in Workers /\ made + 1 \in Nat
    BY DEF TypeOK
  <2> QED
    BY <2>1 DEF Server
<1>3. servers \subseteq Server /\ made + 1 \in Nat
  BY DEF TypeOK
<1> QED
  BY <1>1, <1>2, <1>3

LEMMA LeaveTypes == ASSUME TypeOK, Leave PROVE TypeOK'
<1> USE DEF TypeOK, cloudVars, databaseVars, runVars, bounds, Steps
<1>1. CASE WaitDatabases \/ PlanReplace \/ LastReadyWorker \/ Drained
  BY <1>1 DEF WaitDatabases, PlanReplace, LastReadyWorker, Drained, Go
<1>2. CASE DatabaseGate
  BY <1>2 DEF DatabaseGate, On
<1>3. CASE Cordon
  <2>1. ASSUME NEW nd \in nodes PROVE [nd EXCEPT !.cordoned = TRUE] \in Node
    BY DEF Node
  <2>2. nodes' \subseteq Node
    BY <1>3, <2>1 DEF Cordon
  <2> QED
    BY <1>3, <2>2 DEF Cordon, Go
<1>4. ASSUME NEW i \in Instances, Evict(i) PROVE TypeOK'
  <2>1. place' \in [Instances -> 0..N]
    BY <1>4, ResetAssumption DEF Evict
  <2> QED
    BY <1>4, <2>1 DEF Evict
<1>5. CASE DeleteNode
  BY <1>5 DEF DeleteNode, Go
<1>6. CASE Unpin
  BY <1>6 DEF Unpin, Go
<1> QED
  BY <1>1, <1>2, <1>3, <1>4, <1>5, <1>6 DEF Leave

LEMMA BuildTypes == ASSUME TypeOK, Build PROVE TypeOK'
<1> USE DEF TypeOK, cloudVars, databaseVars, runVars, bounds, Steps
<1>1. CASE Replace
  <2>1. servers' \subseteq Server /\ made' \in Nat
    BY <1>1, NewServerTypes DEF Replace, Named
  <2> QED
    BY <1>1, <2>1 DEF Replace, Destroyed, Go
<1>2. CASE Create
  <2>1. servers' \subseteq Server /\ made' \in Nat
    BY <1>2, NewServerTypes DEF Create
  <2> QED
    BY <1>2, <2>1 DEF Create, Go
<1>3. CASE CheckNode
  BY <1>3 DEF CheckNode, Go
<1>4. CASE PinCreated
  <2>1. pins' \subseteq Pin
    BY <1>4 DEF PinCreated, Named, Server, Pin
  <2> QED
    BY <1>4, <2>1 DEF PinCreated, Go
<1>5. CASE Join
  <2>1. PICK s \in Named(servers, at) :
          /\ servers' = (servers \ {s}) \cup {[s EXCEPT !.joined = TRUE]}
          /\ \/ nodes' = nodes
             \/ nodes' = nodes \cup {[name |-> at, key |-> s.key, cordoned |-> FALSE]}
    BY <1>5 DEF Join
  <2>2. s \in Server
    BY <2>1 DEF Named
  <2>3. [s EXCEPT !.joined = TRUE] \in Server /\ s.key \in Nat
    BY <2>2 DEF Server
  <2>4. [name |-> at, key |-> s.key, cordoned |-> FALSE] \in Node
    BY <2>3 DEF Node
  <2>5. servers' \subseteq Server /\ nodes' \subseteq Node
    BY <2>1, <2>3, <2>4
  <2> QED
    BY <1>5, <2>5 DEF Join, Go
<1>6. CASE NodeReady
  <2>1. CASE at < last /\ at' = at + 1 /\ pc' = "wait"
    <3>1. at + 1 \in Workers
      BY <2>1, ResetAssumption DEF Workers
    <3> QED
      BY <1>6, <2>1, <3>1 DEF NodeReady, End
  <2>2. CASE at = last /\ End
    <3>1. 1 \in Workers
      BY ResetAssumption DEF Workers
    <3> QED
      BY <1>6, <2>2, <3>1 DEF NodeReady, End
  <2> QED
    BY <1>6, <2>1, <2>2 DEF NodeReady, More
<1> QED
  BY <1>1, <1>2, <1>3, <1>4, <1>5, <1>6 DEF Build

LEMMA OtherTypes == ASSUME TypeOK, Start \/ Refuse \/ Stop \/ ReplaceFails PROVE TypeOK'
<1> USE DEF TypeOK, cloudVars, databaseVars, runVars, bounds, Steps
<1>1. CASE StartReset
  <2>1. 1 \in Workers /\ N \in Workers
    BY ResetAssumption DEF Workers
  <2> QED
    BY <1>1, <2>1 DEF StartReset, Begin
<1>2. ASSUME NEW w \in Workers, NodeReplace(w) \/ NodeAdd(w) PROVE TypeOK'
  BY <1>2 DEF NodeReplace, NodeAdd, Begin
<1>3. CASE Refuse
  BY <1>3, EndTypes DEF Refuse
<1>4. CASE Stop
  BY <1>4, EndTypes DEF Stop
<1>5. CASE ReplaceFails
  BY <1>5, EndTypes DEF ReplaceFails, Destroyed
<1> QED
  BY <1>1, <1>2, <1>3, <1>4, <1>5 DEF Start

LEMMA EnvironmentTypes == ASSUME TypeOK, Environment PROVE TypeOK'
<1> USE DEF TypeOK, cloudVars, databaseVars, runVars, bounds, Steps
<1>1. ASSUME NEW i \in Instances, Fail(i) \/ Recover(i) PROVE TypeOK'
  BY <1>1 DEF Fail, Recover
<1>2. ASSUME NEW i \in Instances, NEW w \in Workers, Orphaned(i) \/ Schedule(i, w) PROVE TypeOK'
  <2>1. w \in 0..N /\ 0 \in 0..N
    BY ResetAssumption DEF Workers
  <2>2. place' \in [Instances -> 0..N]
    BY <1>2, <2>1 DEF Orphaned, Schedule
  <2> QED
    BY <1>2, <2>2 DEF Orphaned, Schedule
<1>3. CASE KubeletRestart
  <2>1. PICK s \in servers : nodes' = nodes \cup {[name |-> s.name, key |-> s.key, cordoned |-> FALSE]}
    BY <1>3 DEF KubeletRestart
  <2>2. [name |-> s.name, key |-> s.key, cordoned |-> FALSE] \in Node
    BY DEF Server, Node
  <2>3. nodes' \subseteq Node
    BY <2>1, <2>2
  <2> QED
    BY <1>3, <2>3 DEF KubeletRestart
<1>4. CASE NodeForgotten
  BY <1>4 DEF NodeForgotten
<1>5. Workers # {}
  BY ResetAssumption DEF Workers
<1> QED
  BY <1>1, <1>2, <1>3, <1>4, <1>5 DEF Environment

LEMMA TypesKept == TypeOK /\ [Next]_vars => TypeOK'
<1> SUFFICES ASSUME TypeOK, [Next]_vars PROVE TypeOK'
  OBVIOUS
<1>1. CASE UNCHANGED vars
  BY <1>1 DEF vars, cloudVars, databaseVars, runVars, bounds, TypeOK
<1> QED
  BY <1>1, LeaveTypes, BuildTypes, OtherTypes, EnvironmentTypes DEF Next

(* Every variable of Reset keeps its type (reset.go, node_replace.go).     *)
THEOREM ResetTypes == Spec => []TypeOK
<1> QED
  BY InitTypes, TypesKept, PTL DEF Spec

-----------------------------------------------------------------------------
(* Which steps change what.                                                *)

LEMMA ServersMove ==
  ASSUME [Next]_vars
  PROVE  UNCHANGED <<servers, made>> \/ Replace \/ Create \/ ReplaceFails \/ Join
BY DEF Next, vars, Start, StartReset, NodeReplace, NodeAdd, Begin, Leave, WaitDatabases,
   PlanReplace, DatabaseGate, LastReadyWorker, Cordon, Evict, Drained, DeleteNode, Unpin, Build,
   CheckNode, PinCreated, NodeReady, Refuse, Stop, Environment, Fail, Recover, Orphaned, Schedule,
   KubeletRestart, NodeForgotten, cloudVars

LEMMA NodesMove ==
  ASSUME [Next]_vars
  PROVE  \/ UNCHANGED nodes \/ Cordon \/ DeleteNode \/ Join \/ KubeletRestart
         \/ NodeForgotten
BY DEF Next, vars, Start, StartReset, NodeReplace, NodeAdd, Begin, Leave, WaitDatabases,
   PlanReplace, DatabaseGate, LastReadyWorker, Evict, Drained, Unpin, Build, Replace, CheckNode,
   Create, PinCreated, NodeReady, Refuse, Stop, ReplaceFails, Environment, Fail, Recover,
   Orphaned, Schedule

LEMMA PinsMove ==
  ASSUME [Next]_vars
  PROVE  UNCHANGED pins \/ Unpin \/ PinCreated
BY DEF Next, vars, Start, StartReset, NodeReplace, NodeAdd, Begin, Leave, WaitDatabases,
   PlanReplace, DatabaseGate, LastReadyWorker, Cordon, Evict, Drained, DeleteNode, Build, Replace,
   CheckNode, Create, Join, NodeReady, Refuse, Stop, ReplaceFails, Environment, Fail, Recover,
   Orphaned, Schedule, KubeletRestart, NodeForgotten, cloudVars

LEMMA PlacesMove ==
  ASSUME [Next]_vars
  PROVE  \/ UNCHANGED <<place, ready>> \/ Replace \/ ReplaceFails
         \/ \E i \in Instances : \/ Evict(i) \/ Fail(i) \/ Recover(i) \/ Orphaned(i)
                                 \/ \E w \in Workers : Schedule(i, w)
BY DEF Next, vars, Start, StartReset, NodeReplace, NodeAdd, Begin, Leave, WaitDatabases,
   PlanReplace, DatabaseGate, LastReadyWorker, Cordon, Drained, DeleteNode, Unpin, Build,
   CheckNode, Create, PinCreated, Join, NodeReady, Refuse, Stop, Environment,
   KubeletRestart, NodeForgotten, databaseVars

(* Where a run is: it stays, begins, goes one step on, comes to the next   *)
(* Worker or ends.                                                         *)
Moves(from, to) == pc = from /\ pc' = to

LEMMA RunMove ==
  ASSUME [Next]_vars
  PROVE  \/ UNCHANGED <<pc, cmd, at, last, seen>>
         \/ Start
         \/ /\ UNCHANGED <<cmd, at, last, seen>>
            /\ \/ Moves("wait", "plan") \/ Moves("plan", "database") \/ Moves("database", "nodes")
               \/ Moves("nodes", "cordon") \/ Moves("cordon", "drain") \/ Moves("cordon", "deleteNode")
               \/ Moves("drain", "deleteNode") \/ Moves("deleteNode", "unpin") \/ Unpin \/ Replace
               \/ Moves("checkNode", "create") \/ Create \/ PinCreated \/ Join
         \/ NodeReady
         \/ pc # "idle" /\ pc' = "idle" /\ cmd' = "replace" /\ seen' = {}
<1> USE DEF Moves, runVars
<1>1. CASE UNCHANGED vars \/ Environment
  BY <1>1 DEF vars, Environment, Fail, Recover, Orphaned, Schedule, KubeletRestart, NodeForgotten
<1>2. CASE Leave
  BY <1>2 DEF Leave, WaitDatabases, PlanReplace, DatabaseGate, LastReadyWorker, Cordon, Evict,
     Drained, DeleteNode, Unpin, Go
<1>3. CASE Build
  BY <1>3 DEF Build, Replace, CheckNode, Create, PinCreated, Join, Go
<1>4. CASE Refuse \/ Stop \/ ReplaceFails
  BY <1>4 DEF Refuse, Refuses, Stop, ReplaceFails, EndEarly, End
<1> QED
  BY <1>1, <1>2, <1>3, <1>4 DEF Next

(* The steps that make a server, and the one that joins it.                *)
LEMMA NewIs ==
  ASSUME TypeOK, ApartInv, NEW others \in SUBSET servers, NewServer(others)
  PROVE  \E s \in servers' :
           /\ servers' = others \cup {s} /\ made' = made + 1
           /\ s.name = at /\ s.key = made + 1
           /\ \A o \in others : o.ip # s.ip
           /\ \A o \in servers : o.key # s.key
<1>1. PICK ip \in IPs \ {o.ip : o \in others} :
        /\ servers' = others \cup {[name |-> at, key |-> made + 1, ip |-> ip, joined |-> FALSE]}
        /\ made' = made + 1
  BY DEF NewServer
<1>2. PICK s : s = [name |-> at, key |-> made + 1, ip |-> ip, joined |-> FALSE]
  OBVIOUS
<1>3. s.name = at /\ s.key = made + 1 /\ s.ip = ip
  BY <1>2
<1>4. made \in Nat /\ \A o \in servers : o.key \in Nat /\ o.key <= made
  BY DEF TypeOK, Server, ApartInv
<1>5. \A o \in servers : o.key # made + 1
  BY <1>4
<1> QED
  BY <1>1, <1>2, <1>3, <1>5

LEMMA JoinIs ==
  ASSUME TypeOK, Join
  PROVE  \E s \in servers, t \in servers' :
           /\ servers' = (servers \ {s}) \cup {t}
           /\ s.name = at /\ t.name = at /\ t.key = s.key /\ t.ip = s.ip /\ t.joined
           /\ [ip |-> t.ip, key |-> t.key] \in pins
           /\ \/ nodes' = nodes
              \/ /\ Named(nodes, at) = {}
                 /\ \E nd \in nodes' : nd.name = at /\ nd.key = s.key /\ nodes' = nodes \cup {nd}
<1>1. PICK s \in Named(servers, at) :
        /\ [ip |-> s.ip, key |-> s.key] \in pins
        /\ servers' = (servers \ {s}) \cup {[s EXCEPT !.joined = TRUE]}
        /\ nodes' = IF s.joined \/ Named(nodes, at) # {} THEN nodes
                    ELSE nodes \cup {[name |-> at, key |-> s.key, cordoned |-> FALSE]}
  BY DEF Join
<1>2. PICK t : t = [s EXCEPT !.joined = TRUE]
  OBVIOUS
<1>3. t.name = s.name /\ t.key = s.key /\ t.ip = s.ip /\ t.joined
  BY <1>1, <1>2 DEF TypeOK, Server, Named
<1>4. PICK nd : nd = [name |-> at, key |-> s.key, cordoned |-> FALSE]
  OBVIOUS
<1>5. nd.name = at /\ nd.key = s.key
  BY <1>4
<1>6. \/ nodes' = nodes
      \/ Named(nodes, at) = {} /\ nodes' = nodes \cup {nd}
  BY <1>1, <1>4
<1> QED
  BY <1>1, <1>2, <1>3, <1>5, <1>6 DEF Named

LEMMA RestartIs ==
  ASSUME KubeletRestart
  PROVE  \E s \in servers, nd \in nodes' :
           /\ Named(nodes, s.name) = {} /\ nodes' = nodes \cup {nd}
           /\ nd.name = s.name /\ nd.key = s.key /\ s.joined
<1>1. PICK s \in servers :
        /\ s.joined /\ Named(nodes, s.name) = {}
        /\ nodes' = nodes \cup {[name |-> s.name, key |-> s.key, cordoned |-> FALSE]}
  BY DEF KubeletRestart
<1>2. PICK nd : nd = [name |-> s.name, key |-> s.key, cordoned |-> FALSE]
  OBVIOUS
<1>3. nd.name = s.name /\ nd.key = s.key
  BY <1>2
<1> QED
  BY <1>1, <1>2, <1>3

(* A cordon keeps each Node's name and key.                                *)
LEMMA CordonIs ==
  ASSUME TypeOK, Cordon
  PROVE  /\ \A nd \in nodes : \E md \in nodes' : md.name = nd.name /\ md.key = nd.key
         /\ \A md \in nodes' : \E nd \in nodes :
              /\ md.name = nd.name /\ md.key = nd.key
              /\ md = IF nd.name = at THEN [nd EXCEPT !.cordoned = TRUE] ELSE nd
<1>1. nodes' = {IF nd.name = at THEN [nd EXCEPT !.cordoned = TRUE] ELSE nd : nd \in nodes}
  BY DEF Cordon
<1>2. ASSUME NEW nd \in nodes, NEW md, md = IF nd.name = at THEN [nd EXCEPT !.cordoned = TRUE] ELSE nd
      PROVE  md.name = nd.name /\ md.key = nd.key
  BY <1>2 DEF TypeOK, Node
<1> QED
  BY <1>1, <1>2

-----------------------------------------------------------------------------
(* Servers and Nodes stay apart.                                           *)

LEMMA ServersApart ==
  ASSUME RInv, [Next]_vars
  PROVE  /\ \A s, t \in servers' : s.name = t.name \/ s.key = t.key \/ s.ip = t.ip => s = t
         /\ \A s \in servers' : s.key <= made'
         /\ made \in Nat /\ made' \in Nat /\ made <= made'
<1>0. /\ TypeOK /\ ApartInv /\ made \in Nat
      /\ \A s \in servers : s.key \in Nat
  BY DEF RInv, TypeOK, Server
<1>1. \A s, t \in servers : s.name = t.name \/ s.key = t.key \/ s.ip = t.ip => s = t
  BY <1>0 DEF ApartInv
<1>2. \A s \in servers : s.key <= made
  BY <1>0 DEF ApartInv
<1>3. ASSUME NEW others \in SUBSET servers, NewServer(others), \A o \in others : o.name # at
      PROVE  /\ \A s, t \in servers' : s.name = t.name \/ s.key = t.key \/ s.ip = t.ip => s = t
             /\ \A s \in servers' : s.key <= made'
             /\ made' = made + 1
  <2>1. PICK s \in servers' : /\ servers' = others \cup {s} /\ made' = made + 1
                              /\ s.name = at /\ s.key = made + 1
                              /\ \A o \in others : o.ip # s.ip
                              /\ \A o \in servers : o.key # s.key
    BY <1>0, <1>3, NewIs
  <2>2. \A o \in others : o.key <= made + 1
    BY <1>0, <1>2
  <2> QED
    BY <1>0, <1>1, <1>3, <2>1, <2>2
<1>4. CASE UNCHANGED <<servers, made>>
  BY <1>0, <1>1, <1>2, <1>4
<1>5. CASE Replace
  <2>1. NewServer(servers \ Named(servers, at)) /\ \A o \in servers \ Named(servers, at) : o.name # at
    BY <1>5 DEF Replace, Named
  <2> QED
    BY <1>0, <1>3, <2>1
<1>6. CASE Create
  <2>1. NewServer(servers) /\ \A o \in servers : o.name # at
    BY <1>6 DEF Create, Named, RInv, SeenInv
  <2> QED
    BY <1>0, <1>3, <2>1
<1>7. CASE ReplaceFails
  BY <1>0, <1>1, <1>2, <1>7 DEF ReplaceFails, Named
<1>8. CASE Join
  <2>1. PICK s \in servers, t \in servers' : /\ servers' = (servers \ {s}) \cup {t}
                                             /\ t.name = s.name /\ t.key = s.key /\ t.ip = s.ip
    BY <1>0, <1>8, JoinIs
  <2>2. made' = made
    BY <1>8 DEF Join
  <2> QED
    BY <1>0, <1>1, <1>2, <2>1, <2>2
<1> QED
  BY <1>4, <1>5, <1>6, <1>7, <1>8, ServersMove

(* A server there is after a step is one there was, with the same name,    *)
(* key and address, joined if it was or now joins, or it is new.           *)
LEMMA ServersAfter ==
  ASSUME RInv, [Next]_vars, NEW t \in servers'
  PROVE  \/ \E s \in servers : /\ t.name = s.name /\ t.key = s.key /\ t.ip = s.ip
                               /\ (s.joined \/ (Join /\ t.name = at)) => t.joined
         \/ /\ Replace \/ Create
            /\ t.name = at /\ t.key = made + 1 /\ \A o \in servers : o.key # t.key
<1>0. TypeOK /\ ApartInv
  BY DEF RInv
<1>1. CASE Replace \/ Create
  <2>1. PICK others \in SUBSET servers : NewServer(others)
    BY <1>1 DEF Replace, Create
  <2>2. ~Join
    BY <1>1 DEF Replace, Create, Join
  <2>3. PICK s \in servers' : /\ servers' = others \cup {s} /\ s.name = at /\ s.key = made + 1
                              /\ \A o \in servers : o.key # s.key
    BY <1>0, <2>1, NewIs
  <2> QED
    BY <1>1, <2>1, <2>2, <2>3
<1>2. CASE Join
  <2>1. PICK s \in servers, u \in servers' : /\ servers' = (servers \ {s}) \cup {u}
                                             /\ s.name = at /\ u.name = at /\ u.key = s.key /\ u.ip = s.ip
                                             /\ u.joined
    BY <1>0, <1>2, JoinIs
  <2>2. t.name = at => t = u
    BY <2>1, ServersApart
  <2> QED
    BY <2>1, <2>2
<1>3. CASE (UNCHANGED servers \/ ReplaceFails) /\ ~Join
  BY <1>3 DEF ReplaceFails
<1> QED
  BY <1>1, <1>2, <1>3, ServersMove

(* A Node there is after a step is one there was, but for its cordon, or a *)
(* server's.                                                               *)
LEMMA NodesAfter ==
  ASSUME RInv, [Next]_vars, NEW md \in nodes'
  PROVE  \/ \E nd \in nodes : md.name = nd.name /\ md.key = nd.key
         \/ /\ Join \/ KubeletRestart
            /\ \E s \in servers : /\ md.name = s.name /\ md.key = s.key
                                  /\ s.joined \/ (Join /\ s.name = at)
<1>0. TypeOK
  BY DEF RInv
<1>1. CASE Cordon
  BY <1>0, <1>1, CordonIs
<1>2. CASE Join
  BY <1>0, <1>2, JoinIs
<1>3. CASE KubeletRestart
  BY <1>3, RestartIs
<1>4. CASE UNCHANGED nodes \/ DeleteNode \/ NodeForgotten
  BY <1>4 DEF DeleteNode, NodeForgotten
<1> QED
  BY <1>1, <1>2, <1>3, <1>4, NodesMove

LEMMA NodesApart ==
  ASSUME RInv, [Next]_vars
  PROVE  \A nd, md \in nodes' : nd.name = md.name => nd = md
<1>0. TypeOK /\ \A nd, md \in nodes : nd.name = md.name => nd = md
  BY DEF RInv, ApartInv
<1>1. ASSUME Cordon, NEW x \in nodes', NEW y \in nodes', x.name = y.name PROVE x = y
  <2>1. PICK nd \in nodes : x.name = nd.name /\ x = IF nd.name = at THEN [nd EXCEPT !.cordoned = TRUE] ELSE nd
    BY <1>0, <1>1, CordonIs
  <2>2. PICK md \in nodes : y.name = md.name /\ y = IF md.name = at THEN [md EXCEPT !.cordoned = TRUE] ELSE md
    BY <1>0, <1>1, CordonIs
  <2>3. nd = md
    BY <1>0, <1>1, <2>1, <2>2
  <2> QED
    BY <2>1, <2>2, <2>3
<1>2. ASSUME NEW nd, nodes' = nodes \cup {nd}, Named(nodes, nd.name) = {}
      PROVE  \A x, y \in nodes' : x.name = y.name => x = y
  BY <1>0, <1>2 DEF Named
<1>3. CASE Join
  BY <1>0, <1>2, <1>3, JoinIs
<1>4. CASE KubeletRestart
  BY <1>2, <1>4, RestartIs
<1>5. CASE UNCHANGED nodes \/ DeleteNode \/ NodeForgotten
  BY <1>0, <1>5 DEF DeleteNode, NodeForgotten
<1> QED
  BY <1>1, <1>3, <1>4, <1>5, NodesMove

LEMMA ApartKept == ASSUME RInv, [Next]_vars PROVE ApartInv'
<1>0. /\ ApartInv /\ made \in Nat /\ made' \in Nat /\ made <= made'
      /\ \A nd \in nodes : nd.key \in Nat /\ nd.key <= made
      /\ \A s \in servers : s.key \in Nat /\ s.key <= made
  BY ServersApart DEF RInv, TypeOK, Node, Server, ApartInv
<1>1. \A nd \in nodes' : nd.key <= made'
  BY <1>0, NodesAfter
<1>2. ASSUME NEW nd \in nodes', NEW t \in servers', nd.key = t.key PROVE nd.name = t.name /\ t.joined
  <2>1. ASSUME NEW s \in servers, t.name = s.name, t.key = s.key,
               (s.joined \/ (Join /\ t.name = at)) => t.joined
        PROVE  nd.name = t.name /\ t.joined
    <3>1. ASSUME NEW md \in nodes, nd.name = md.name, nd.key = md.key PROVE nd.name = t.name /\ t.joined
      BY <1>0, <1>2, <2>1, <3>1 DEF ApartInv
    <3>2. ASSUME NEW u \in servers, nd.name = u.name, nd.key = u.key, u.joined \/ (Join /\ u.name = at)
          PROVE  nd.name = t.name /\ t.joined
      <4>1. u = s
        BY <1>0, <1>2, <2>1, <3>2 DEF ApartInv
      <4> QED
        BY <2>1, <3>2, <4>1
    <3> QED
      BY <3>1, <3>2, NodesAfter
  <2>2. CASE t.key = made + 1
    BY <1>0, <1>2, <2>2, NodesAfter
  <2> QED
    BY <2>1, <2>2, ServersAfter
<1> QED
  BY <1>1, <1>2, ServersApart, NodesApart DEF ApartInv

-----------------------------------------------------------------------------
(* The instances and the Nodes they run on.                                *)

(* A step at which the run stays where it is.                              *)
LEMMA Stays ==
  ASSUME [Next]_vars, pc' = pc
  PROVE  UNCHANGED vars \/ Environment \/ \E i \in Instances : Evict(i)
<1>1. ASSUME Start PROVE FALSE
  BY <1>1 DEF Start, StartReset, NodeReplace, NodeAdd, Begin
<1>2. ASSUME Leave PROVE \E i \in Instances : Evict(i)
  BY <1>2 DEF Leave, WaitDatabases, PlanReplace, DatabaseGate, LastReadyWorker, Cordon, Drained,
     DeleteNode, Unpin, Go
<1>3. ASSUME Build PROVE FALSE
  BY <1>3 DEF Build, Replace, CheckNode, Create, PinCreated, Join, NodeReady, End, Go
<1>4. ASSUME Refuse \/ Stop \/ ReplaceFails PROVE FALSE
  BY <1>4 DEF Refuse, Refuses, Stop, ReplaceFails, EndEarly, End
<1> QED
  BY <1>1, <1>2, <1>3, <1>4 DEF Next

(* A server goes with its replacement only.                                *)
LEMMA ServersStay ==
  ASSUME RInv, [Next]_vars, NEW s \in servers
  PROVE  \/ \E t \in servers' : /\ t.name = s.name /\ t.key = s.key /\ t.ip = s.ip
                                /\ s.joined => t.joined
         \/ (Replace \/ ReplaceFails) /\ s.name = at
<1>0. TypeOK /\ ApartInv
  BY DEF RInv
<1>1. CASE Replace
  <2>1. servers \ Named(servers, at) \in SUBSET servers /\ NewServer(servers \ Named(servers, at))
    BY <1>1 DEF Replace
  <2>2. servers \ Named(servers, at) \subseteq servers'
    BY <1>0, <2>1, NewIs
  <2> QED
    BY <1>1, <2>2 DEF Named
<1>2. CASE Create
  <2>1. NewServer(servers)
    BY <1>2 DEF Create
  <2> QED
    BY <1>0, <2>1, NewIs
<1>3. CASE Join
  BY <1>0, <1>3, JoinIs
<1>4. CASE UNCHANGED servers \/ ReplaceFails
  BY <1>4 DEF ReplaceFails, Named
<1> QED
  BY <1>1, <1>2, <1>3, <1>4, ServersMove

(* A Node goes when the run deletes it, or once its server is gone.        *)
LEMMA NodesStay ==
  ASSUME RInv, [Next]_vars, NEW nd \in nodes
  PROVE  \/ \E md \in nodes' : md.name = nd.name /\ md.key = nd.key
         \/ DeleteNode /\ nd.name = at
         \/ ~Ready(nd)
<1>0. TypeOK
  BY DEF RInv
<1>1. CASE Cordon
  BY <1>0, <1>1, CordonIs
<1>2. CASE Join
  BY <1>0, <1>2, JoinIs
<1>3. CASE KubeletRestart
  BY <1>3, RestartIs
<1>4. CASE UNCHANGED nodes \/ DeleteNode \/ NodeForgotten
  BY <1>4 DEF DeleteNode, NodeForgotten, Named
<1> QED
  BY <1>1, <1>2, <1>3, <1>4, NodesMove

LEMMA RunsStays ==
  ASSUME RInv, [Next]_vars, NEW w, Runs(w)
  PROVE  Runs(w)' \/ ((DeleteNode \/ Replace \/ ReplaceFails) /\ w = at)
<1>1. PICK nd \in nodes, s \in servers : nd.name = w /\ s.name = w /\ s.joined
  BY DEF Runs, Ready, Named
<1>2. Ready(nd)
  BY <1>1 DEF Ready
<1>3. ASSUME NEW md \in nodes', NEW t \in servers', md.name = w, t.name = w, t.joined PROVE Runs(w)'
  BY <1>3 DEF Runs, Ready, Named
<1> QED
  BY <1>1, <1>2, <1>3, NodesStay, ServersStay

LEMMA PlaceKept == ASSUME RInv, [Next]_vars PROVE PlaceInv'
<1>0. TypeOK /\ ApartInv /\ PlaceInv
  BY DEF RInv
<1>1. ASSUME NEW i \in Instances, i \in ready', place'[i] = place[i], Runs(place[i]),
             (Replace \/ ReplaceFails) => place[i] # at
      PROVE  Runs(place[i])'
  <2>1. ASSUME DeleteNode, place[i] = at PROVE FALSE
    <3>1. PICK nd \in Named(nodes, at) : TRUE
      BY <1>1, <2>1 DEF Runs
    <3>2. nd.cordoned /\ pc = "deleteNode"
      BY <2>1, <3>1 DEF DeleteNode
    <3>3. On(at) = {}
      BY <1>0, <3>1, <3>2 DEF PlaceInv
    <3> QED
      BY <2>1, <3>3 DEF On
  <2>2. Runs(place[i])' \/ ((DeleteNode \/ Replace \/ ReplaceFails) /\ place[i] = at)
    <3>1. PICK w : w = place[i]
      OBVIOUS
    <3>2. Runs(w)' \/ ((DeleteNode \/ Replace \/ ReplaceFails) /\ w = at)
      BY <1>1, <3>1, RunsStays
    <3>3. w = place'[i]
      BY <1>1, <3>1
    <3> QED
      BY <3>1, <3>2, <3>3 DEF Runs
  <2> QED
    BY <1>1, <2>1, <2>2
<1>2. ASSUME NEW i \in ready' PROVE Runs(place[i])'
  <2>0. /\ ready \subseteq Instances /\ place \in [Instances -> 0..N]
        /\ \A j \in ready : Runs(place[j])
    BY <1>0 DEF TypeOK, PlaceInv
  <2>1. CASE UNCHANGED <<place, ready>> /\ ~Replace /\ ~ReplaceFails
    BY <1>1, <1>2, <2>0, <2>1
  <2>2. CASE Replace \/ ReplaceFails
    <3>1. place' = place /\ ready' = ready \ On(at)
      BY <2>2 DEF Replace, ReplaceFails, Destroyed
    <3>2. i \in ready /\ i \in Instances /\ place[i] # at
      BY <1>2, <2>0, <3>1 DEF On
    <3> QED
      BY <1>1, <1>2, <2>0, <3>1, <3>2
  <2>3. ASSUME NEW j \in Instances, Evict(j) \/ Orphaned(j) PROVE Runs(place[i])'
    <3>1. /\ place' = [place EXCEPT ![j] = 0] /\ ready' = ready \ {j}
          /\ UNCHANGED <<nodes, servers>>
      BY <2>3 DEF Evict, Orphaned, cloudVars
    <3>2. i \in ready /\ place'[i] = place[i]
      BY <1>2, <2>0, <3>1
    <3>3. Runs(place[i])
      BY <2>0, <3>2
    <3> QED
      BY <3>1, <3>2, <3>3 DEF Runs, Ready, Named
  <2>4. ASSUME NEW j \in Instances, Fail(j) \/ Recover(j) PROVE Runs(place[i])'
    <3>1. UNCHANGED <<place, nodes, servers>>
      BY <2>4 DEF Fail, Recover, cloudVars
    <3>2. Runs(place[i])
      BY <1>2, <2>0, <2>4 DEF Fail, Recover
    <3> QED
      BY <3>1, <3>2 DEF Runs, Ready, Named
  <2>5. ASSUME NEW j \in Instances, NEW w \in Workers, Schedule(j, w) PROVE Runs(place[i])'
    <3>1. place' = [place EXCEPT ![j] = w] /\ UNCHANGED <<ready, nodes, servers>> /\ Runs(w)
      BY <2>5 DEF Schedule, Open, Runs, cloudVars
    <3>2. Runs(place'[i])
      BY <1>2, <2>0, <3>1
    <3> QED
      BY <3>1, <3>2 DEF Runs, Ready, Named
  <2> QED
    BY <2>1, <2>2, <2>3, <2>4, <2>5, PlacesMove
<1>3. ASSUME pc' = "deleteNode", NEW nd \in Named(nodes', at'), nd.cordoned PROVE On(at)' = {}
  <2>1. CASE Drained
    <3>1. at' = at /\ nodes' = nodes /\ place' = place
      BY <2>1 DEF Drained, Go, runVars, databaseVars
    <3>2. On(at) = {}
      BY <1>3, <2>1, <3>1 DEF Drained, Named
    <3> QED
      BY <3>1, <3>2 DEF On
  <2>2. CASE Cordon
    <3>1. Named(nodes, at) = {} /\ at' = at
      BY <1>3, <2>2 DEF Cordon, Go, runVars
    <3>2. \A md \in nodes' : md.name # at
      BY <1>0, <2>2, <3>1, CordonIs DEF Named
    <3> QED
      BY <1>3, <3>1, <3>2 DEF Named
  <2>3. CASE pc = "deleteNode"
    <3>0. UNCHANGED vars \/ Environment
      BY <1>3, <2>3, Stays DEF Evict
    <3>1. at' = at
      BY <3>0 DEF vars, runVars, Environment, Fail, Recover, Orphaned, Schedule, KubeletRestart, NodeForgotten
    <3>2. nd \in Named(nodes, at)
      <4>1. CASE KubeletRestart
        <5>1. PICK s \in servers :
                nodes' = nodes \cup {[name |-> s.name, key |-> s.key, cordoned |-> FALSE]}
          BY <4>1 DEF KubeletRestart
        <5> QED
          BY <1>3, <3>1, <5>1 DEF Named
      <4>2. CASE UNCHANGED nodes \/ NodeForgotten
        BY <1>3, <3>1, <4>2 DEF Named, NodeForgotten
      <4> QED
        BY <3>0, <4>1, <4>2 DEF Environment, vars, Fail, Recover, Orphaned, Schedule
    <3>3. On(at) = {}
      BY <1>0, <1>3, <2>3, <3>2 DEF PlaceInv
    <3>4. ASSUME NEW j \in Instances, place'[j] = at PROVE FALSE
      <4>0. place[j] # at /\ at # 0 /\ place \in [Instances -> 0..N]
        BY <1>0, <3>3, ResetAssumption DEF On, TypeOK, Workers
      <4>1. ~Open(at)
        BY <1>0, <1>3, <3>2 DEF Open, Named, ApartInv
      <4>2. CASE UNCHANGED place
        BY <3>4, <4>0, <4>2
      <4>3. ASSUME NEW i \in Instances, Orphaned(i) PROVE FALSE
        BY <3>4, <4>0, <4>3 DEF Orphaned
      <4>4. ASSUME NEW i \in Instances, NEW w \in Workers, Schedule(i, w) PROVE FALSE
        BY <3>4, <4>0, <4>1, <4>4 DEF Schedule
      <4> QED
        BY <3>0, <4>2, <4>3, <4>4 DEF Environment, vars, databaseVars, Fail, Recover,
           KubeletRestart, NodeForgotten
    <3> QED
      BY <3>1, <3>4 DEF On
  <2>4. ASSUME Leave PROVE Drained \/ Cordon \/ pc = "deleteNode"
    BY <1>3, <2>4 DEF Leave, WaitDatabases, PlanReplace, DatabaseGate, LastReadyWorker, Evict,
       DeleteNode, Unpin, Go
  <2>5. ASSUME Build PROVE FALSE
    BY <1>3, <2>5 DEF Build, Replace, CheckNode, Create, PinCreated, Join, NodeReady, End, Go
  <2>6. ASSUME Start \/ Refuse \/ Stop \/ ReplaceFails PROVE FALSE
    BY <1>3, <2>6 DEF Start, StartReset, NodeReplace, NodeAdd, Begin, Refuse, Stop, ReplaceFails,
       EndEarly, End
  <2>7. ASSUME UNCHANGED vars \/ Environment PROVE pc = "deleteNode"
    BY <1>3, <2>7 DEF vars, Environment, Fail, Recover, Orphaned, Schedule, KubeletRestart,
       NodeForgotten
  <2> QED
    BY <2>1, <2>2, <2>3, <2>4, <2>5, <2>6, <2>7 DEF Next
<1> QED
  BY <1>2, <1>3 DEF PlaceInv

-----------------------------------------------------------------------------
(* What is down is exposed.                                                *)

LEMMA ExposedStays ==
  ASSUME RInv, Environment, pc # "idle"
  PROVE  /\ Instances \ ready \subseteq exposed => (Instances \ ready)' \subseteq exposed'
         /\ (Instances \ ready) \cup On(at) \subseteq exposed => On(at)' \subseteq exposed'
<1>0. /\ ready \subseteq Instances /\ place \in [Instances -> 0..N] /\ at \in Workers /\ at # 0
      /\ \A nd \in nodes : nd.name # 0
      /\ \A i \in ready : Runs(place[i])
  BY ResetAssumption DEF RInv, TypeOK, Node, Workers, PlaceInv
<1>1. ASSUME NEW i \in Instances, Fail(i)
      PROVE  ready' = ready \ {i} /\ exposed' = exposed \cup {i} /\ place' = place /\ at' = at
  BY <1>1 DEF Fail
<1>2. ASSUME NEW i \in Instances, Recover(i)
      PROVE  ready' = ready \cup {i} /\ UNCHANGED <<exposed, place, at>>
  BY <1>2 DEF Recover, runVars
<1>3. ASSUME NEW i \in Instances, Orphaned(i)
      PROVE  /\ place' = [place EXCEPT ![i] = 0] /\ ready' = ready
             /\ UNCHANGED <<exposed, at>>
  <2>1. i \notin ready
    BY <1>0, <1>3 DEF Orphaned, Runs
  <2> QED
    BY <1>3, <2>1 DEF Orphaned, runVars
<1>4. ASSUME NEW i \in Instances, NEW w \in Workers, Schedule(i, w)
      PROVE  /\ i \notin ready /\ place' = [place EXCEPT ![i] = w]
             /\ UNCHANGED <<ready, exposed, at>>
  BY <1>0, <1>4 DEF Schedule, runVars, Runs, Named
<1>5. CASE KubeletRestart \/ NodeForgotten
  BY <1>5 DEF KubeletRestart, NodeForgotten, databaseVars, runVars, On
<1>6. CASE \E i \in Instances : Fail(i) \/ Recover(i)
  BY <1>1, <1>2, <1>6 DEF On
<1>7. CASE \E i \in Instances : Orphaned(i)
  BY <1>0, <1>3, <1>7 DEF On
<1>8. CASE \E i \in Instances : \E w \in Workers : Schedule(i, w)
  BY <1>0, <1>4, <1>8 DEF On
<1> QED
  BY <1>5, <1>6, <1>7, <1>8 DEF Environment

LEMMA ExposedKept == ASSUME RInv, [Next]_vars PROVE ExposedInv'
<1>0. TypeOK /\ ExposedInv
  BY DEF RInv
<1> USE DEF Leaving, Rebuilding, LosesOnlyItsOwn, ExposedInv
<1>1. CASE Start
  BY <1>1 DEF Start, StartReset, NodeReplace, NodeAdd, Begin
<1>2. CASE WaitDatabases \/ PlanReplace
  BY <1>2 DEF WaitDatabases, PlanReplace, Go
<1>3. CASE DatabaseGate
  <2>1. Instances \subseteq ready
    BY <1>3 DEF DatabaseGate, AllHealthy, Healthy
  <2>2. exposed' = On(at)' /\ Instances \subseteq ready' /\ pc' = "nodes"
    BY <1>3, <2>1 DEF DatabaseGate, On, databaseVars
  <2> QED
    BY <2>2
<1>4. CASE LastReadyWorker \/ Cordon \/ Drained \/ DeleteNode \/ Unpin
  <2>1. UNCHANGED <<databaseVars, runVars>> /\ Leaving /\ pc' # "checkNode" /\ pc' # "create"
    BY <1>4 DEF LastReadyWorker, Cordon, Drained, DeleteNode, Unpin, Go
  <2>2. Instances \ ready \subseteq exposed /\ On(at) \subseteq exposed
    BY <1>0, <2>1
  <2> QED
    BY <2>1, <2>2 DEF databaseVars, runVars, On
<1>5. ASSUME NEW i \in Instances, Evict(i) PROVE ExposedInv'
  <2>1. /\ pc = "drain" /\ pc' = "drain" /\ UNCHANGED <<at, exposed, cmd>>
        /\ i \in On(at) /\ ready' = ready \ {i} /\ place' = [place EXCEPT ![i] = 0]
    BY <1>5 DEF Evict, On, runVars
  <2>2. Instances \ ready \subseteq exposed /\ On(at) \subseteq exposed
    BY <1>0, <2>1
  <2>3. at # 0 /\ place \in [Instances -> 0..N]
    BY <1>0, ResetAssumption DEF TypeOK, Workers
  <2>4. On(at)' \subseteq On(at)
    BY <2>1, <2>3 DEF On
  <2> QED
    BY <2>1, <2>2, <2>4
<1>6. CASE Replace
  <2>1. /\ ready' = ready \ On(at) /\ pc = "replace" /\ pc' = "pin" /\ exposed' = exposed
    BY <1>6 DEF Replace, Destroyed, Go, runVars
  <2>2. Instances \ ready \subseteq exposed /\ On(at) \subseteq exposed
    BY <1>0, <2>1
  <2> QED
    BY <2>1, <2>2
<1>7. CASE CheckNode \/ Create
  BY <1>0, <1>7 DEF CheckNode, Create, Go, runVars
<1>8. CASE PinCreated \/ Join
  BY <1>0, <1>8 DEF PinCreated, Join, Go, runVars, databaseVars
<1>9. CASE NodeReady
  BY <1>9 DEF NodeReady, End
<1>10. CASE Refuse \/ Stop \/ ReplaceFails
  BY <1>10 DEF Refuse, Stop, ReplaceFails, EndEarly, End
<1>11. CASE Environment
  <2>1. pc' = pc /\ cmd' = cmd
    BY <1>11 DEF Environment, Fail, Recover, Orphaned, Schedule, KubeletRestart, NodeForgotten, runVars
  <2>2. CASE pc = "idle"
    BY <2>1, <2>2
  <2>3. CASE pc # "idle"
    BY <1>0, <1>11, <2>1, <2>3, ExposedStays
  <2> QED
    BY <2>2, <2>3
<1>12. CASE UNCHANGED vars
  BY <1>0, <1>12 DEF vars, databaseVars, runVars, On
<1> QED
  BY <1>1, <1>2, <1>3, <1>4, <1>5, <1>6, <1>7, <1>8, <1>9, <1>10, <1>11, <1>12 DEF Next, Leave, Build

-----------------------------------------------------------------------------
(* What the run read, and the pins.                                        *)

(* Only the server of the Worker a run works on changes.                   *)
LEMMA OthersKeep ==
  ASSUME RInv, [Next]_vars, NEW w, w # at
  PROVE  Named(servers, w)' = Named(servers, w)
<1>0. TypeOK /\ ApartInv
  BY DEF RInv
<1>1. ASSUME NEW others \in SUBSET servers, NewServer(others), servers \ Named(servers, at) \subseteq others
      PROVE  Named(servers, w)' = Named(servers, w)
  <2>1. PICK s \in servers' : servers' = others \cup {s} /\ s.name = at
    BY <1>0, <1>1, NewIs
  <2> QED
    BY <1>1, <2>1 DEF Named
<1>2. CASE Replace \/ Create
  BY <1>1, <1>2 DEF Replace, Create
<1>3. CASE Join
  <2>1. PICK s \in servers, t \in servers' : /\ servers' = (servers \ {s}) \cup {t}
                                             /\ s.name = at /\ t.name = at
    BY <1>0, <1>3, JoinIs
  <2> QED
    BY <2>1 DEF Named
<1>4. CASE UNCHANGED servers \/ ReplaceFails
  BY <1>4 DEF ReplaceFails, Named
<1> QED
  BY <1>2, <1>3, <1>4, ServersMove

(* A step that goes on with the same Worker and leaves the servers.        *)
LEMMA SameServers ==
  ASSUME [Next]_vars, pc # "replace", pc # "create", pc # "join"
  PROVE  servers' = servers
BY ServersMove DEF Replace, Create, ReplaceFails, Join

LEMMA SeenKept == ASSUME RInv, [Next]_vars PROVE SeenInv'
<1>0. /\ TypeOK /\ ApartInv /\ SeenInv
      /\ \A o \in seen : o.key \in Nat
      /\ at \in Nat
  BY ResetAssumption DEF RInv, TypeOK, Server, Workers
<1>1. made \in Nat /\ made' \in Nat /\ made <= made'
  BY ServersApart
<1>2. CASE Start
  <2>1. seen' = servers /\ servers' = servers /\ made' = made
    BY <1>2 DEF Start, StartReset, NodeReplace, NodeAdd, Begin, cloudVars
  <2>2. pc' \in {"checkNode", "create"} => Named(servers, at') = {}
    BY <1>2 DEF Start, StartReset, NodeReplace, NodeAdd, Begin
  <2> QED
    BY <1>0, <2>1, <2>2 DEF SeenInv, ApartInv, Named
<1>3. CASE pc' = "idle" /\ seen' = {}
  BY <1>3 DEF SeenInv, Before
<1>4. CASE NodeReady /\ pc' = "wait"
  <2>1. servers' = servers /\ seen' = seen /\ made' = made /\ at' = at + 1 /\ pc = "ready"
    BY <1>4 DEF NodeReady, End, cloudVars
  <2>2. at' \in Workers /\ at' > at
    BY <1>0, <1>4, <2>1, ResetAssumption DEF NodeReady, More, TypeOK, Workers, End
  <2>3. \A w \in Workers : w > at' => w > at
    BY <1>0, <2>1 DEF Workers
  <2>4. \A w \in Workers : w > at => Named(seen, w) = Named(servers, w)
    BY <1>0, <2>1 DEF SeenInv
  <2> QED
    BY <1>0, <1>4, <2>1, <2>2, <2>3, <2>4 DEF SeenInv, Named
<1>5. CASE UNCHANGED <<at, seen>> /\ ~(pc = "idle" /\ pc' # "idle")
  <2>1. \A o \in seen : o.key <= made'
    BY <1>0, <1>1 DEF SeenInv
  <2>2. ASSUME pc' # "idle", NEW w \in Workers, w > at' PROVE Named(seen, w)' = Named(servers, w)'
    <3>1. w # at /\ Named(seen, w) = Named(servers, w)
      BY <1>0, <1>5, <2>2 DEF SeenInv, Workers
    <3>2. Named(seen, w)' = Named(seen, w)
      BY <1>5 DEF Named
    <3> QED
      BY <3>1, <3>2, OthersKeep
  <2>3. pc' \in Before \cup {"checkNode", "create"}
          => servers' = servers /\ (pc \in Before <=> pc' \in Before) /\ pc # "idle"
    <3>1. pc' \in Before \cup {"checkNode", "create"}
            => /\ ~Replace /\ ~Create /\ ~Join /\ ~ReplaceFails
      BY DEF Replace, Create, Join, ReplaceFails, EndEarly, End, Go, Before
    <3>2. ASSUME pc' \in Before \cup {"checkNode", "create"}, ~Start, ~NodeReady
          PROVE  pc \in Before <=> pc' \in Before
      BY <3>1, <3>2, RunMove DEF Moves, Before, Unpin, PinCreated, Go
    <3>3. ~Start
      BY <1>5 DEF Start, StartReset, NodeReplace, NodeAdd, Begin
    <3>4. pc' \in Before \cup {"checkNode", "create"} => ~NodeReady
      <4>1. at + 1 # at
        BY <1>0
      <4> QED
        BY <1>5, <4>1 DEF NodeReady, End, Before
    <3>5. pc' # "idle" => pc # "idle"
      BY <1>5
    <3> QED
      BY <3>1, <3>2, <3>3, <3>4, <3>5, ServersMove DEF Before
  <2>4. pc' \in {"checkNode", "create"} => pc \in {"checkNode", "create"}
    BY <1>5, RunMove DEF Moves, Start, StartReset, NodeReplace, NodeAdd, Begin, Unpin, Replace,
       Create, PinCreated, Join, NodeReady, Go, End
  <2>5. pc' \in Before => Named(seen', at') = Named(servers', at')
    BY <1>0, <1>5, <2>3 DEF SeenInv
  <2>6. pc' \in {"checkNode", "create"} => Named(servers', at') = {}
    BY <1>0, <1>5, <2>3, <2>4 DEF SeenInv
  <2> QED
    BY <2>1, <2>2, <2>5, <2>6, <1>5 DEF SeenInv, Named
<1>6. pc = "idle" /\ pc' # "idle" => Start
  BY RunMove DEF Moves, Unpin, Replace, Create, PinCreated, Join, NodeReady, Go
<1> QED
  BY <1>2, <1>3, <1>4, <1>5, <1>6, RunMove DEF NodeReady, End, Unpin, Replace, Create, PinCreated, Join, Go, runVars

LEMMA PinKept == ASSUME RInv, [Next]_vars PROVE PinInv'
<1>0. /\ TypeOK /\ ApartInv /\ PinInv /\ SeenInv
      /\ \A x \in pins : \E s \in servers : s.ip = x.ip /\ s.key = x.key
  BY DEF RInv, PinInv, PinsOfServers
<1>1. ASSUME NEW x \in pins PROVE \E t \in servers' : t.ip = x.ip /\ t.key = x.key
  <2>1. PICK s \in servers : s.ip = x.ip /\ s.key = x.key
    BY <1>0
  <2>2. CASE (Replace \/ ReplaceFails) /\ s.name = at
    BY <1>0, <2>1, <2>2 DEF PinInv, Named, Replace, ReplaceFails
  <2> QED
    BY <2>1, <2>2, ServersStay
<1>2. PinsOfServers'
  <2>1. CASE UNCHANGED pins \/ Unpin
    BY <1>1, <2>1 DEF PinsOfServers, Unpin
  <2>2. CASE PinCreated
    <3>1. PICK s \in servers : /\ servers' = servers
                               /\ pins' = {x \in pins : x.ip # s.ip} \cup {[ip |-> s.ip, key |-> s.key]}
      BY <2>2 DEF PinCreated, Named
    <3> QED
      BY <1>0, <3>1 DEF PinsOfServers
  <2> QED
    BY <2>1, <2>2, PinsMove
<1>3. ASSUME pc' = "replace", NEW x \in pins', NEW s \in servers', s.name = at' PROVE x.ip # s.ip
  <2>1. CASE pc = "replace"
    <3>1. UNCHANGED <<servers, pins, at>>
      BY <1>3, <2>1, Stays DEF Evict, vars, cloudVars, runVars, Environment, Fail, Recover, Orphaned,
         Schedule, KubeletRestart, NodeForgotten
    <3> QED
      BY <1>0, <1>3, <2>1, <3>1 DEF PinInv, Named
  <2>2. CASE Unpin
    <3>1. /\ pins' = {y \in pins : \A t \in Named(seen, at) : y.ip # t.ip}
          /\ servers' = servers /\ at' = at
      BY <2>2 DEF Unpin, Go, runVars
    <3>2. Named(seen, at) = Named(servers, at)
      BY <1>0, <2>2 DEF SeenInv, Before, Unpin
    <3>3. s \in Named(seen, at)
      BY <1>3, <3>1, <3>2 DEF Named
    <3> QED
      BY <1>3, <3>1, <3>3
  <2> QED
    BY <1>3, <2>1, <2>2, RunMove DEF Moves, Start, StartReset, NodeReplace, NodeAdd, Begin, Replace,
       Create, PinCreated, Join, NodeReady, Go, End
<1> QED
  BY <1>2, <1>3 DEF PinInv, Named

-----------------------------------------------------------------------------
(* The Workers a reset has passed.                                         *)

LEMMA ReplacedStays ==
  ASSUME RInv, [Next]_vars, NEW w \in Workers, w # at, Replaced(w), seen' = seen
  PROVE  Replaced(w)'
<1>0. TypeOK /\ ApartInv /\ SeenInv
  BY DEF RInv
<1>1. PICK s \in Named(servers, w) : /\ \A o \in seen : o.key # s.key
                                     /\ [ip |-> s.ip, key |-> s.key] \in pins
                                     /\ \E nd \in Named(nodes, w) : nd.key = s.key
  BY DEF Replaced
<1>2. s \in Named(servers, w)' /\ s \in servers /\ s.name = w
  BY <1>1, OthersKeep DEF Named
<1>3. \A t \in Named(servers, at) : t.ip # s.ip
  BY <1>0, <1>2 DEF ApartInv, Named
<1>4. [ip |-> s.ip, key |-> s.key] \in pins'
  <2>1. CASE Unpin
    <3>1. Named(seen, at) = Named(servers, at)
      BY <1>0, <2>1 DEF SeenInv, Before, Unpin
    <3> QED
      BY <1>1, <1>3, <2>1, <3>1 DEF Unpin
  <2>2. CASE PinCreated
    BY <1>1, <1>3, <2>2 DEF PinCreated
  <2> QED
    BY <1>1, <2>1, <2>2, PinsMove
<1>5. \E md \in Named(nodes', w) : md.key = s.key
  <2>1. PICK nd \in nodes : nd.name = w /\ nd.key = s.key
    BY <1>1 DEF Named
  <2>2. Ready(nd)
    BY <1>0, <1>2, <2>1 DEF Ready, ApartInv
  <2> QED
    BY <2>1, <2>2, NodesStay DEF Named
<1> QED
  BY <1>1, <1>2, <1>4, <1>5 DEF Replaced, Named

LEMMA PassesIt == ASSUME RInv, cmd = "reset", pc = "ready", IsReady PROVE Replaced(at)
<1>1. PICK s \in Named(servers, at), nd \in Named(nodes, at) : nd.key = s.key
  BY DEF IsReady
<1>2. \A o \in seen : o.key # s.key
  BY <1>1 DEF RInv, PassedInv
<1>3. [ip |-> s.ip, key |-> s.key] \in pins
  BY <1>1 DEF RInv, PassedInv
<1> QED
  BY <1>1, <1>2, <1>3 DEF Replaced

LEMMA PassedKept == ASSUME RInv, [Next]_vars PROVE PassedInv'
<1>0. /\ TypeOK /\ ApartInv /\ ExposedInv /\ SeenInv /\ PassedInv
      /\ \A o \in seen : o.key \in Nat /\ o.key <= made
      /\ at \in Workers /\ at \in Nat /\ made \in Nat
  BY ResetAssumption DEF RInv, TypeOK, Server, Workers, SeenInv
<1>1. CASE Start
  <2>1. ASSUME cmd' = "reset" PROVE StartReset
    BY <1>1, <2>1 DEF Start, NodeReplace, NodeAdd, Begin
  <2>2. ASSUME StartReset
        PROVE  /\ pc' = "plan" /\ at' = 1 /\ last' = N /\ seen' = servers
               /\ \A w \in Workers : Named(servers, w) # {}
    BY <2>2 DEF StartReset, Begin
  <2>3. pc' # "ready" /\ \A w \in Workers : ~(w < 1)
    BY <1>1 DEF Start, StartReset, NodeReplace, NodeAdd, Begin, Workers
  <2> QED
    BY <2>1, <2>2, <2>3 DEF PassedInv, Named
<1>2. CASE pc' = "idle" /\ cmd' = "replace"
  BY <1>2 DEF PassedInv
<1>3. CASE NodeReady /\ pc' = "wait"
  <2>1. /\ UNCHANGED <<servers, nodes, pins, cmd, last, seen>> /\ at' = at + 1 /\ pc = "ready"
        /\ IsReady
    BY <1>3 DEF NodeReady, End, cloudVars
  <2>2. ASSUME cmd = "reset" PROVE Replaced(at)
    BY <2>1, <2>2, PassesIt
  <2>3. ASSUME cmd = "reset" PROVE \A w \in Workers : w < at + 1 => Replaced(w)
    <3>1. \A w \in Workers : w < at + 1 => w < at \/ w = at
      BY <1>0 DEF Workers
    <3> QED
      BY <1>0, <2>1, <2>2, <2>3, <3>1 DEF PassedInv
  <2>4. \A w : Replaced(w)' <=> Replaced(w)
    BY <2>1 DEF Replaced, Named
  <2>5. cmd = "reset" => last = N /\ \A w \in Workers : Named(seen, w) # {}
    BY <1>0, <2>1 DEF PassedInv
  <2> QED
    BY <1>3, <2>1, <2>3, <2>4, <2>5 DEF PassedInv, Named
<1>4. CASE UNCHANGED <<cmd, at, last, seen>> /\ ~(pc = "idle" /\ pc' # "idle")
  <2>1. ASSUME cmd' = "reset", pc' # "idle"
        PROVE  /\ last' = N /\ \A w \in Workers : Named(seen', w) # {}
               /\ \A w \in Workers : w < at' => Replaced(w)'
    <3>1. last = N /\ \A w \in Workers : Named(seen, w) # {}
      BY <1>0, <1>4, <2>1 DEF PassedInv
    <3>2. \A w \in Workers : w < at => Replaced(w) /\ w # at
      BY <1>0, <1>4, <2>1 DEF PassedInv, Workers
    <3> QED
      BY <1>4, <3>1, <3>2, ReplacedStays DEF Named
  <2>2. pc' \in {"pin", "join", "ready"} => pc = pc' \/ Replace \/ Create \/ PinCreated \/ Join
    BY <1>4, RunMove DEF Moves, Start, StartReset, NodeReplace, NodeAdd, Begin, Unpin, NodeReady, Go, End
  <2>3. ASSUME cmd' = "reset", pc' \in {"pin", "join", "ready"}, NEW t \in servers', t.name = at',
               NEW o \in seen'
        PROVE  o.key # t.key
    <3>1. CASE t.key = made + 1
      BY <1>0, <1>4, <2>3, <3>1
    <3>2. CASE \E s \in servers : t.name = s.name /\ t.key = s.key
      <4>1. ~Create
        BY <1>0, <1>4, <2>3 DEF Create, ExposedInv
      <4>2. ASSUME Replace PROVE FALSE
        <5>1. PICK s \in servers' : /\ servers' = (servers \ Named(servers, at)) \cup {s}
                                    /\ s.key = made + 1
          BY <1>0, <4>2, NewIs DEF Replace
        <5>2. t = s
          BY <1>4, <2>3, <5>1 DEF Named
        <5> QED
          BY <1>0, <3>2, <5>1, <5>2 DEF ApartInv, TypeOK, Server
      <4>3. pc \in {"pin", "join", "ready"}
        BY <2>2, <2>3, <4>1, <4>2 DEF PinCreated, Join
      <4> QED
        BY <1>0, <1>4, <2>3, <3>2, <4>3 DEF PassedInv, Named
    <3> QED
      BY <3>1, <3>2, ServersAfter
  <2>4. ASSUME pc' = "ready", NEW t \in servers', t.name = at' PROVE [ip |-> t.ip, key |-> t.key] \in pins'
    <3>1. CASE pc = "ready"
      <4>1. UNCHANGED <<servers, pins, at>>
        BY <2>4, <3>1, Stays DEF Evict, vars, cloudVars, runVars, Environment, Fail, Recover, Orphaned,
           Schedule, KubeletRestart, NodeForgotten
      <4> QED
        BY <1>0, <2>4, <3>1, <4>1 DEF PassedInv, Named
    <3>2. CASE Join
      <4>1. PICK u \in servers' : u.name = at /\ [ip |-> u.ip, key |-> u.key] \in pins
        BY <1>0, <3>2, JoinIs
      <4>2. u = t
        BY <1>4, <2>4, <4>1, ServersApart
      <4> QED
        BY <3>2, <4>1, <4>2 DEF Join
    <3> QED
      BY <2>2, <2>4, <3>1, <3>2 DEF Replace, Create, PinCreated, Go
  <2> QED
    BY <2>1, <2>3, <2>4 DEF PassedInv, Named
<1>5. pc = "idle" /\ pc' # "idle" => Start
  BY RunMove DEF Moves, Unpin, Replace, Create, PinCreated, Join, NodeReady, Go
<1> QED
  BY <1>1, <1>2, <1>3, <1>4, <1>5, RunMove DEF NodeReady, End, Unpin, Replace, Create, PinCreated, Join, Go, runVars

-----------------------------------------------------------------------------
(* The invariant, and what follows from it.                                *)

LEMMA InitRInv == Init => RInv
<1> SUFFICES ASSUME Init PROVE RInv
  OBVIOUS
<1>0. TypeOK /\ Workers \subseteq Nat /\ \A w \in Workers : w <= N
  BY InitTypes, ResetAssumption DEF Workers
<1>1. PICK i \in [Workers -> IPs], P \in SUBSET Workers :
        /\ \A v, w \in Workers : v # w => i[v] # i[w]
        /\ servers = {[name |-> w, key |-> w, ip |-> i[w], joined |-> TRUE] : w \in Workers}
        /\ pins = {[ip |-> i[w], key |-> w] : w \in P}
  BY DEF Init
<1>2. /\ nodes = {[name |-> w, key |-> w, cordoned |-> FALSE] : w \in Workers}
      /\ made = N /\ pc = "idle" /\ seen = {} /\ place \in [Instances -> Workers]
      /\ ready \subseteq Instances
  BY DEF Init
<1>3. ASSUME NEW s \in servers PROVE s.name \in Workers /\ s.key = s.name /\ s.ip = i[s.name] /\ s.joined
  BY <1>1
<1>4. ASSUME NEW nd \in nodes PROVE nd.name \in Workers /\ nd.key = nd.name
  BY <1>2
<1>5. ASSUME NEW s \in servers, NEW t \in servers, s.name = t.name PROVE s = t
  <2>1. PICK v \in Workers : s = [name |-> v, key |-> v, ip |-> i[v], joined |-> TRUE]
    BY <1>1
  <2>2. PICK w \in Workers : t = [name |-> w, key |-> w, ip |-> i[w], joined |-> TRUE]
    BY <1>1
  <2>3. s.name = v /\ t.name = w
    BY <2>1, <2>2
  <2> QED
    BY <1>5, <2>1, <2>2, <2>3
<1>6. ASSUME NEW s \in nodes, NEW t \in nodes, s.name = t.name PROVE s = t
  <2>1. PICK v \in Workers : s = [name |-> v, key |-> v, cordoned |-> FALSE]
    BY <1>2
  <2>2. PICK w \in Workers : t = [name |-> w, key |-> w, cordoned |-> FALSE]
    BY <1>2
  <2>3. s.name = v /\ t.name = w
    BY <2>1, <2>2
  <2> QED
    BY <1>6, <2>1, <2>2, <2>3
<1>7. ApartInv
  BY <1>0, <1>1, <1>2, <1>3, <1>4, <1>5, <1>6 DEF ApartInv
<1>8. ASSUME NEW w \in Workers
      PROVE  \E nd \in nodes, s \in servers : nd.name = w /\ s.name = w /\ s.joined
  <2>1. PICK nd : nd = [name |-> w, key |-> w, cordoned |-> FALSE]
    OBVIOUS
  <2>2. PICK s : s = [name |-> w, key |-> w, ip |-> i[w], joined |-> TRUE]
    OBVIOUS
  <2>3. nd.name = w /\ s.name = w /\ s.joined
    BY <2>1, <2>2
  <2> QED
    BY <1>1, <1>2, <2>1, <2>2, <2>3
<1>9. PlaceInv
  BY <1>2, <1>8 DEF PlaceInv, Runs, Ready, Named
<1>10. PinInv
  <2>1. ASSUME NEW x \in pins PROVE \E s \in servers : s.ip = x.ip /\ s.key = x.key
    <3>1. PICK w \in Workers : x = [ip |-> i[w], key |-> w]
      BY <1>1, <2>1
    <3>2. PICK s : s = [name |-> w, key |-> w, ip |-> i[w], joined |-> TRUE]
      OBVIOUS
    <3>3. x.ip = i[w] /\ x.key = w /\ s.ip = i[w] /\ s.key = w
      BY <3>1, <3>2
    <3> QED
      BY <1>1, <3>2, <3>3
  <2> QED
    BY <1>2, <2>1 DEF PinInv, PinsOfServers
<1>11. ExposedInv /\ SeenInv /\ PassedInv
  BY <1>2 DEF ExposedInv, LosesOnlyItsOwn, Leaving, Rebuilding, SeenInv, Before, PassedInv
<1> QED
  BY <1>0, <1>7, <1>9, <1>10, <1>11 DEF RInv

LEMMA RInvKept == RInv /\ [Next]_vars => RInv'
<1> SUFFICES ASSUME RInv, [Next]_vars PROVE RInv'
  OBVIOUS
<1> QED
  BY TypesKept, ApartKept, PlaceKept, ExposedKept, SeenKept, PinKept, PassedKept DEF RInv

LEMMA RInvHolds == Spec => []RInv
<1> QED
  BY InitRInv, RInvKept, PTL DEF Spec

(* While a Worker is replaced, every instance that is not ready was on it  *)
(* at the database gate or failed on its own since: the wait between two   *)
(* Workers and the gate keep a reset from having instances of two Workers  *)
(* down (reset.go:27, node_replace.go:210).                                *)
THEOREM OnlyItsOwn == Spec => []LosesOnlyItsOwn
<1>1. RInv => LosesOnlyItsOwn
  BY DEF RInv, ExposedInv
<1> QED
  BY <1>1, RInvHolds, PTL

(* No pin names another key than that of the server at its address, in     *)
(* whatever order a reset drops the old addresses and Hetzner hands them   *)
(* out again (reset.go:54, node_replace.go:147).                           *)
THEOREM PinsStay == Spec => []PinsOfServers
<1>1. RInv => PinsOfServers
  BY DEF RInv, PinInv
<1> QED
  BY <1>1, RInvHolds, PTL

LEMMA StepKeepsServing ==
  ASSUME RInv, [Next]_vars, NEW i \in Instances, Serves(DatabaseOf[i]), ~Serves(DatabaseOf[i])'
  PROVE  (\E j \in Instances : Fail(j)) \/ Returned
<1>0. /\ TypeOK /\ ApartInv /\ ready \subseteq Instances
      /\ \A j \in ready : Runs(place[j])
  BY DEF RInv, TypeOK, PlaceInv
<1>1. PICK k \in ready : DatabaseOf[k] = DatabaseOf[i]
  BY DEF Serves
<1>2. \A j \in ready' : DatabaseOf[j] # DatabaseOf[i]
  BY DEF Serves
<1>3. CASE UNCHANGED ready
  BY <1>1, <1>2, <1>3
<1>4. ASSUME NEW j \in Instances, Evict(j) PROVE FALSE
  BY <1>1, <1>2, <1>4 DEF Evict
<1>5. ASSUME NEW j \in Instances, Orphaned(j) PROVE FALSE
  <2>1. j \notin ready /\ ready' = ready \ {j}
    BY <1>0, <1>5 DEF Orphaned, Runs
  <2> QED
    BY <1>1, <1>2, <2>1
<1>6. ASSUME NEW j \in Instances, Recover(j) PROVE FALSE
  BY <1>1, <1>2, <1>6 DEF Recover
<1>7. CASE Replace \/ ReplaceFails
  <2>1. ready' = ready \ On(at) /\ pc = "replace"
    BY <1>7 DEF Replace, ReplaceFails, Destroyed
  <2>2. Runs(at)
    BY <1>0, <1>1, <1>2, <2>1 DEF On
  <2>3. PICK s \in servers : s.name = at
    BY <2>2 DEF Runs, Ready, Named
  <2>4. servers' # servers
    <3>1. CASE Replace
      <4>1. servers \ Named(servers, at) \in SUBSET servers /\ NewServer(servers \ Named(servers, at))
        BY <3>1 DEF Replace
      <4>2. PICK t \in servers' : \A o \in servers : o.key # t.key
        BY <1>0, <4>1, NewIs
      <4> QED
        BY <4>2
    <3>2. CASE ReplaceFails
      BY <2>3, <3>2 DEF ReplaceFails, Named
    <3> QED
      BY <1>7, <3>1, <3>2
  <2> QED
    BY <2>1, <2>2, <2>4 DEF Returned
<1> QED
  BY <1>3, <1>4, <1>5, <1>6, <1>7, PlacesMove DEF Schedule

(* A run takes the last ready instance of no database, whatever fails and  *)
(* is rescheduled meanwhile, but with a server whose Node came back after  *)
(* it was deleted (node_replace.go:100).                                   *)
THEOREM KeepsServing == Spec => NeverTheLast
<1>1. RInv /\ [Next]_vars
        => [\A i \in Instances :
              Serves(DatabaseOf[i]) /\ ~Serves(DatabaseOf[i])' => (\E j \in Instances : Fail(j)) \/ Returned]_vars
  BY StepKeepsServing
<1> QED
  BY <1>1, RInvHolds, PTL DEF Spec, NeverTheLast

LEMMA StepReports ==
  ASSUME RInv, [Next]_vars, cmd = "reset", pc # "idle", pc' = "idle"
  PROVE  /\ \A w \in report'.done : Replaced(w)
         /\ \A w \in report'.left : Untouched(w)
<1>0. /\ at \in Nat /\ N \in Nat /\ last = N
      /\ \A w \in Workers : w < at => Replaced(w)
      /\ \A w \in Workers : w > at => Named(seen, w) = Named(servers, w)
      /\ \A w \in Workers : Named(seen, w) # {}
  BY ResetAssumption DEF RInv, TypeOK, PassedInv, SeenInv, Workers
<1>1. CASE EndEarly
  <2>1. report' = StoppedReport
    BY <1>1 DEF EndEarly
  <2>2. report'.done = 1..(at - 1) /\ report'.left = (at + 1)..N
    BY <2>1 DEF StoppedReport
  <2>3. ASSUME NEW w \in 1..(at - 1) PROVE Replaced(w)
    <3>1. w \in Workers /\ w < at
      BY <1>0, ResetAssumption DEF RInv, TypeOK, Workers
    <3> QED
      BY <1>0, <3>1
  <2>4. ASSUME NEW w \in (at + 1)..N PROVE Untouched(w)
    <3>1. w \in Workers /\ w > at
      BY <1>0 DEF Workers
    <3> QED
      BY <1>0, <3>1 DEF Untouched
  <2> QED
    BY <2>2, <2>3, <2>4
<1>2. CASE NodeReady
  <2>1. IsReady /\ pc = "ready" /\ at = last /\ report' = [done |-> Workers, left |-> {}]
    BY <1>2 DEF NodeReady
  <2>2. \A w \in Workers : w < at \/ w = at
    BY <1>0, <2>1 DEF Workers
  <2> QED
    BY <1>0, <2>1, <2>2, PassesIt
<1>3. ASSUME Start \/ Leave PROVE FALSE
  BY <1>3 DEF Start, StartReset, NodeReplace, NodeAdd, Begin, Leave, WaitDatabases, PlanReplace,
     DatabaseGate, LastReadyWorker, Cordon, Evict, Drained, DeleteNode, Unpin, Go
<1>4. ASSUME Replace \/ CheckNode \/ Create \/ PinCreated \/ Join PROVE FALSE
  BY <1>4 DEF Replace, CheckNode, Create, PinCreated, Join, Go
<1>5. ASSUME Environment \/ UNCHANGED vars PROVE FALSE
  BY <1>5 DEF vars, Environment, Fail, Recover, Orphaned, Schedule, KubeletRestart, NodeForgotten
<1> QED
  BY <1>1, <1>2, <1>3, <1>4, <1>5 DEF Next, Build, Refuse, Stop, ReplaceFails

(* Whenever a reset ends, done or stopped, the Workers it calls replaced   *)
(* have another server than it read at its start, pinned and with its Node,*)
(* and those it calls not touched still have theirs (resetStopped,         *)
(* reset.go:82).                                                           *)
THEOREM ReportIsTrue == Spec => ReportHolds
<1>1. RInv /\ [Next]_vars
        => [cmd = "reset" /\ pc # "idle" /\ pc' = "idle"
              => /\ \A w \in report'.done : Replaced(w)
                 /\ \A w \in report'.left : Untouched(w)]_vars
  BY StepReports
<1> QED
  BY <1>1, RInvHolds, PTL DEF Spec, ReportHolds

-----------------------------------------------------------------------------
(* Workers without a server.                                               *)

(* From the check of its plan to the apply, every Worker but the run's own *)
(* has a server.                                                           *)
Checked == {"database", "nodes", "cordon", "drain", "deleteNode", "unpin", "replace", "create"}
OthersHave == \A w \in Workers \ {at} : Named(servers, w) # {}

MissingInv == AtMostOneMissing /\ (pc \in Checked => OthersHave)

(* A Worker that has a server keeps one, but for the Worker of the apply.  *)
LEMMA KeepsOne ==
  ASSUME RInv, [Next]_vars, NEW w \in Workers, Named(servers, w) # {}
  PROVE  Named(servers, w)' # {} \/ ((Replace \/ ReplaceFails) /\ w = at)
<1>1. PICK s \in servers : s.name = w
  BY DEF Named
<1> QED
  BY <1>1, ServersStay DEF Named

(* The plan and the check of a stale Node leave a run with Workers that    *)
(* have servers; no later step takes it to another Worker.                 *)
LEMMA ChecksOthers ==
  ASSUME RInv, MissingInv, [Next]_vars, pc' \in Checked
  PROVE  OthersHave /\ at' = at /\ ~Replace /\ ~ReplaceFails
<1> USE DEF Checked
<1>0. ~Replace /\ ~ReplaceFails
  BY DEF Replace, ReplaceFails, EndEarly, End, Go
<1>1. CASE Start
  BY <1>1 DEF Start, StartReset, NodeReplace, NodeAdd, Begin
<1>2. CASE PlanReplace
  BY <1>0, <1>2 DEF PlanReplace, ReplacesOnly, OthersHave, Go, runVars
<1>3. CASE CheckNode
  BY <1>0, <1>3 DEF CheckNode, OthersHave, Go, runVars
<1>4. CASE pc \in Checked /\ UNCHANGED at
  BY <1>0, <1>4 DEF MissingInv
<1>5. CASE ~Start /\ ~PlanReplace /\ ~CheckNode /\ ~(pc \in Checked /\ UNCHANGED at)
  <2>1. ~Build
    BY <1>0, <1>5 DEF Build, Create, PinCreated, Join, NodeReady, End, Go
  <2>2. ~(UNCHANGED vars \/ Environment)
    BY <1>5 DEF vars, runVars, Environment, Fail, Recover, Orphaned, Schedule, KubeletRestart, NodeForgotten
  <2>3. ~Leave
    BY <1>5 DEF Leave, WaitDatabases, DatabaseGate, LastReadyWorker, Cordon, Evict, Drained, DeleteNode,
       Unpin, Go, runVars
  <2>4. ~(Refuse \/ Stop)
    BY DEF Refuse, Stop, EndEarly, End
  <2> QED
    BY <1>0, <1>5, <2>1, <2>2, <2>3, <2>4 DEF Next
<1> QED
  BY <1>1, <1>2, <1>3, <1>4, <1>5

LEMMA MissingKept == ASSUME RInv, MissingInv, [Next]_vars PROVE MissingInv'
<1>1. pc' \in Checked => OthersHave'
  <2> SUFFICES ASSUME pc' \in Checked, NEW w \in Workers \ {at'} PROVE Named(servers, w)' # {}
    BY DEF OthersHave, Workers
  <2> QED
    BY ChecksOthers, KeepsOne DEF OthersHave
<1>2. AtMostOneMissing'
  <2> SUFFICES ASSUME NEW v \in Workers, NEW w \in Workers,
                      Named(servers, v)' = {}, Named(servers, w)' = {}
               PROVE  v = w
    BY DEF AtMostOneMissing, Workers, Named
  <2>1. CASE Replace \/ ReplaceFails
    <3>1. pc \in Checked
      BY <2>1 DEF Replace, ReplaceFails, Checked
    <3>2. ASSUME NEW u \in Workers, Named(servers, u)' = {} PROVE u = at
      BY <3>1, <3>2, KeepsOne DEF MissingInv, OthersHave
    <3> QED
      BY <3>2
  <2>2. CASE ~Replace /\ ~ReplaceFails
    BY <2>2, KeepsOne DEF MissingInv, AtMostOneMissing
  <2> QED
    BY <2>1, <2>2
<1> QED
  BY <1>1, <1>2 DEF MissingInv

(* The Workers start with a server each, and never more than one of them   *)
(* is without: what a replacement that fails leaves behind keeps the next  *)
(* command, for any other Worker, from its own (provision.PlanReplace,     *)
(* provision.CreateWorkers).                                                *)
THEOREM OneWorkerAtATime == Spec => []AtMostOneMissing
<1>1. Init => MissingInv
  <2> SUFFICES ASSUME Init PROVE MissingInv
    OBVIOUS
  <2>1. ASSUME NEW w \in Workers PROVE Named(servers, w) # {}
    <3>1. PICK i : servers = {[name |-> v, key |-> v, ip |-> i[v], joined |-> TRUE] : v \in Workers}
      BY DEF Init
    <3>2. PICK s : s = [name |-> w, key |-> w, ip |-> i[w], joined |-> TRUE]
      OBVIOUS
    <3>3. s \in servers /\ s.name = w
      BY <3>1, <3>2
    <3> QED
      BY <3>3 DEF Named
  <2>2. pc = "idle"
    BY DEF Init
  <2> QED
    BY <2>1, <2>2 DEF MissingInv, AtMostOneMissing, Checked
<1>2. RInv /\ MissingInv /\ [Next]_vars => MissingInv'
  BY MissingKept
<1>3. MissingInv => AtMostOneMissing
  BY DEF MissingInv
<1> QED
  BY <1>1, <1>2, <1>3, RInvHolds, PTL DEF Spec
-----------------------------------------------------------------------------
(* The Node of a Worker that left, until a kubelet restarts.               *)

GoneInv == restarts = 0 /\ pc \in {"unpin", "replace"} => Named(nodes, at) = {}

(* The counter of restarts only grows.                                     *)
LEMMA RestartsGrow ==
  ASSUME TypeOK, [Next]_vars, restarts' = 0
  PROVE  restarts = 0 /\ ~KubeletRestart
<1>1. restarts \in Nat
  BY DEF TypeOK
<1>2. KubeletRestart => restarts' = restarts + 1
  BY DEF KubeletRestart
<1>3. KubeletRestart \/ UNCHANGED restarts
  BY DEF Next, vars, bounds, Start, StartReset, NodeReplace, NodeAdd, Begin, Leave, WaitDatabases, PlanReplace,
     DatabaseGate, LastReadyWorker, Cordon, Evict, Drained, DeleteNode, Unpin, Build, Replace, CheckNode,
     Create, PinCreated, Join, NodeReady, Refuse, Stop, ReplaceFails, Environment, Fail, Recover, Orphaned,
     Schedule, NodeForgotten
<1> QED
  BY <1>1, <1>2, <1>3

(* A run comes to the unpin from the deletion, and to the apply from the   *)
(* unpin.                                                                  *)
LEMMA ToUnpin ==
  ASSUME [Next]_vars, pc' \in {"unpin", "replace"}
  PROVE  UNCHANGED at /\ (DeleteNode \/ pc \in {"unpin", "replace"})
<1>1. ~Start
  BY DEF Start, StartReset, NodeReplace, NodeAdd, Begin
<1>2. ~(Refuse \/ Stop \/ ReplaceFails)
  BY DEF Refuse, Stop, ReplaceFails, EndEarly, End
<1>3. ~Build
  BY DEF Build, Replace, CheckNode, Create, PinCreated, Join, NodeReady, End, Go
<1>4. Leave => UNCHANGED at /\ (DeleteNode \/ pc \in {"unpin", "replace"})
  BY DEF Leave, WaitDatabases, PlanReplace, DatabaseGate, LastReadyWorker, Cordon, Evict, Drained,
     DeleteNode, Unpin, Go, runVars
<1>5. UNCHANGED vars \/ Environment => UNCHANGED <<pc, at>>
  BY DEF vars, runVars, Environment, Fail, Recover, Orphaned, Schedule, KubeletRestart, NodeForgotten
<1> QED
  BY <1>1, <1>2, <1>3, <1>4, <1>5 DEF Next

LEMMA GoneKept == ASSUME TypeOK, GoneInv, [Next]_vars PROVE GoneInv'
<1> SUFFICES ASSUME restarts' = 0, pc' \in {"unpin", "replace"} PROVE Named(nodes, at)' = {}
  BY DEF GoneInv
<1>1. UNCHANGED at /\ restarts = 0 /\ ~KubeletRestart
  BY ToUnpin, RestartsGrow
<1>2. CASE DeleteNode
  BY <1>1, <1>2 DEF DeleteNode, Named
<1>3. CASE pc \in {"unpin", "replace"}
  <2>1. Named(nodes, at) = {}
    BY <1>1, <1>3 DEF GoneInv
  <2>2. UNCHANGED nodes \/ NodeForgotten
    BY <1>1, <1>3, NodesMove DEF Cordon, DeleteNode, Join
  <2>3. nodes' \subseteq nodes
    BY <2>2 DEF NodeForgotten
  <2> QED
    BY <1>1, <2>1, <2>3 DEF Named
<1> QED
  BY <1>2, <1>3, ToUnpin

(* Until a kubelet restarts, the apply finds no Node of the Worker it      *)
(* replaces (cmd/node_replace.go, "The old Node is gone before the new     *)
(* server exists").                                                        *)
THEOREM NodeGoneUntilRestart == Spec => GoneUntilRestart
<1>1. Init => GoneInv
  BY DEF Init, GoneInv
<1>2. TypeOK /\ GoneInv /\ [Next]_vars => GoneInv'
  BY GoneKept
<1>3. TypeOK /\ GoneInv /\ [Next]_vars
        => [pc = "replace" /\ servers' # servers /\ restarts = 0 => Named(nodes, at) = {}]_vars
  BY DEF GoneInv
<1> QED
  BY <1>1, <1>2, <1>3, ResetTypes, PTL DEF Spec, GoneUntilRestart
=============================================================================
