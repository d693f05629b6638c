------------------------ MODULE WorkerLifecycleProofs ------------------------
(***************************************************************************)
(* Theorems about the Workers' commands, for any Workers, addresses and    *)
(* bounds, and for any number of runs at once.                             *)
(***************************************************************************)
EXTENDS WorkerLifecycle, FiniteSetTheorems, WellFoundedInduction, TLAPS

-----------------------------------------------------------------------------
(* Types.                                                                  *)

WorldTypes ==
  /\ set \subseteq Entry /\ committed \subseteq Entry
  /\ servers \subseteq Server /\ nodes \subseteq Node
  /\ hubFile \subseteq Peer /\ hubLive \subseteq Peer
  /\ pubPins \subseteq Pin /\ vpnPins \subseteq Peer
  /\ serial \in Nat /\ made \in Nat

RunTypes ==
  /\ pc \in [Procs -> Steps]
  /\ cmd \in [Procs -> Commands]
  /\ name \in [Procs -> Names]
  /\ loaded \in [Procs -> SUBSET Entry]
  /\ srv \in [Procs -> SUBSET Server]
  /\ plan \in [Procs -> [serial : Nat, of : SUBSET Nat]]

CountTypes == stops \in Nat /\ restarts \in Nat

(* TypeOK is the types of the world, of the runs and of the counters.      *)
LEMMA Parts == TypeOK <=> WorldTypes /\ RunTypes /\ CountTypes
BY DEF TypeOK, WorldTypes, RunTypes, CountTypes

(* The bounds are numbers, and some Worker has a name.                     *)
LEMMA Bounds ==
  /\ MaxStops \in Nat /\ MaxRestarts \in Nat /\ Addrs \subseteq Nat
  /\ NoName \in Names /\ Cardinality(Built) \in Nat
BY ConstantsAssumption, FS_CardinalityType DEF NoName

(* The lowest of some addresses is one of them (workerset.Next).           *)
LEMMA LowestIs == ASSUME NEW F \in SUBSET Addrs, F # {} PROVE Lowest(F) \in F
<1> DEFINE R == OpToRel(<, Nat)
<1>1. F \in SUBSET Nat
  BY Bounds
<1>2. PICK x \in F : \A y \in F : ~(<<y, x>> \in R)
  <2>1. IsWellFoundedOn(R, Nat)
    BY NatLessThanWellFounded
  <2> HIDE DEF R
  <2> QED
    BY <1>1, <2>1, WFMin
<1>3. \A y \in F : ~(y < x)
  BY <1>1, <1>2 DEF OpToRel
<1>4. \A y \in F : x <= y
  BY <1>1, <1>3
<1> QED
  BY <1>4 DEF Lowest

(* A run that goes on, and one that ends.                                  *)
LEMMA GoTypes == ASSUME RunTypes, NEW p \in Procs, NEW s \in Steps, Go(p, s) PROVE RunTypes'
BY DEF RunTypes, Go, runVars

LEMMA EndTypes == ASSUME RunTypes, NEW p \in Procs, End(p) PROVE RunTypes'
BY Bounds DEF RunTypes, End, Steps, Commands, NoPlan

(* A command that starts.                                                  *)
LEMMA StartTypes == ASSUME TypeOK, NEW p \in Procs, NEW n \in Names, Start(p, n) PROVE TypeOK'
<1>1. PICK c \in Commands, s \in Steps : Begin(p, c, n, s)
  BY DEF Start, NodeAdd, NodeRemove, NodeReplace, Commands, Steps
<1>2. Named(servers, n) \in SUBSET Server
  BY DEF TypeOK, Named
<1>3. RunTypes'
  BY <1>1, <1>2 DEF Begin, TypeOK, RunTypes
<1>4. WorldTypes' /\ CountTypes'
  BY <1>1, Parts DEF Begin, worldVars, fileVars, cloudVars, clusterVars, pinVars, WorldTypes, CountTypes
<1> QED
  BY <1>3, <1>4 DEF TypeOK, RunTypes, WorldTypes, CountTypes

(* A plan, and a server an apply creates.                                  *)
LEMMA PlanTypes ==
  ASSUME WorldTypes, RunTypes, CountTypes, NEW p \in Procs, NEW s \in Steps, Plan(p, s)
  PROVE  WorldTypes' /\ RunTypes' /\ CountTypes'
<1>1. {x.key : x \in Named(servers, name[p])} \in SUBSET Nat
  BY DEF WorldTypes, Named, Server
<1>2. RunTypes'
  BY <1>1 DEF Plan, RunTypes, WorldTypes
<1> QED
  BY <1>2 DEF Plan, WorldTypes, CountTypes, worldVars, fileVars, cloudVars, clusterVars, pinVars

LEMMA NewTypes ==
  ASSUME WorldTypes, RunTypes, CountTypes, NEW p \in Procs, NEW others \in SUBSET servers,
         NewServer(p, others), serial' = serial + 1, pc' = [pc EXCEPT ![p] = "pin"],
         UNCHANGED <<fileVars, clusterVars, pinVars, cmd, name, loaded, plan, stops, restarts>>
  PROVE  WorldTypes' /\ RunTypes' /\ CountTypes'
<1>1. PICK e \in Entries(p), i \in IPs :
        LET s == [name |-> name[p], key |-> made + 1, ip |-> i, addr |-> e.addr, joined |-> FALSE] IN
          /\ servers' = others \cup {s}
          /\ srv' = [srv EXCEPT ![p] = {s}]
          /\ made' = made + 1
  BY DEF NewServer
<1>2. [name |-> name[p], key |-> made + 1, ip |-> i, addr |-> e.addr, joined |-> FALSE] \in Server
  <2>1. name[p] \in Names /\ made + 1 \in Nat /\ e.addr \in Addrs
    BY DEF RunTypes, WorldTypes, Entries, Named, Entry
  <2> QED
    BY <2>1 DEF Server
<1>3. RunTypes'
  BY <1>1, <1>2 DEF RunTypes, Steps
<1>4. servers' \subseteq Server /\ made' \in Nat /\ serial' \in Nat
  <2>1. servers \subseteq Server /\ made \in Nat /\ serial \in Nat
    BY DEF WorldTypes
  <2>2. PICK s \in Server : servers' = others \cup {s}
    BY <1>1, <1>2
  <2>3. made' = made + 1 /\ serial' = serial + 1
    BY <1>1
  <2> QED
    BY <2>1, <2>2, <2>3
<1> QED
  BY <1>3, <1>4 DEF WorldTypes, CountTypes, fileVars, clusterVars, pinVars

(* A kubelet that starts leaves each Node its name, and cordons none.      *)
LEMMA PostsTypes == ASSUME WorldTypes, NEW s \in servers PROVE Posts(s) \subseteq Node
<1>1. [name |-> s.name, key |-> s.key, cordoned |-> FALSE, ready |-> TRUE] \in Node
  BY DEF WorldTypes, Server, Node
<1>2. \A nd \in nodes : nd \in Node /\ [nd EXCEPT !.ready = TRUE] \in Node
  BY DEF WorldTypes, Node
<1> QED
  BY <1>1, <1>2 DEF Posts

LEMMA PostsMove ==
  ASSUME TypeOK, NEW s \in servers
  PROVE  /\ \A x \in Posts(s) : x.cordoned => \E nd \in nodes : nd.name = x.name /\ nd.cordoned
         /\ \A nd \in nodes : \E x \in Posts(s) : x.name = nd.name
<1>1. CASE Named(nodes, s.name) = {}
  <2>1. PICK x : x = [name |-> s.name, key |-> s.key, cordoned |-> FALSE, ready |-> TRUE]
    OBVIOUS
  <2>2. Posts(s) = nodes \cup {x} /\ ~x.cordoned
    BY <1>1, <2>1 DEF Posts
  <2> QED
    BY <2>2
<1>2. CASE Named(nodes, s.name) # {}
  <2>1. Posts(s) = {IF nd.name = s.name THEN [nd EXCEPT !.ready = TRUE] ELSE nd : nd \in nodes}
    BY <1>2 DEF Posts
  <2>2. ASSUME NEW nd \in nodes, NEW x, x = [nd EXCEPT !.ready = TRUE]
        PROVE  x.name = nd.name /\ x.cordoned = nd.cordoned
    BY <2>2 DEF TypeOK, Node
  <2> QED
    BY <2>1, <2>2
<1> QED
  BY <1>1, <1>2

(* The steps of node add keep the types.                                   *)
LEMMA AddTypes == ASSUME TypeOK, NEW p \in Procs, AddStep(p) PROVE TypeOK'
<1> USE DEF fileVars, cloudVars, clusterVars, pinVars, worldVars
<1>0. WorldTypes /\ RunTypes /\ CountTypes
  BY Parts
<1>a. SUFFICES WorldTypes' /\ RunTypes' /\ CountTypes'
  BY DEF TypeOK, WorldTypes, RunTypes, CountTypes
<1>b. Entries(p) \subseteq Entry /\ Named(servers, name[p]) \subseteq Server
  BY <1>0 DEF Entries, Named, WorldTypes, RunTypes
<1>c. ASSUME NEW s \in Server PROVE PeerOf(s) \in Peer
  BY DEF Server, PeerOf, Peer
<1>d. srv[p] \subseteq Server /\ Reached(p) \subseteq servers
  BY <1>0 DEF RunTypes, Reached
<1>1. CASE Declare(p)
  <2>1. Free(loaded[p]) \in SUBSET Addrs
    BY DEF Free
  <2>2. Lowest(Free(loaded[p])) \in Addrs
    BY <1>1, <2>1, LowestIs DEF Declare
  <2>3. set' \subseteq Entry
    BY <1>0, <1>1, <2>2 DEF Declare, RunTypes, Entry
  <2> QED
    BY <1>0, <1>1, <2>3, EndTypes DEF Declare, WorldTypes, CountTypes
<1>2. CASE CheckNoNode(p)
  <2>1. RunTypes'
    BY <1>0, <1>2, GoTypes DEF CheckNoNode, Steps
  <2> QED
    BY <1>0, <1>2, <2>1 DEF CheckNoNode, WorldTypes, CountTypes
<1>3. CASE PlanCreate(p)
  BY <1>0, <1>3, PlanTypes DEF PlanCreate, Steps
<1>4. CASE Create(p)
  BY <1>0, <1>4, NewTypes DEF Create
<1>5. CASE PinCreated(p)
  <2>1. PICK s \in Named(servers, name[p]), own \in srv[p] :
          /\ pubPins' = {x \in pubPins : x.ip # s.ip} \cup {[ip |-> s.ip, key |-> own.key]}
          /\ srv' = [srv EXCEPT ![p] = {s}]
    BY <1>5 DEF PinCreated
  <2>2. [ip |-> s.ip, key |-> own.key] \in Pin
    BY <1>b, <1>d DEF Server, Pin
  <2>3. RunTypes'
    BY <1>0, <1>b, <1>5, <2>1 DEF PinCreated, RunTypes, Steps
  <2> QED
    BY <1>0, <1>5, <2>1, <2>2, <2>3 DEF PinCreated, WorldTypes, CountTypes
<1>6. CASE Build(p)
  <2>1. RunTypes'
    BY <1>0, <1>d, <1>6 DEF Build, RunTypes, WorldTypes, Steps
  <2> QED
    BY <1>0, <1>6, <2>1 DEF Build, WorldTypes, CountTypes
<1>7. CASE HubPeer(p)
  <2>1. RunTypes'
    BY <1>0, <1>7, GoTypes DEF HubPeer, Steps
  <2>2. hubFile' \subseteq Peer
    BY <1>0, <1>7, <1>c, <1>d DEF HubPeer, WorldTypes
  <2> QED
    BY <1>0, <1>7, <2>1, <2>2 DEF HubPeer, WorldTypes, CountTypes
<1>8. CASE HubSet(p)
  <2>1. RunTypes'
    BY <1>0, <1>8, GoTypes DEF HubSet, Steps
  <2>2. hubLive' \subseteq Peer
    BY <1>0, <1>8, <1>c, <1>d DEF HubSet, WorldTypes
  <2> QED
    BY <1>0, <1>8, <2>1, <2>2 DEF HubSet, WorldTypes, CountTypes
<1>9. CASE PinVPN(p)
  <2>1. RunTypes'
    BY <1>0, <1>9, GoTypes DEF PinVPN, Steps
  <2>2. vpnPins' \subseteq Peer
    BY <1>0, <1>9, <1>c, <1>d DEF PinVPN, WorldTypes
  <2> QED
    BY <1>0, <1>9, <2>1, <2>2 DEF PinVPN, WorldTypes, CountTypes
<1>10. CASE Join(p)
  <2>1. RunTypes'
    BY <1>0, <1>10, GoTypes DEF Join, Steps
  <2>2. PICK s \in servers :
          /\ servers' = (servers \ {s}) \cup {[s EXCEPT !.joined = TRUE]}
          /\ nodes' = nodes \/ nodes' = Posts(s)
    BY <1>10, <1>d DEF Join
  <2>3. [s EXCEPT !.joined = TRUE] \in Server
    BY <1>0 DEF WorldTypes, Server
  <2>4. servers' \subseteq Server /\ nodes' \subseteq Node
    BY <1>0, <2>2, <2>3, PostsTypes DEF WorldTypes
  <2> QED
    BY <1>0, <1>10, <2>1, <2>4 DEF Join, WorldTypes, CountTypes
<1>11. CASE NodeReady(p)
  BY <1>0, <1>11, EndTypes DEF NodeReady, WorldTypes, CountTypes
<1> QED
  BY <1>1, <1>2, <1>3, <1>4, <1>5, <1>6, <1>7, <1>8, <1>9, <1>10, <1>11 DEF AddStep

(* The steps of node remove and node replace keep the types.               *)
LEMMA LeaveTypes == ASSUME TypeOK, NEW p \in Procs, LeaveStep(p) \/ ReplaceFails(p) PROVE TypeOK'
<1> USE DEF fileVars, cloudVars, clusterVars, pinVars, worldVars
<1>0. WorldTypes /\ RunTypes /\ CountTypes
  BY Parts
<1>a. SUFFICES WorldTypes' /\ RunTypes' /\ CountTypes'
  BY DEF TypeOK, WorldTypes, RunTypes, CountTypes
<1>1. CASE CheckRetirable(p) \/ NodeGone(p)
  <2>1. RunTypes'
    BY <1>0, <1>1, GoTypes DEF CheckRetirable, NodeGone, Steps
  <2> QED
    BY <1>0, <1>1, <2>1 DEF CheckRetirable, NodeGone, WorldTypes, CountTypes
<1>2. CASE Drain(p)
  <2>1. RunTypes'
    BY <1>0, <1>2, GoTypes DEF Drain, Steps
  <2>2. \A nd \in nodes : [nd EXCEPT !.cordoned = TRUE] \in Node
    BY <1>0 DEF WorldTypes, Node
  <2> QED
    BY <1>0, <1>2, <2>1, <2>2 DEF Drain, WorldTypes, CountTypes
<1>3. CASE DeleteNode(p)
  <2>1. RunTypes'
    BY <1>0, <1>3, GoTypes DEF DeleteNode, Steps
  <2> QED
    BY <1>0, <1>3, <2>1 DEF DeleteNode, WorldTypes, CountTypes
<1>4. CASE HubPeerRemoveFile(p) \/ HubPeerRemoveLive(p)
  <2>1. RunTypes'
    BY <1>0, <1>4, GoTypes DEF HubPeerRemoveFile, HubPeerRemoveLive, Steps
  <2> QED
    BY <1>0, <1>4, <2>1 DEF HubPeerRemoveFile, HubPeerRemoveLive, WorldTypes, CountTypes
<1>5. CASE UnpinVPN(p)
  <2>1. RunTypes'
    BY <1>0, <1>5, GoTypes DEF UnpinVPN, Steps
  <2> QED
    BY <1>0, <1>5, <2>1 DEF UnpinVPN, WorldTypes, CountTypes
<1>6. CASE Undeclare(p)
  <2>1. loaded[p] \subseteq Entry
    BY <1>0 DEF RunTypes
  <2> QED
    BY <1>0, <1>6, <2>1, EndTypes DEF Undeclare, WorldTypes, CountTypes
<1>7. CASE PlanDelete(p) \/ PlanReplace(p)
  BY <1>0, <1>7, PlanTypes DEF PlanDelete, PlanReplace, Steps
<1>8. CASE Delete(p)
  <2>1. RunTypes'
    BY <1>0, <1>8, GoTypes DEF Delete, Steps
  <2> QED
    BY <1>0, <1>8, <2>1 DEF Delete, WorldTypes, CountTypes
<1>9. CASE UnpinPublic(p)
  <2>1. RunTypes'
    BY <1>0, <1>9, GoTypes, EndTypes DEF UnpinPublic, Steps
  <2> QED
    BY <1>0, <1>9, <2>1 DEF UnpinPublic, WorldTypes, CountTypes
<1>10. CASE Replace(p)
  BY <1>0, <1>10, NewTypes DEF Replace
<1>11. CASE ReplaceFails(p)
  BY <1>0, <1>11, EndTypes DEF ReplaceFails, WorldTypes, CountTypes
<1> QED
  BY <1>1, <1>2, <1>3, <1>4, <1>5, <1>6, <1>7, <1>8, <1>9, <1>10, <1>11 DEF LeaveStep

(* What happens around the runs keeps the types, and so does a run's end.  *)
LEMMA AroundTypes ==
  ASSUME TypeOK, Environment \/ \E p \in Procs : Refuse(p) \/ Stop(p)
  PROVE  TypeOK'
<1> USE DEF fileVars, cloudVars, clusterVars, pinVars, worldVars
<1>0. WorldTypes /\ RunTypes /\ CountTypes
  BY Parts
<1>a. SUFFICES WorldTypes' /\ RunTypes' /\ CountTypes'
  BY DEF TypeOK, WorldTypes, RunTypes, CountTypes
<1>1. CASE Commit \/ Revert
  BY <1>0, <1>1 DEF Commit, Revert, runVars, WorldTypes, RunTypes, CountTypes
<1>2. CASE Kubelets
  <2>1. KubeletRestart => nodes' \subseteq Node
    BY <1>0, PostsTypes DEF KubeletRestart
  <2>2. ASSUME KubeletStop PROVE nodes' \subseteq Node
    <3>1. PICK nd \in nodes : nodes' = (nodes \ {nd}) \cup {[nd EXCEPT !.ready = FALSE]}
      BY <2>2 DEF KubeletStop
    <3>2. nd \in Node /\ [nd EXCEPT !.ready = FALSE] \in Node
      BY <1>0 DEF WorldTypes, Node
    <3> QED
      BY <1>0, <3>1, <3>2 DEF WorldTypes
  <2>3. nodes' \subseteq Node
    BY <1>2, <2>1, <2>2 DEF Kubelets
  <2>4. RunTypes' /\ CountTypes'
    BY <1>0, <1>2 DEF Kubelets, KubeletStop, KubeletRestart, runVars, RunTypes, CountTypes
  <2> QED
    BY <1>0, <1>2, <2>3, <2>4 DEF Kubelets, KubeletStop, KubeletRestart, WorldTypes
<1>3. CASE DeleteNodeByHand \/ NodeForgotten
  BY <1>0, <1>3 DEF DeleteNodeByHand, NodeForgotten, runVars, WorldTypes, RunTypes, CountTypes
<1>4. ASSUME NEW p \in Procs, Refuse(p) \/ Stop(p) PROVE WorldTypes' /\ RunTypes' /\ CountTypes'
  BY <1>0, <1>4, EndTypes DEF Refuse, Stop, WorldTypes, CountTypes
<1> QED
  BY <1>1, <1>2, <1>3, <1>4 DEF Environment

(* Every step keeps the types.                                             *)
LEMMA TypesKept == TypeOK /\ [Next]_vars => TypeOK'
<1>1. TypeOK /\ UNCHANGED vars => TypeOK'
  BY DEF TypeOK, vars, worldVars, fileVars, cloudVars, clusterVars, pinVars, runVars
<1> QED
  BY <1>1, StartTypes, AddTypes, LeaveTypes, AroundTypes DEF Next, Step

(* The types hold at the start.                                            *)
LEMMA InitTypes == Init => TypeOK
<1> SUFFICES ASSUME Init PROVE TypeOK
  OBVIOUS
<1>1. WorldTypes
  <2>1. PICK f \in [Built -> Addrs], k \in [Built -> 1..Cardinality(Built)], i \in [Built -> IPs] :
       /\ set = {[name |-> n, addr |-> f[n]] : n \in Built}
       /\ servers = {[name |-> n, key |-> k[n], ip |-> i[n], addr |-> f[n], joined |-> TRUE] : n \in Built}
       /\ nodes = {[name |-> n, key |-> k[n], cordoned |-> FALSE, ready |-> TRUE] : n \in Built}
       /\ hubFile = {[addr |-> f[n], key |-> k[n]] : n \in Built}
       /\ pubPins = {[ip |-> i[n], key |-> k[n]] : n \in Built}
    BY DEF Init
  <2>2. ASSUME NEW n \in Built PROVE n \in Names /\ f[n] \in Addrs /\ k[n] \in Nat /\ i[n] \in IPs
    BY Bounds, ConstantsAssumption
  <2>3. /\ set \subseteq Entry /\ servers \subseteq Server /\ nodes \subseteq Node
        /\ hubFile \subseteq Peer /\ pubPins \subseteq Pin
    <3>1. ASSUME NEW n \in Built
          PROVE  /\ [name |-> n, addr |-> f[n]] \in Entry
                 /\ [name |-> n, key |-> k[n], ip |-> i[n], addr |-> f[n], joined |-> TRUE] \in Server
                 /\ [name |-> n, key |-> k[n], cordoned |-> FALSE, ready |-> TRUE] \in Node
                 /\ [addr |-> f[n], key |-> k[n]] \in Peer
                 /\ [ip |-> i[n], key |-> k[n]] \in Pin
      BY <2>2 DEF Entry, Server, Node, Peer, Pin
    <3> QED
      BY <2>1, <3>1
  <2> QED
    BY <2>3, Bounds DEF Init, WorldTypes
<1>2. RunTypes
  BY Bounds DEF Init, RunTypes, Steps, Commands, NoPlan
<1> QED
  BY <1>1, <1>2, Parts DEF Init, CountTypes

(* Every variable has its type, whatever the Workers, addresses, runs and  *)
(* bounds are.                                                             *)
THEOREM WorkerTypes == Spec => []TypeOK
BY TypesKept, InitTypes, PTL DEF Spec

-----------------------------------------------------------------------------
(* Saved plans.                                                            *)

Leaving == {"gates", "drain", "deleteNode", "unhubFile", "unhubLive", "unpinVPN", "unpinPublic"}

(* The run is between its plan and the apply that destroys a server.       *)
HasPlan(p) == pc[p] \in {"delete", "replace"} \/ (pc[p] \in Leaving /\ cmd[p] = "replace")

CmdInv(p) ==
  /\ pc[p] \in Leaving => cmd[p] \in {"remove", "replace"}
  /\ pc[p] \in {"nodeGone", "planDelete", "delete"} => cmd[p] = "remove"
  /\ pc[p] = "planReplace" => cmd[p] = "replace"

(* A plan Terraform still takes was made of every server the Worker has.   *)
PlanInv(p) ==
  HasPlan(p) =>
    /\ plan[p].serial <= serial
    /\ plan[p].serial = serial => \A s \in Named(servers, name[p]) : s.key \in plan[p].of

WInv == TypeOK /\ \A p \in Procs : CmdInv(p) /\ PlanInv(p)

(* The state's serial grows, or the servers are those there were.          *)
SerialGuards ==
  \/ serial' = serial + 1
  \/ serial' = serial /\ \A t \in servers' : \E s \in servers : s.name = t.name /\ s.key = t.key

(* A step of run p moves run p only.                                       *)
Alone(p) ==
  \A q \in Procs \ {p} : /\ pc'[q] = pc[q] /\ cmd'[q] = cmd[q]
                         /\ name'[q] = name[q] /\ plan'[q] = plan[q]

(* What Alone says of each shape of a step.                                *)
LEMMA Shapes ==
  ASSUME TypeOK, NEW p \in Procs, NEW s,
         \/ Go(p, s) \/ End(p) \/ Plan(p, s) \/ (\E c, n : Begin(p, c, n, s))
         \/ pc' = [pc EXCEPT ![p] = s] /\ UNCHANGED <<cmd, name, plan>>
  PROVE  Alone(p)
BY DEF TypeOK, Alone, Go, End, Plan, Begin, runVars

(* Every step of a run is of one of these shapes.                          *)
LEMMA MovesAlone ==
  ASSUME TypeOK, NEW p \in Procs, NEW n \in Names,
         Step(p) \/ Stop(p) \/ ReplaceFails(p) \/ Start(p, n)
  PROVE  Alone(p)
<1>1. CASE AddStep(p)
  BY <1>1, Shapes DEF AddStep, Declare, CheckNoNode, PlanCreate, Create, PinCreated, Build, HubPeer,
     HubSet, PinVPN, Join, NodeReady
<1>2. CASE LeaveStep(p)
  BY <1>2, Shapes DEF LeaveStep, CheckRetirable, Drain, DeleteNode, HubPeerRemoveFile,
     HubPeerRemoveLive, UnpinVPN, Undeclare, NodeGone, PlanDelete, Delete, UnpinPublic, PlanReplace,
     Replace
<1>3. CASE Refuse(p) \/ Stop(p) \/ ReplaceFails(p)
  BY <1>3, Shapes DEF Refuse, Stop, ReplaceFails
<1>4. CASE Start(p, n)
  BY <1>4, Shapes DEF Start, NodeAdd, NodeRemove, NodeReplace
<1> QED
  BY <1>1, <1>2, <1>3, <1>4 DEF Step

(* Terraform's state changes with every server that comes or goes.         *)
LEMMA SerialKept == ASSUME TypeOK, [Next]_vars PROVE SerialGuards
<1> USE DEF SerialGuards, fileVars, cloudVars, clusterVars, pinVars, worldVars
<1>1. CASE UNCHANGED vars \/ Environment
  BY <1>1 DEF vars, Environment, Commit, Revert, Kubelets, KubeletStop, KubeletRestart,
     DeleteNodeByHand, NodeForgotten
<1>2. ASSUME NEW p \in Procs, AddStep(p) PROVE SerialGuards
  <2>1. CASE Join(p)
    <3>1. PICK s \in servers : servers' = (servers \ {s}) \cup {[s EXCEPT !.joined = TRUE]}
      BY <2>1 DEF Join, Reached
    <3>2. s \in Server
      BY DEF TypeOK
    <3>3. [s EXCEPT !.joined = TRUE].name = s.name /\ [s EXCEPT !.joined = TRUE].key = s.key
      BY <3>2 DEF Server
    <3>4. serial' = serial
      BY <2>1 DEF Join
    <3> QED
      BY <3>1, <3>3, <3>4
  <2>2. CASE ~Join(p)
    BY <1>2, <2>2 DEF AddStep, Declare, CheckNoNode, PlanCreate, Plan, Create, PinCreated, Build,
       HubPeer, HubSet, PinVPN, NodeReady
  <2> QED
    BY <2>1, <2>2
<1>3. ASSUME NEW p \in Procs, LeaveStep(p) PROVE SerialGuards
  BY <1>3 DEF LeaveStep, CheckRetirable, Drain, DeleteNode, HubPeerRemoveFile, HubPeerRemoveLive,
     UnpinVPN, Undeclare, NodeGone, PlanDelete, Plan, Delete, UnpinPublic, PlanReplace, Replace
<1>4. ASSUME NEW p \in Procs, NEW n \in Names, Refuse(p) \/ Stop(p) \/ ReplaceFails(p) \/ Start(p, n)
      PROVE  SerialGuards
  BY <1>4 DEF Refuse, Stop, ReplaceFails, Start, NodeAdd, NodeRemove, NodeReplace, Begin
<1> QED
  BY <1>1, <1>2, <1>3, <1>4, ConstantsAssumption DEF Next, Step

(* A plan a run still has stays true of the servers.                       *)
LEMMA PlanStays ==
  ASSUME WInv, TypeOK', SerialGuards, NEW q \in Procs,
         HasPlan(q)' => HasPlan(q) /\ name'[q] = name[q] /\ plan'[q] = plan[q]
  PROVE  PlanInv(q)'
<1> SUFFICES ASSUME HasPlan(q)'
             PROVE  /\ plan'[q].serial <= serial'
                    /\ plan'[q].serial = serial' =>
                         \A t \in Named(servers', name'[q]) : t.key \in plan'[q].of
  BY DEF PlanInv
<1>1. /\ plan[q].serial <= serial /\ plan[q].serial \in Nat /\ serial \in Nat
      /\ plan[q].serial = serial => \A s \in Named(servers, name[q]) : s.key \in plan[q].of
  BY DEF WInv, PlanInv, TypeOK
<1>2. CASE serial' = serial + 1
  BY <1>1, <1>2
<1>3. CASE serial' = serial /\ \A t \in servers' : \E s \in servers : s.name = t.name /\ s.key = t.key
  BY <1>1, <1>3 DEF Named
<1> QED
  BY <1>2, <1>3 DEF SerialGuards

(* A run goes from its plan to its apply and nowhere else.                 *)
LEMMA OwnStep ==
  ASSUME WInv, TypeOK', NEW p \in Procs, NEW n \in Names, [Next]_vars,
         Step(p) \/ Stop(p) \/ ReplaceFails(p) \/ Start(p, n)
  PROVE  CmdInv(p)' /\ PlanInv(p)'
<1> USE DEF Leaving
<1>0. TypeOK /\ CmdInv(p) /\ SerialGuards
  BY SerialKept DEF WInv
<1>1. ASSUME NEW s \in Steps, Go(p, s), s \notin {"nodeGone", "planReplace", "delete"},
             s = "planDelete" => pc[p] = "nodeGone",
             s = "gates" => FALSE,
             s \in Leaving \cup {"replace"} =>
               \/ pc[p] \in Leaving /\ (s = "replace" => cmd[p] # "remove")
               \/ pc[p] = "delete" /\ s = "unpinPublic"
      PROVE  CmdInv(p)' /\ PlanInv(p)'
  <2>1. pc'[p] = s /\ UNCHANGED <<cmd, name, plan>>
    BY <1>0, <1>1 DEF Go, runVars, TypeOK
  <2>2. CmdInv(p)'
    BY <1>0, <1>1, <2>1 DEF CmdInv
  <2>3. HasPlan(p)' => HasPlan(p)
    BY <1>0, <1>1, <2>1 DEF HasPlan, CmdInv
  <2>4. PlanInv(p)'
    BY <1>0, <2>1, <2>3, PlanStays
  <2> QED
    BY <2>2, <2>4
<1>2. ASSUME pc'[p] \notin Leaving \cup {"nodeGone", "planDelete", "delete", "planReplace", "replace"}
      PROVE  CmdInv(p)' /\ PlanInv(p)'
  BY <1>2 DEF CmdInv, PlanInv, HasPlan
<1>3. ASSUME End(p) PROVE CmdInv(p)' /\ PlanInv(p)'
  <2>1. pc'[p] = "idle"
    BY <1>0, <1>3 DEF End, TypeOK
  <2> QED
    BY <1>2, <2>1
<1>4. ASSUME NEW s \in Steps, Plan(p, s), s = "delete" => cmd[p] = "remove",
             s \in Leaving => cmd[p] = "replace", s \notin {"nodeGone", "planDelete", "planReplace"}
      PROVE  CmdInv(p)' /\ PlanInv(p)'
  <2>1. /\ pc'[p] = s /\ UNCHANGED <<cmd, name, serial, servers>>
        /\ plan'[p] = [serial |-> serial, of |-> {x.key : x \in Named(servers, name[p])}]
        /\ serial \in Nat
    BY <1>0, <1>4 DEF Plan, TypeOK, worldVars, cloudVars
  <2>2. CmdInv(p)'
    BY <1>4, <2>1 DEF CmdInv
  <2>3. PlanInv(p)'
    BY <2>1 DEF PlanInv
  <2> QED
    BY <2>2, <2>3
<1>5. CASE AddStep(p)
  <2>1. CASE Declare(p) \/ NodeReady(p)
    BY <1>3, <2>1 DEF Declare, NodeReady
  <2>2. CASE ~Declare(p) /\ ~NodeReady(p)
    <3>1. pc'[p] \in {"planCreate", "create", "pin", "build", "hubPeer", "pinVPN", "hubSet", "join", "ready"}
      BY <1>0, <1>5, <2>2 DEF TypeOK, AddStep, CheckNoNode, PlanCreate, Plan, Create, PinCreated, Build,
         HubPeer, HubSet, PinVPN, Join, Go
    <3> QED
      BY <1>2, <3>1
  <2> QED
    BY <2>1, <2>2
<1>6. CASE LeaveStep(p)
  <2>1. CASE \/ CheckRetirable(p) \/ Drain(p) \/ DeleteNode(p)
             \/ HubPeerRemoveFile(p) \/ HubPeerRemoveLive(p)
    BY <1>1, <2>1 DEF CheckRetirable, Drain, DeleteNode, HubPeerRemoveFile, HubPeerRemoveLive, Steps
  <2>2. CASE UnpinVPN(p)
    BY <1>1, <2>2 DEF UnpinVPN, Steps
  <2>3. CASE NodeGone(p) \/ Delete(p)
    BY <1>1, <2>3 DEF NodeGone, Delete, Steps
  <2>4. CASE UnpinPublic(p)
    BY <1>1, <1>3, <2>4 DEF UnpinPublic, Steps
  <2>5. CASE PlanDelete(p) \/ PlanReplace(p)
    BY <1>0, <1>4, <2>5 DEF PlanDelete, PlanReplace, CmdInv, Steps
  <2>6. CASE Undeclare(p)
    BY <1>3, <2>6 DEF Undeclare
  <2>7. CASE Replace(p)
    <3>1. pc'[p] = "pin"
      BY <1>0, <2>7 DEF Replace, TypeOK
    <3> QED
      BY <1>2, <3>1
  <2> QED
    BY <1>6, <2>1, <2>2, <2>3, <2>4, <2>5, <2>6, <2>7 DEF LeaveStep
<1>7. CASE Refuse(p) \/ Stop(p) \/ ReplaceFails(p)
  BY <1>3, <1>7 DEF Refuse, Stop, ReplaceFails
<1>8. CASE Start(p, n)
  <2>1. PICK c, s : /\ Begin(p, c, n, s)
                    /\ <<c, s>> \in {<<"add", "declare">>, <<"add", "checkNode">>, <<"add", "build">>,
                                     <<"remove", "gates">>, <<"remove", "nodeGone">>,
                                     <<"replace", "planReplace">>}
    BY <1>8 DEF Start, NodeAdd, NodeRemove, NodeReplace
  <2>2. pc'[p] = s /\ cmd'[p] = c
    BY <1>0, <2>1 DEF Begin, TypeOK
  <2> QED
    BY <2>1, <2>2 DEF CmdInv, PlanInv, HasPlan
<1> QED
  BY <1>5, <1>6, <1>7, <1>8 DEF Step

(* The invariant is inductive.                                             *)
LEMMA Inductive == WInv /\ [Next]_vars => WInv'
<1> SUFFICES ASSUME WInv, [Next]_vars PROVE WInv'
  OBVIOUS
<1>1. TypeOK /\ TypeOK' /\ SerialGuards
  BY TypesKept, SerialKept DEF WInv
<1>2. ASSUME NEW q \in Procs, pc'[q] = pc[q], cmd'[q] = cmd[q], name'[q] = name[q], plan'[q] = plan[q]
      PROVE  CmdInv(q)' /\ PlanInv(q)'
  <2>1. CmdInv(q)'
    BY <1>2 DEF WInv, CmdInv
  <2>2. HasPlan(q)' => HasPlan(q)
    BY <1>2 DEF HasPlan
  <2> QED
    BY <1>1, <1>2, <2>1, <2>2, PlanStays
<1>3. CASE UNCHANGED vars \/ Environment
  <2>1. UNCHANGED <<pc, cmd, name, plan>>
    BY <1>3 DEF vars, Environment, Commit, Revert, Kubelets, KubeletStop, KubeletRestart,
       DeleteNodeByHand, NodeForgotten, runVars
  <2> QED
    BY <1>1, <1>2, <2>1 DEF WInv
<1>4. ASSUME NEW p \in Procs, NEW n \in Names, Step(p) \/ Stop(p) \/ ReplaceFails(p) \/ Start(p, n)
      PROVE  WInv'
  <2>1. CmdInv(p)' /\ PlanInv(p)'
    BY <1>1, <1>4, OwnStep
  <2>2. Alone(p)
    BY <1>1, <1>4, MovesAlone
  <2>3. \A q \in Procs : CmdInv(q)' /\ PlanInv(q)'
    BY <1>2, <2>1, <2>2 DEF Alone
  <2> QED
    BY <1>1, <2>3 DEF WInv
<1>5. Names # {}
  BY ConstantsAssumption
<1> QED
  BY <1>3, <1>4, <1>5 DEF Next

(* An apply destroys what its plan was made of, whatever other runs did.   *)
LEMMA AppliesPlanned ==
  ASSUME WInv, [Next]_vars, NEW p \in Procs, pc[p] \in {"delete", "replace"}, pc'[p] # pc[p],
         NEW s \in servers \ servers'
  PROVE  s.key \in plan[p].of
<1> USE DEF fileVars, cloudVars, clusterVars, pinVars, worldVars
<1>1. TypeOK /\ PlanInv(p) /\ HasPlan(p)
  BY DEF WInv, HasPlan
<1>2. ~UNCHANGED vars /\ ~Environment
  BY DEF vars, Environment, Commit, Revert, Kubelets, KubeletStop, KubeletRestart,
     DeleteNodeByHand, NodeForgotten
<1>3. PICK q \in Procs, n \in Names : Step(q) \/ Stop(q) \/ ReplaceFails(q) \/ Start(q, n)
  BY <1>2, ConstantsAssumption DEF Next
<1>4. q = p
  BY <1>1, <1>3, MovesAlone DEF Alone
<1>5. Current(p) => \A t \in Named(servers, name[p]) : t.key \in plan[p].of
  BY <1>1 DEF PlanInv, Current
<1>6. CASE AddStep(p) \/ Start(p, n)
  <2>1. pc[p] \notin {"delete", "replace"}
    BY <1>6 DEF AddStep, Declare, CheckNoNode, PlanCreate, Create, PinCreated, Build, HubPeer, HubSet,
       PinVPN, Join, NodeReady, Start, NodeAdd, NodeRemove, NodeReplace, Begin
  <2> QED
    BY <2>1
<1>7. CASE LeaveStep(p)
  <2>1. Delete(p) \/ Replace(p)
    BY <1>7 DEF LeaveStep, CheckRetirable, Drain, DeleteNode, HubPeerRemoveFile, HubPeerRemoveLive,
       UnpinVPN, Undeclare, NodeGone, PlanDelete, UnpinPublic, PlanReplace
  <2>2. Current(p) /\ servers \ servers' \subseteq Named(servers, name[p])
    BY <2>1 DEF Delete, Replace, NewServer
  <2> QED
    BY <1>5, <2>2
<1>8. CASE ReplaceFails(p)
  <2>1. Current(p) /\ servers \ servers' \subseteq Named(servers, name[p])
    BY <1>8 DEF ReplaceFails
  <2> QED
    BY <1>5, <2>1
<1>9. CASE Refuse(p) \/ Stop(p)
  BY <1>9 DEF Refuse, Stop
<1> QED
  BY <1>3, <1>4, <1>6, <1>7, <1>8, <1>9 DEF Step

(* However many runs of kluster are under way, no apply destroys a server  *)
(* that was not there when its plan was made: the server another run put   *)
(* in the old one's place stays (tf.Apply).                                *)
THEOREM OnlyPlannedIsDestroyed == Spec => DestroysPlanned
<1>1. Init => WInv
  <2>1. Init => \A p \in Procs : CmdInv(p) /\ PlanInv(p)
    BY DEF Init, CmdInv, PlanInv, HasPlan, Leaving
  <2> QED
    BY <2>1, InitTypes DEF WInv
<1>2. WInv /\ [Next]_vars =>
        [\A p \in Procs : pc[p] \in {"delete", "replace"} /\ pc'[p] # pc[p]
           => \A s \in servers \ servers' : s.key \in plan[p].of]_vars
  BY AppliesPlanned
<1> QED
  BY <1>1, <1>2, Inductive, PTL DEF Spec, DestroysPlanned

-----------------------------------------------------------------------------
(* Servers, with any number of runs.                                       *)

(* A plan to create that Terraform still takes found no server of the name.*)
CreateInv(p) ==
  pc[p] = "create" =>
    /\ plan[p].serial <= serial
    /\ plan[p].serial = serial => Named(servers, name[p]) = {}

EInv ==
  /\ WInv /\ ServersAreApart
  /\ \A s \in servers : s.key <= made
  /\ \A p \in Procs : CreateInv(p)

(* Servers only go, but at a create, a replacement and a join.             *)
LEMMA ServersMove ==
  ASSUME [Next]_vars
  PROVE  \/ servers' \subseteq servers /\ made' = made
         \/ \E p \in Procs : Create(p) \/ Replace(p) \/ Join(p)
BY DEF Next, vars, Environment, Commit, Revert, Kubelets, KubeletStop, KubeletRestart,
   DeleteNodeByHand,
   NodeForgotten, Step, AddStep, LeaveStep, Declare, CheckNoNode, PlanCreate, Plan, PinCreated,
   Build, HubPeer, HubSet, PinVPN, NodeReady, CheckRetirable, Drain, DeleteNode,
   HubPeerRemoveFile, HubPeerRemoveLive, UnpinVPN, Undeclare, NodeGone, PlanDelete, Delete,
   UnpinPublic, PlanReplace, Refuse, Stop, ReplaceFails, Start, NodeAdd, NodeRemove,
   NodeReplace, Begin, worldVars, cloudVars

(* A join changes nothing of a server but that it joined.                  *)
LEMMA JoinsOne ==
  ASSUME TypeOK, NEW p \in Procs, Join(p)
  PROVE  /\ made' = made
         /\ \E s \in servers, t \in servers' :
              /\ servers' = (servers \ {s}) \cup {t}
              /\ t.name = s.name /\ t.key = s.key /\ t.addr = s.addr /\ t.ip = s.ip
<1>1. PICK s \in servers : servers' = (servers \ {s}) \cup {[s EXCEPT !.joined = TRUE]} /\ made' = made
  BY DEF Join, Reached
<1>2. PICK t : t = [s EXCEPT !.joined = TRUE]
  OBVIOUS
<1>3. t.name = s.name /\ t.key = s.key /\ t.addr = s.addr /\ t.ip = s.ip
  BY <1>2 DEF TypeOK, Server
<1> QED
  BY <1>1, <1>2, <1>3

(* The new server of an apply is apart from those the apply leaves.        *)
LEMMA MakesOne ==
  ASSUME EInv, NEW p \in Procs, NEW others \in SUBSET servers, NewServer(p, others),
         \A o \in others : o.name # name[p]
  PROVE  ServersAreApart' /\ \A s \in servers' : s.key <= made'
<1>1. PICK e \in Entries(p), i \in IPs \ {o.ip : o \in others} :
        /\ At(others, e.addr) = {} /\ made' = made + 1
        /\ servers' = others \cup {[name |-> name[p], key |-> made + 1, ip |-> i, addr |-> e.addr, joined |-> FALSE]}
  BY DEF NewServer
<1>2. PICK s : s = [name |-> name[p], key |-> made + 1, ip |-> i, addr |-> e.addr, joined |-> FALSE]
  OBVIOUS
<1>3. servers' = others \cup {s} /\ s.name = name[p] /\ s.key = made + 1 /\ s.ip = i /\ s.addr = e.addr
  BY <1>1, <1>2
<1>4. made \in Nat /\ \A o \in servers : o.key \in Nat /\ o.key <= made
  BY DEF EInv, WInv, TypeOK, Server
<1>5. \A o \in others : o.name # s.name /\ o.key # s.key /\ o.addr # s.addr /\ o.ip # s.ip
  BY <1>1, <1>3, <1>4 DEF At
<1>6. \A o \in servers' : o.key <= made'
  BY <1>1, <1>3, <1>4
<1>7. ServersAreApart'
  BY <1>3, <1>5 DEF EInv, ServersAreApart
<1> QED
  BY <1>6, <1>7

LEMMA StayApart == ASSUME EInv, [Next]_vars PROVE ServersAreApart' /\ \A s \in servers' : s.key <= made'
<1>0. TypeOK /\ ServersAreApart /\ \A s \in servers : s.key <= made
  BY DEF EInv, WInv
<1>1. CASE servers' \subseteq servers /\ made' = made
  BY <1>0, <1>1 DEF ServersAreApart
<1>2. ASSUME NEW p \in Procs, Create(p) PROVE ServersAreApart' /\ \A s \in servers' : s.key <= made'
  <2>1. Named(servers, name[p]) = {} /\ NewServer(p, servers)
    BY <1>2 DEF EInv, CreateInv, Create, Current
  <2> QED
    BY <2>1, MakesOne DEF Named
<1>3. ASSUME NEW p \in Procs, Replace(p) PROVE ServersAreApart' /\ \A s \in servers' : s.key <= made'
  <2>1. /\ NewServer(p, servers \ Named(servers, name[p]))
        /\ \A o \in servers \ Named(servers, name[p]) : o.name # name[p]
    BY <1>3 DEF Replace, Named
  <2> QED
    BY <2>1, MakesOne
<1>4. ASSUME NEW p \in Procs, Join(p) PROVE ServersAreApart' /\ \A s \in servers' : s.key <= made'
  <2>1. PICK s \in servers, t \in servers' :
          /\ servers' = (servers \ {s}) \cup {t} /\ made' = made
          /\ t.name = s.name /\ t.key = s.key /\ t.addr = s.addr /\ t.ip = s.ip
    BY <1>0, <1>4, JoinsOne
  <2> QED
    BY <1>0, <2>1 DEF ServersAreApart
<1> QED
  BY <1>1, <1>2, <1>3, <1>4, ServersMove

(* Only its own plan takes a run to the apply that creates, and what other *)
(* runs do to the servers before it changes the serial.                    *)
LEMMA CreatePlanned ==
  ASSUME WInv, [Next]_vars, NEW p \in Procs, pc'[p] = "create"
  PROVE  \/ PlanCreate(p)
         \/ pc[p] = "create" /\ name'[p] = name[p] /\ plan'[p] = plan[p]
<1>t. pc \in [Procs -> Steps] /\ TypeOK
  BY DEF WInv, TypeOK
<1>1. CASE UNCHANGED vars \/ Environment
  BY <1>1 DEF vars, Environment, Commit, Revert, Kubelets, KubeletStop, KubeletRestart,
     DeleteNodeByHand, NodeForgotten, runVars
<1>2. ASSUME NEW q \in Procs, NEW n \in Names, Step(q) \/ Stop(q) \/ ReplaceFails(q) \/ Start(q, n), q # p
      PROVE  pc[p] = "create" /\ name'[p] = name[p] /\ plan'[p] = plan[p]
  BY <1>t, <1>2, MovesAlone DEF Alone
<1>3. ASSUME NEW n \in Names, Step(p) \/ Stop(p) \/ ReplaceFails(p) \/ Start(p, n), ~PlanCreate(p)
      PROVE  FALSE
  <2>1. ASSUME End(p) PROVE FALSE
    BY <1>t, <2>1 DEF End
  <2>2. ASSUME NEW s, s # "create", Go(p, s) \/ Plan(p, s) \/ (\E c : Begin(p, c, n, s)) \/ pc' = [pc EXCEPT ![p] = s]
        PROVE  FALSE
    BY <1>t, <2>2 DEF Go, Plan, Begin
  <2>3. CASE AddStep(p)
    BY <1>3, <2>1, <2>2, <2>3 DEF AddStep, Declare, CheckNoNode, Create, PinCreated, Build, HubPeer,
       HubSet, PinVPN, Join, NodeReady
  <2>4. CASE LeaveStep(p)
    BY <2>1, <2>2, <2>4 DEF LeaveStep, CheckRetirable, Drain, DeleteNode, HubPeerRemoveFile,
       HubPeerRemoveLive, UnpinVPN, Undeclare, NodeGone, PlanDelete, Delete, UnpinPublic, PlanReplace,
       Replace
  <2>5. CASE Refuse(p) \/ Stop(p) \/ ReplaceFails(p)
    BY <2>1, <2>5 DEF Refuse, Stop, ReplaceFails
  <2>6. CASE Start(p, n)
    BY <2>2, <2>6 DEF Start, NodeAdd, NodeRemove, NodeReplace
  <2> QED
    BY <1>3, <2>3, <2>4, <2>5, <2>6 DEF Step
<1> QED
  BY <1>1, <1>2, <1>3, ConstantsAssumption DEF Next

LEMMA CreateKept == ASSUME EInv, [Next]_vars, NEW p \in Procs PROVE CreateInv(p)'
<1> SUFFICES ASSUME pc'[p] = "create"
             PROVE  /\ plan'[p].serial <= serial'
                    /\ plan'[p].serial = serial' => Named(servers', name'[p]) = {}
  BY DEF CreateInv
<1>0. TypeOK /\ WInv /\ CreateInv(p)
  BY DEF EInv, WInv
<1>t. serial \in Nat /\ plan[p].serial \in Nat
  BY <1>0 DEF TypeOK
<1>1. CASE PlanCreate(p)
  <2>1. /\ plan'[p] = [serial |-> serial, of |-> {s.key : s \in Named(servers, name[p])}]
        /\ UNCHANGED <<serial, servers, name>>
    BY <1>0, <1>1 DEF PlanCreate, Plan, TypeOK, worldVars, cloudVars
  <2>2. Named(servers, name[p]) = {}
    BY <1>1 DEF PlanCreate, CreatesOnly, Creates, Named
  <2> QED
    BY <1>t, <2>1, <2>2
<1>2. CASE pc[p] = "create" /\ name'[p] = name[p] /\ plan'[p] = plan[p]
  <2>1. plan[p].serial <= serial /\ (plan[p].serial = serial => Named(servers, name[p]) = {})
    BY <1>0, <1>2 DEF CreateInv
  <2>2. SerialGuards
    BY <1>0, SerialKept
  <2> QED
    BY <1>t, <1>2, <2>1, <2>2 DEF SerialGuards, Named
<1> QED
  BY <1>0, <1>1, <1>2, CreatePlanned

(* However many runs of kluster are under way, no Worker ever has two      *)
(* servers, and no two servers share an address or a key: of two runs that *)
(* planned to create the same server, Terraform takes the first plan only  *)
(* (provision.CreateWorkers, tf.Apply).                                    *)
THEOREM OneServerEach == Spec => []ServersAreApart
<1>1. Init => EInv
  <2> SUFFICES ASSUME Init PROVE EInv
    OBVIOUS
  <2>1. PICK f \in [Built -> Addrs], k \in [Built -> 1..Cardinality(Built)], i \in [Built -> IPs] :
          /\ \A m, n \in Built : m # n => f[m] # f[n] /\ k[m] # k[n] /\ i[m] # i[n]
          /\ servers = {[name |-> n, key |-> k[n], ip |-> i[n], addr |-> f[n], joined |-> TRUE] : n \in Built}
    BY DEF Init
  <2>2. \A s \in servers : \E n \in Built : s = [name |-> n, key |-> k[n], ip |-> i[n], addr |-> f[n], joined |-> TRUE]
    BY <2>1
  <2>3. \A s \in servers : \E n \in Built : s.name = n /\ s.key = k[n] /\ s.ip = i[n] /\ s.addr = f[n]
    BY <2>2
  <2>4. ServersAreApart
    <3>1. ASSUME NEW s \in servers, NEW t \in servers,
                 s.name = t.name \/ s.key = t.key \/ s.addr = t.addr \/ s.ip = t.ip
          PROVE  s = t
      <4>1. PICK m \in Built : /\ s = [name |-> m, key |-> k[m], ip |-> i[m], addr |-> f[m], joined |-> TRUE]
                               /\ s.name = m /\ s.key = k[m] /\ s.ip = i[m] /\ s.addr = f[m]
        BY <2>2
      <4>2. PICK n \in Built : /\ t = [name |-> n, key |-> k[n], ip |-> i[n], addr |-> f[n], joined |-> TRUE]
                               /\ t.name = n /\ t.key = k[n] /\ t.ip = i[n] /\ t.addr = f[n]
        BY <2>2
      <4>3. m = n
        BY <2>1, <3>1, <4>1, <4>2
      <4> QED
        BY <4>1, <4>2, <4>3
    <3> QED
      BY <3>1 DEF ServersAreApart
  <2>5. Cardinality(Built) \in Nat /\ made = Cardinality(Built)
    BY ConstantsAssumption, FS_CardinalityType DEF Init
  <2>6. \A s \in servers : s.key <= made
    BY <2>1, <2>3, <2>5
  <2>7. \A p \in Procs : CreateInv(p) /\ CmdInv(p) /\ PlanInv(p)
    BY DEF Init, CreateInv, CmdInv, PlanInv, HasPlan, Leaving
  <2> QED
    BY <2>4, <2>6, <2>7, InitTypes DEF EInv, WInv
<1>2. EInv /\ [Next]_vars => EInv'
  BY Inductive, StayApart, CreateKept DEF EInv
<1>3. EInv => ServersAreApart
  BY DEF EInv
<1> QED
  BY <1>1, <1>2, <1>3, PTL DEF Spec

-----------------------------------------------------------------------------
(* The set's entries, with any number of runs.                             *)

(* The set on disk, the one in git and the one a run loaded give each      *)
(* Worker one address; a run that declares has loaded none for its Worker. *)
GivesEach(S) == \A e, f \in S : e.name = f.name \/ e.addr = f.addr => e = f

LoadedInv(p) ==
  /\ GivesEach(loaded[p])
  /\ pc[p] = "declare" => Named(loaded[p], name[p]) = {}

SetInv == TypeOK /\ GivesEach(set) /\ GivesEach(committed) /\ \A p \in Procs : LoadedInv(p)

LEMMA SetMoves ==
  ASSUME [Next]_vars
  PROVE  \/ UNCHANGED <<set, committed>> \/ Commit \/ Revert
         \/ \E p \in Procs : (Declare(p) \/ Undeclare(p)) /\ UNCHANGED committed
<1> USE DEF worldVars, fileVars
<1>1. CASE (UNCHANGED vars \/ Environment) /\ ~Commit /\ ~Revert
  BY <1>1 DEF vars, Environment, Kubelets, KubeletStop, KubeletRestart,
     DeleteNodeByHand, NodeForgotten
<1>2. ASSUME NEW p \in Procs, AddStep(p), ~Declare(p) PROVE UNCHANGED <<set, committed>>
  BY <1>2 DEF AddStep, CheckNoNode, PlanCreate, Plan, Create, PinCreated, Build, HubPeer, HubSet,
     PinVPN, Join, NodeReady
<1>3. ASSUME NEW p \in Procs, LeaveStep(p), ~Undeclare(p) PROVE UNCHANGED <<set, committed>>
  BY <1>3 DEF LeaveStep, CheckRetirable, Drain, DeleteNode, HubPeerRemoveFile, HubPeerRemoveLive,
     UnpinVPN, NodeGone, PlanDelete, Plan, Delete, UnpinPublic, PlanReplace, Replace
<1>4. ASSUME NEW p \in Procs, Refuse(p) \/ Stop(p) \/ ReplaceFails(p) \/ \E n \in Names : Start(p, n)
      PROVE  UNCHANGED <<set, committed>>
  BY <1>4 DEF Refuse, Stop, ReplaceFails, Start, NodeAdd, NodeRemove, NodeReplace, Begin
<1>5. ASSUME NEW p \in Procs, Declare(p) \/ Undeclare(p) PROVE UNCHANGED committed
  BY <1>5 DEF Declare, Undeclare
<1> QED
  BY <1>1, <1>2, <1>3, <1>4, <1>5 DEF Next, Step

(* A run keeps the set it loaded until it ends.                            *)
LEMMA LoadedMoves ==
  ASSUME TypeOK, [Next]_vars, NEW q \in Procs
  PROVE  \/ loaded'[q] = loaded[q] /\ (pc'[q] = "declare" => pc[q] = "declare" /\ name'[q] = name[q])
         \/ loaded'[q] = {}
         \/ loaded'[q] = set /\ (pc'[q] = "declare" => Named(set, name'[q]) = {})
<1> DEFINE Goal ==
      \/ loaded'[q] = loaded[q] /\ (pc'[q] = "declare" => pc[q] = "declare" /\ name'[q] = name[q])
      \/ loaded'[q] = {}
      \/ loaded'[q] = set /\ (pc'[q] = "declare" => Named(set, name'[q]) = {})
<1>t. /\ pc \in [Procs -> Steps] /\ name \in [Procs -> Names] /\ loaded \in [Procs -> SUBSET Entry]
  BY DEF TypeOK
<1>1. CASE UNCHANGED <<pc, name, loaded>>
  BY <1>1
<1>2. ASSUME NEW p \in Procs, End(p) PROVE Goal
  BY <1>t, <1>2 DEF End
<1>3. ASSUME NEW p \in Procs, NEW s, s # "declare", UNCHANGED <<name, loaded>>, pc' = [pc EXCEPT ![p] = s]
      PROVE  Goal
  BY <1>t, <1>3
<1>4. ASSUME NEW p \in Procs, NEW n \in Names, Start(p, n) PROVE Goal
  <2>1. PICK c, s : Begin(p, c, n, s) /\ (s = "declare" => ~Declared(n))
    BY <1>4 DEF Start, NodeAdd, NodeRemove, NodeReplace
  <2>2. CASE q # p
    BY <1>t, <2>1, <2>2 DEF Begin
  <2>3. CASE q = p
    <3>1. loaded'[q] = set /\ name'[q] = n /\ pc'[q] = s
      BY <1>t, <2>1, <2>3 DEF Begin
    <3> QED
      BY <2>1, <3>1 DEF Declared
  <2> QED
    BY <2>2, <2>3
<1>5. CASE UNCHANGED vars \/ Environment
  BY <1>1, <1>5 DEF vars, Environment, Commit, Revert, Kubelets, KubeletStop, KubeletRestart,
     DeleteNodeByHand, NodeForgotten, runVars
<1>6. ASSUME NEW p \in Procs, AddStep(p) PROVE Goal
  BY <1>2, <1>3, <1>6 DEF AddStep, Declare, CheckNoNode, PlanCreate, Plan, Create, PinCreated, Build, HubPeer,
     HubSet, PinVPN, Join, NodeReady, Go, runVars
<1>7. ASSUME NEW p \in Procs, LeaveStep(p) PROVE Goal
  BY <1>2, <1>3, <1>7 DEF LeaveStep, CheckRetirable, Drain, DeleteNode, HubPeerRemoveFile,
     HubPeerRemoveLive, UnpinVPN, Undeclare, NodeGone, PlanDelete, Plan, Delete, UnpinPublic, PlanReplace,
     Replace, Go, runVars
<1>8. ASSUME NEW p \in Procs, Refuse(p) \/ Stop(p) \/ ReplaceFails(p) PROVE Goal
  BY <1>2, <1>8 DEF Refuse, Stop, ReplaceFails
<1> QED
  BY <1>4, <1>5, <1>6, <1>7, <1>8 DEF Next, Step

(* The entry a run declares has the lowest address the set leaves free.    *)
LEMMA DeclaresApart == ASSUME SetInv, NEW p \in Procs, Declare(p) PROVE GivesEach(set')
<1>1. GivesEach(loaded[p]) /\ Named(loaded[p], name[p]) = {}
  BY DEF SetInv, LoadedInv, Declare
<1>2. PICK a : a = Lowest(Free(loaded[p]))
  OBVIOUS
<1>3. At(loaded[p], a) = {}
  <2>1. Free(loaded[p]) \in SUBSET Addrs /\ Free(loaded[p]) # {}
    BY DEF Declare, Free
  <2>2. a \in Free(loaded[p])
    BY <1>2, <2>1, LowestIs
  <2> QED
    BY <2>2 DEF Free
<1>4. PICK e : e = [name |-> name[p], addr |-> a]
  OBVIOUS
<1>5. set' = loaded[p] \cup {e} /\ e.name = name[p] /\ e.addr = a
  BY <1>2, <1>4 DEF Declare
<1>6. \A d \in loaded[p] : d.name # e.name /\ d.addr # e.addr
  BY <1>1, <1>3, <1>5 DEF Named, At
<1> QED
  BY <1>1, <1>5, <1>6 DEF GivesEach

(* However many runs of kluster are under way and whichever write of the   *)
(* set comes last, no address is given to two Workers, on disk or in git   *)
(* (workerset.Next).                                                       *)
THEOREM OneAddressEach == Spec => []EntriesAreApart
<1>1. Init => SetInv
  <2> SUFFICES ASSUME Init PROVE SetInv
    OBVIOUS
  <2>1. PICK f \in [Built -> Addrs] :
          /\ \A m, n \in Built : m # n => f[m] # f[n]
          /\ set = {[name |-> n, addr |-> f[n]] : n \in Built}
    BY DEF Init
  <2>2. \A e \in set : \E n \in Built : e = [name |-> n, addr |-> f[n]] /\ e.name = n /\ e.addr = f[n]
    BY <2>1
  <2>3. GivesEach(set)
    BY <2>1, <2>2 DEF GivesEach
  <2>4. committed = set /\ \A p \in Procs : LoadedInv(p)
    BY DEF Init, LoadedInv, GivesEach
  <2> QED
    BY <2>3, <2>4, InitTypes DEF SetInv
<1>2. SetInv /\ [Next]_vars => SetInv'
  <2> SUFFICES ASSUME SetInv, [Next]_vars PROVE SetInv'
    OBVIOUS
  <2>1. TypeOK /\ TypeOK'
    BY TypesKept DEF SetInv
  <2>2. GivesEach(set') /\ GivesEach(committed')
    <3>1. ASSUME NEW p \in Procs, Undeclare(p) PROVE GivesEach(set')
      BY <3>1 DEF SetInv, LoadedInv, GivesEach, Undeclare
    <3>2. CASE Commit \/ Revert \/ UNCHANGED <<set, committed>>
      BY <3>2 DEF SetInv, Commit, Revert
    <3> QED
      BY <3>1, <3>2, SetMoves, DeclaresApart DEF SetInv
  <2>3. ASSUME NEW q \in Procs PROVE LoadedInv(q)'
    <3>1. LoadedInv(q) /\ GivesEach(set)
      BY DEF SetInv
    <3>2. CASE loaded'[q] = {}
      BY <3>2 DEF LoadedInv, GivesEach, Named
    <3> QED
      BY <2>1, <3>1, <3>2, LoadedMoves DEF LoadedInv
  <2> QED
    BY <2>1, <2>2, <2>3 DEF SetInv, GivesEach
<1>3. SetInv => EntriesAreApart
  BY DEF SetInv, GivesEach, EntriesAreApart
<1> QED
  BY <1>1, <1>2, <1>3, PTL DEF Spec

-----------------------------------------------------------------------------
(* One run at a time.                                                      *)

OneRun == \A p, q \in Procs : p = q

OneEach(S) == \A e, f \in S : e.name = f.name => e = f

(* The peer or pin q is a server's that the set declares at its address,   *)
(* on disk and in git, so that neither a commit nor a revert loses it.     *)
Held(q) ==
  \E s \in servers, e \in set \cap committed : /\ s.addr = q.addr /\ s.key = q.key
                                               /\ e.addr = q.addr /\ e.name = s.name

HeldInv ==
  /\ OneEach(set) /\ OneEach(committed)
  /\ \A s, t \in servers : s.ip = t.ip => s = t
  /\ \A q \in hubFile \cup hubLive \cup vpnPins : Held(q)

Reading      == {"build", "hubPeer", "hubSet", "pinVPN", "join"}
Replacing(p) == pc[p] = "replace" \/ (pc[p] = "unpinPublic" /\ cmd[p] = "replace")
Off(p, S)    == \A e \in Entries(p) : At(S, e.addr) = {}

(* What a run knows: the set has not moved since it loaded it, the server  *)
(* it read is the Worker's, and what it took off the hub and the pins is   *)
(* off.                                                                    *)
AloneInv(p) ==
  /\ pc[p] # "idle" => set = committed /\ loaded[p] = set
  /\ pc[p] \in {"declare", "nodeGone", "planDelete", "delete"} => ~Declared(name[p])
  /\ pc[p] \in Reading => \A s \in srv[p] : s \in servers /\ s.name = name[p]
  /\ pc[p] \in {"hubPeer", "hubSet"} => \A s \in srv[p] : \E e \in Entries(p) : e.addr = s.addr
  /\ pc[p] \in {"unhubLive", "unpinVPN", "undeclare"} \/ Replacing(p) => Off(p, hubFile)
  /\ pc[p] \in {"unpinVPN", "undeclare"} \/ Replacing(p) => Off(p, hubLive)
  /\ pc[p] = "undeclare" \/ Replacing(p) => Off(p, vpnPins)

HInv == WInv /\ HeldInv /\ \A p \in Procs : AloneInv(p)

(* Where servers stay and peers and pins only go, all that is left is held. *)
LEMMA HeldStays ==
  ASSUME HeldInv, UNCHANGED <<set, committed, servers>>,
         hubFile' \subseteq hubFile, hubLive' \subseteq hubLive, vpnPins' \subseteq vpnPins
  PROVE  HeldInv'
<1>1. \A q : Held(q) => Held(q)'
  BY DEF Held
<1> QED
  BY <1>1 DEF HeldInv, OneEach

(* A peer or pin of one more server is held.                               *)
LEMMA HeldMore ==
  ASSUME HeldInv, UNCHANGED <<set, committed, servers>>, NEW q, Held(q),
         hubFile' \subseteq hubFile \cup {q}, hubLive' \subseteq hubLive \cup {q},
         vpnPins' \subseteq vpnPins \cup {q}
  PROVE  HeldInv'
<1>1. \A x : Held(x) => Held(x)'
  BY DEF Held
<1> QED
  BY <1>1 DEF HeldInv, OneEach

(* A run that is over knows nothing.                                       *)
LEMMA IdleKnows == ASSUME NEW p \in Procs, pc'[p] = "idle" PROVE AloneInv(p)'
BY DEF AloneInv, Reading, Replacing

LEMMA EndsIdle == ASSUME TypeOK, NEW p \in Procs, End(p) PROVE pc'[p] = "idle" /\ AloneInv(p)'
<1>1. pc'[p] = "idle"
  BY DEF End, TypeOK
<1> QED
  BY <1>1, IdleKnows

(* A step of a run that stays within its command and its set.              *)
LEMMA GoesOn ==
  ASSUME TypeOK, NEW p \in Procs, NEW s, Go(p, s)
  PROVE  /\ pc'[p] = s /\ cmd'[p] = cmd[p] /\ name'[p] = name[p] /\ loaded'[p] = loaded[p]
         /\ srv'[p] = srv[p] /\ Entries(p)' = Entries(p)
BY DEF TypeOK, Go, runVars, Entries

(* The steps that read and plan.                                           *)
LEMMA ReadsKeep ==
  ASSUME HInv, NEW p \in Procs,
         CheckNoNode(p) \/ PlanCreate(p) \/ NodeGone(p) \/ PlanDelete(p) \/ PlanReplace(p)
  PROVE  HeldInv' /\ AloneInv(p)'
<1>t. TypeOK /\ AloneInv(p) /\ HeldInv
  BY DEF HInv, WInv
<1>1. UNCHANGED worldVars
  BY DEF CheckNoNode, PlanCreate, NodeGone, PlanDelete, PlanReplace, Plan
<1>2. HeldInv'
  BY <1>t, <1>1, HeldStays DEF worldVars, fileVars, cloudVars, clusterVars, pinVars
<1>3. /\ name'[p] = name[p] /\ loaded'[p] = loaded[p] /\ pc[p] # "idle"
      /\ pc'[p] \in {"planCreate", "create", "planDelete", "delete", "gates"}
      /\ pc'[p] \in {"planDelete", "delete"} => pc[p] \in {"nodeGone", "planDelete"}
  BY <1>t DEF TypeOK, CheckNoNode, PlanCreate, NodeGone, PlanDelete, PlanReplace, Plan, Go, runVars
<1>4. AloneInv(p)'
  BY <1>t, <1>1, <1>3 DEF AloneInv, Reading, Replacing, Declared, worldVars, fileVars
<1> QED
  BY <1>2, <1>4

(* The edits of the set.                                                   *)
LEMMA DeclareKeeps == ASSUME HInv, NEW p \in Procs, Declare(p) PROVE HeldInv' /\ AloneInv(p)'
<1>t. TypeOK /\ AloneInv(p) /\ HeldInv
  BY DEF HInv, WInv
<1>1. PICK a : set' = loaded[p] \cup {[name |-> name[p], addr |-> a]}
  BY DEF Declare
<1>2. loaded[p] = set /\ ~Declared(name[p]) /\ UNCHANGED <<committed, servers, hubFile, hubLive, vpnPins>>
  BY <1>t DEF Declare, AloneInv, cloudVars, clusterVars, pinVars
<1>3. OneEach(set')
  <2>1. \A e \in set : e.name # name[p]
    BY <1>2 DEF Declared, Named
  <2> QED
    BY <1>t, <1>1, <1>2, <2>1 DEF HeldInv, OneEach
<1>4. \A q : Held(q) => Held(q)'
  BY <1>1, <1>2 DEF Held
<1>5. HeldInv'
  BY <1>t, <1>2, <1>3, <1>4 DEF HeldInv, OneEach
<1> QED
  BY <1>t, <1>5, EndsIdle DEF Declare

LEMMA UndeclareKeeps == ASSUME HInv, NEW p \in Procs, Undeclare(p) PROVE HeldInv' /\ AloneInv(p)'
<1>t. TypeOK /\ AloneInv(p) /\ HeldInv
  BY DEF HInv, WInv
<1>1. /\ set' = set \ Entries(p) /\ loaded[p] = set
      /\ UNCHANGED <<committed, servers, hubFile, hubLive, vpnPins>>
      /\ Off(p, hubFile) /\ Off(p, hubLive) /\ Off(p, vpnPins)
  BY <1>t DEF Undeclare, AloneInv, cloudVars, clusterVars, pinVars
<1>2. ASSUME NEW q \in hubFile \cup hubLive \cup vpnPins PROVE Held(q)'
  <2>1. PICK s \in servers, e \in set \cap committed : /\ s.addr = q.addr /\ s.key = q.key
                                                       /\ e.addr = q.addr /\ e.name = s.name
    BY <1>t DEF HeldInv, Held
  <2>2. e \notin Entries(p)
    BY <1>1, <2>1 DEF Off, At
  <2> QED
    BY <1>1, <2>1, <2>2 DEF Held
<1>3. HeldInv'
  BY <1>t, <1>1, <1>2 DEF HeldInv, OneEach
<1> QED
  BY <1>t, <1>3, EndsIdle DEF Undeclare

(* The servers an apply makes and destroys.                                *)
LEMMA NewIsApart ==
  ASSUME HeldInv, NEW p \in Procs, NEW others \in SUBSET servers, NewServer(p, others)
  PROVE  /\ others \subseteq servers'
         /\ \A s, t \in servers' : s.ip = t.ip => s = t
<1>1. PICK e \in Entries(p), i \in IPs \ {s.ip : s \in others} :
        servers' = others \cup {[name |-> name[p], key |-> made + 1, ip |-> i, addr |-> e.addr, joined |-> FALSE]}
  BY DEF NewServer
<1>2. PICK x : x.ip = i /\ servers' = others \cup {x}
  BY <1>1
<1>3. \A s \in others : s.ip # i
  OBVIOUS
<1> QED
  BY <1>2, <1>3 DEF HeldInv

LEMMA CreateKeeps == ASSUME HInv, NEW p \in Procs, Create(p) PROVE HeldInv' /\ AloneInv(p)'
<1>t. TypeOK /\ AloneInv(p) /\ HeldInv
  BY DEF HInv, WInv
<1>1. /\ servers \subseteq servers' /\ \A s, t \in servers' : s.ip = t.ip => s = t
      /\ UNCHANGED <<set, committed, hubFile, hubLive, vpnPins>>
  BY <1>t, NewIsApart DEF Create, fileVars, clusterVars, pinVars
<1>2. \A q : Held(q) => Held(q)'
  BY <1>1 DEF Held
<1>3. HeldInv'
  BY <1>t, <1>1, <1>2 DEF HeldInv, OneEach
<1>4. pc'[p] = "pin" /\ loaded'[p] = loaded[p] /\ pc[p] # "idle"
  BY <1>t DEF Create, TypeOK
<1>5. AloneInv(p)'
  BY <1>t, <1>1, <1>4 DEF AloneInv, Reading, Replacing
<1> QED
  BY <1>3, <1>5

(* While the Worker is on no hub and no pin, or in no set, its server goes. *)
LEMMA HeldElsewhere ==
  ASSUME HeldInv, NEW p \in Procs, AloneInv(p), NEW q \in hubFile \cup hubLive \cup vpnPins,
         pc[p] = "replace" \/ pc[p] = "delete"
  PROVE  \E s \in servers \ Named(servers, name[p]), e \in set \cap committed :
            /\ s.addr = q.addr /\ s.key = q.key
            /\ e.addr = q.addr /\ e.name = s.name
<1>1. PICK s \in servers, e \in set \cap committed : /\ s.addr = q.addr /\ s.key = q.key
                                                     /\ e.addr = q.addr /\ e.name = s.name
  BY DEF HeldInv, Held
<1>2. CASE pc[p] = "delete"
  <2>1. e.name # name[p]
    BY <1>2 DEF AloneInv, Declared, Named
  <2> QED
    BY <1>1, <2>1 DEF Named
<1>3. CASE pc[p] = "replace"
  <2>1. loaded[p] = set /\ Off(p, hubFile) /\ Off(p, hubLive) /\ Off(p, vpnPins)
    BY <1>3 DEF AloneInv, Replacing
  <2>2. e \notin Entries(p)
    BY <1>1, <2>1 DEF Off, At
  <2>3. e.name # name[p]
    BY <2>1, <2>2 DEF Entries, Named
  <2> QED
    BY <1>1, <2>3 DEF Named
<1> QED
  BY <1>2, <1>3

LEMMA DestroyKeeps ==
  ASSUME HInv, NEW p \in Procs, Delete(p) \/ Replace(p) \/ ReplaceFails(p)
  PROVE  HeldInv' /\ AloneInv(p)'
<1>t. TypeOK /\ AloneInv(p) /\ HeldInv /\ (pc[p] = "delete" => cmd[p] = "remove")
  BY DEF HInv, WInv, CmdInv
<1>1. UNCHANGED <<set, committed, hubFile, hubLive, vpnPins>> /\ pc[p] \in {"delete", "replace"}
  BY DEF Delete, Replace, ReplaceFails, fileVars, clusterVars, pinVars
<1>2. /\ servers \ Named(servers, name[p]) \subseteq servers'
      /\ \A s, t \in servers' : s.ip = t.ip => s = t
  <2>1. CASE Replace(p)
    BY <1>t, <2>1, NewIsApart DEF Replace
  <2>2. CASE Delete(p) \/ ReplaceFails(p)
    BY <1>t, <2>2 DEF Delete, ReplaceFails, HeldInv
  <2> QED
    BY <2>1, <2>2
<1>3. \A q \in hubFile \cup hubLive \cup vpnPins : Held(q)'
  BY <1>t, <1>1, <1>2, HeldElsewhere DEF Held
<1>4. HeldInv'
  BY <1>t, <1>1, <1>2, <1>3 DEF HeldInv, OneEach
<1>5. CASE ReplaceFails(p)
  BY <1>t, <1>4, <1>5, EndsIdle DEF ReplaceFails
<1>6. CASE Replace(p)
  <2>1. pc'[p] = "pin" /\ loaded'[p] = loaded[p] /\ pc[p] # "idle"
    BY <1>t, <1>6 DEF Replace, TypeOK
  <2>2. AloneInv(p)'
    BY <1>t, <1>1, <2>1 DEF AloneInv, Reading, Replacing
  <2> QED
    BY <1>4, <2>2
<1>7. CASE Delete(p)
  <2>1. pc'[p] = "unpinPublic" /\ loaded'[p] = loaded[p] /\ cmd'[p] = "remove" /\ pc[p] # "idle"
    BY <1>t, <1>7, GoesOn DEF Delete
  <2>2. AloneInv(p)'
    BY <1>t, <1>1, <2>1 DEF AloneInv, Reading, Replacing
  <2> QED
    BY <1>4, <2>2
<1> QED
  BY <1>5, <1>6, <1>7

(* The build: from the login to the Node.                                  *)
LEMMA ReachedIs ==
  ASSUME HeldInv, NEW p \in Procs, AloneInv(p), pc[p] \in Reading
  PROVE  \A s \in Reached(p) : /\ s \in servers /\ s.name = name[p]
                               /\ \E e \in Entries(p) : e.addr = s.addr
<1> SUFFICES ASSUME NEW s \in Reached(p)
             PROVE  s \in servers /\ s.name = name[p] /\ \E e \in Entries(p) : e.addr = s.addr
  OBVIOUS
<1>1. PICK o \in srv[p] : o.ip = s.ip /\ s \in servers /\ \E e \in Entries(p) : e.addr = s.addr
  BY DEF Reached
<1>2. o \in servers /\ o.name = name[p]
  BY DEF AloneInv
<1>3. o = s
  BY <1>1, <1>2 DEF HeldInv
<1> QED
  BY <1>1, <1>2, <1>3

(* A peer or pin of the server a run is at.                                *)
LEMMA PeerHeld ==
  ASSUME TypeOK, NEW p \in Procs, AloneInv(p), pc[p] # "idle",
         NEW s \in servers, s.name = name[p], NEW e \in Entries(p), e.addr = s.addr
  PROVE  Held(PeerOf(s))
<1>1. e \in set \cap committed /\ e.name = name[p]
  BY DEF AloneInv, Entries, Named
<1>2. PeerOf(s).addr = s.addr /\ PeerOf(s).key = s.key
  BY DEF PeerOf
<1> QED
  BY <1>1, <1>2 DEF Held

LEMMA BuildKeeps ==
  ASSUME HInv, NEW p \in Procs, PinCreated(p) \/ Build(p) \/ HubPeer(p) \/ HubSet(p) \/ PinVPN(p)
  PROVE  HeldInv' /\ AloneInv(p)'
<1>t. TypeOK /\ AloneInv(p) /\ HeldInv
  BY DEF HInv, WInv
<1> USE DEF fileVars, cloudVars, clusterVars, pinVars, worldVars
<1>1. CASE PinCreated(p)
  <2>1. /\ UNCHANGED <<set, committed, servers, hubFile, hubLive, vpnPins>>
        /\ pc'[p] = "build" /\ pc[p] = "pin" /\ loaded'[p] = loaded[p] /\ name'[p] = name[p]
        /\ srv'[p] \subseteq Named(servers, name[p])
    BY <1>t, <1>1 DEF PinCreated, TypeOK
  <2>2. AloneInv(p)'
    BY <1>t, <2>1 DEF AloneInv, Reading, Replacing, Named
  <2> QED
    BY <1>t, <2>1, <2>2, HeldStays
<1>2. CASE Build(p)
  <2>1. /\ UNCHANGED <<set, committed, servers, hubFile, hubLive, vpnPins>>
        /\ pc'[p] = "hubPeer" /\ pc[p] = "build" /\ loaded'[p] = loaded[p] /\ name'[p] = name[p]
        /\ srv'[p] = Reached(p)
    BY <1>t, <1>2 DEF Build, TypeOK
  <2>2. \A s \in Reached(p) : /\ s \in servers /\ s.name = name[p]
                              /\ \E e \in Entries(p) : e.addr = s.addr
    BY <1>t, <2>1, ReachedIs DEF Reading
  <2>3. Entries(p)' = Entries(p)
    BY <2>1 DEF Entries
  <2>4. AloneInv(p)'
    BY <1>t, <2>1, <2>2, <2>3 DEF AloneInv, Reading, Replacing
  <2> QED
    BY <1>t, <2>1, <2>4, HeldStays
<1>3. CASE HubPeer(p) \/ HubSet(p)
  <2>1. PICK s \in srv[p] :
           /\ hubFile' \subseteq hubFile \cup {PeerOf(s)} /\ hubLive' \subseteq hubLive \cup {PeerOf(s)}
           /\ UNCHANGED <<set, committed, servers, vpnPins>>
    BY <1>3 DEF HubPeer, HubSet
  <2>2. pc[p] \in {"hubPeer", "hubSet"}
    BY <1>3 DEF HubPeer, HubSet
  <2>3. PICK e \in Entries(p) : s \in servers /\ s.name = name[p] /\ e.addr = s.addr
    BY <1>t, <2>2 DEF AloneInv, Reading
  <2>4. HeldInv'
    BY <1>t, <2>1, <2>2, <2>3, PeerHeld, HeldMore
  <2>5. Go(p, "pinVPN") \/ Go(p, "hubSet")
    BY <1>3 DEF HubPeer, HubSet
  <2>6. /\ pc'[p] \in {"pinVPN", "hubSet"} /\ name'[p] = name[p] /\ loaded'[p] = loaded[p]
        /\ srv'[p] = srv[p] /\ Entries(p)' = Entries(p)
    BY <1>t, <2>5, GoesOn
  <2>7. AloneInv(p)'
    BY <1>t, <2>1, <2>2, <2>6 DEF AloneInv, Reading, Replacing
  <2> QED
    BY <2>4, <2>7
<1>4. CASE PinVPN(p)
  <2>1. PICK s \in Reached(p) : /\ vpnPins' \subseteq vpnPins \cup {PeerOf(s)}
                                /\ UNCHANGED <<set, committed, servers, hubFile, hubLive>>
    BY <1>4 DEF PinVPN
  <2>2. pc[p] = "pinVPN" /\ pc'[p] = "join" /\ name'[p] = name[p] /\ loaded'[p] = loaded[p]
        /\ srv'[p] = srv[p]
    BY <1>t, <1>4, GoesOn DEF PinVPN
  <2>3. PICK e \in Entries(p) : s \in servers /\ s.name = name[p] /\ e.addr = s.addr
    BY <1>t, <2>2, ReachedIs DEF Reading
  <2>4. HeldInv'
    BY <1>t, <2>1, <2>2, <2>3, PeerHeld, HeldMore
  <2>5. AloneInv(p)'
    BY <1>t, <2>1, <2>2 DEF AloneInv, Reading, Replacing
  <2> QED
    BY <2>4, <2>5
<1> QED
  BY <1>1, <1>2, <1>3, <1>4

LEMMA JoinKeeps ==
  ASSUME HInv, NEW p \in Procs, Join(p) \/ NodeReady(p)
  PROVE  HeldInv' /\ AloneInv(p)'
<1>t. TypeOK /\ AloneInv(p) /\ HeldInv
  BY DEF HInv, WInv
<1> USE DEF fileVars, cloudVars, clusterVars, pinVars, worldVars
<1>1. CASE NodeReady(p)
  BY <1>t, <1>1, HeldStays, EndsIdle DEF NodeReady
<1>2. CASE Join(p)
  <2>1. PICK s \in servers : /\ servers' = (servers \ {s}) \cup {[s EXCEPT !.joined = TRUE]}
                             /\ UNCHANGED <<set, committed, hubFile, hubLive, vpnPins>>
    BY <1>2 DEF Join, Reached
  <2>2. PICK t : /\ servers' = (servers \ {s}) \cup {t}
                 /\ t.name = s.name /\ t.key = s.key /\ t.addr = s.addr /\ t.ip = s.ip
    <3> DEFINE u == [s EXCEPT !.joined = TRUE]
    <3>1. s \in Server
      BY <1>t DEF TypeOK
    <3>2. u.name = s.name /\ u.key = s.key /\ u.addr = s.addr /\ u.ip = s.ip
      BY <3>1 DEF Server
    <3>3. servers' = (servers \ {s}) \cup {u}
      BY <2>1
    <3> HIDE DEF u
    <3> QED
      BY <3>2, <3>3
  <2>3. \A x, y \in servers' : x.ip = y.ip => x = y
    BY <1>t, <2>2 DEF HeldInv
  <2>4. ASSUME NEW q, Held(q) PROVE Held(q)'
    <3>1. PICK x \in servers, e \in set \cap committed : /\ x.addr = q.addr /\ x.key = q.key
                                                         /\ e.addr = q.addr /\ e.name = x.name
      BY <2>4 DEF Held
    <3>2. PICK y \in servers' : y.name = x.name /\ y.key = x.key /\ y.addr = x.addr
      BY <2>2, <3>1
    <3> QED
      BY <2>1, <3>1, <3>2 DEF Held
  <2>5. HeldInv'
    BY <1>t, <2>1, <2>3, <2>4 DEF HeldInv, OneEach
  <2>6. pc'[p] = "ready" /\ loaded'[p] = loaded[p] /\ pc[p] = "join"
    BY <1>t, <1>2, GoesOn DEF Join
  <2>7. AloneInv(p)'
    BY <1>t, <2>1, <2>6 DEF AloneInv, Reading, Replacing
  <2> QED
    BY <2>5, <2>7
<1> QED
  BY <1>1, <1>2

(* Taking a Worker out.                                                    *)
LEMMA OneEntry ==
  ASSUME HeldInv, NEW p \in Procs, AloneInv(p), pc[p] # "idle",
         NEW e \in Entries(p), NEW f \in Entries(p)
  PROVE  e = f
BY DEF HeldInv, AloneInv, OneEach, Entries, Named

LEMMA LeaveKeeps ==
  ASSUME HInv, NEW p \in Procs,
         \/ CheckRetirable(p) \/ Drain(p) \/ DeleteNode(p)
         \/ HubPeerRemoveFile(p) \/ HubPeerRemoveLive(p) \/ UnpinVPN(p) \/ UnpinPublic(p)
  PROVE  HeldInv' /\ AloneInv(p)'
<1>t. TypeOK /\ AloneInv(p) /\ HeldInv /\ CmdInv(p)
  BY DEF HInv, WInv
<1> USE DEF fileVars, cloudVars, clusterVars, pinVars, worldVars
<1>1. HeldInv'
  <2>1. /\ UNCHANGED <<set, committed, servers>>
        /\ hubFile' \subseteq hubFile /\ hubLive' \subseteq hubLive /\ vpnPins' \subseteq vpnPins
    BY DEF CheckRetirable, Drain, DeleteNode, HubPeerRemoveFile, HubPeerRemoveLive, UnpinVPN, UnpinPublic
  <2> QED
    BY <1>t, <2>1, HeldStays
<1>2. CASE CheckRetirable(p)
  <2>1. /\ pc'[p] = "drain" /\ pc[p] = "gates" /\ loaded'[p] = loaded[p]
        /\ UNCHANGED <<set, committed>>
    BY <1>t, <1>2, GoesOn DEF CheckRetirable
  <2> QED
    BY <1>t, <1>1, <2>1 DEF AloneInv, Reading, Replacing
<1>3. CASE Drain(p)
  <2>1. /\ pc'[p] = "deleteNode" /\ pc[p] = "drain" /\ loaded'[p] = loaded[p]
        /\ UNCHANGED <<set, committed>>
    BY <1>t, <1>3, GoesOn DEF Drain
  <2> QED
    BY <1>t, <1>1, <2>1 DEF AloneInv, Reading, Replacing
<1>4. CASE DeleteNode(p)
  <2>1. /\ pc'[p] = "unhubFile" /\ pc[p] = "deleteNode" /\ loaded'[p] = loaded[p]
        /\ UNCHANGED <<set, committed>>
    BY <1>t, <1>4, GoesOn DEF DeleteNode
  <2> QED
    BY <1>t, <1>1, <2>1 DEF AloneInv, Reading, Replacing
<1>g. ASSUME NEW s, Go(p, s), UNCHANGED <<set, committed>>, pc[p] # "idle"
      PROVE  /\ pc'[p] = s /\ cmd'[p] = cmd[p] /\ Entries(p)' = Entries(p)
             /\ set' = committed' /\ loaded'[p] = set'
  BY <1>t, <1>g, GoesOn DEF AloneInv
<1>5. CASE HubPeerRemoveFile(p)
  <2>1. PICK e \in Entries(p) : hubFile' = hubFile \ At(hubFile, e.addr)
    BY <1>5 DEF HubPeerRemoveFile
  <2>2. \A f \in Entries(p) : At(hubFile', f.addr) = {}
    BY <1>t, <1>5, <2>1, OneEntry DEF HubPeerRemoveFile, At
  <2>3. /\ pc'[p] = "unhubLive" /\ cmd'[p] = cmd[p] /\ Entries(p)' = Entries(p)
        /\ set' = committed' /\ loaded'[p] = set'
    BY <1>5, <1>g DEF HubPeerRemoveFile
  <2> QED
    BY <1>1, <2>2, <2>3 DEF AloneInv, Reading, Replacing, Off
<1>6. CASE HubPeerRemoveLive(p)
  <2>1. PICK e \in Entries(p) : hubLive' = hubLive \ At(hubLive, e.addr)
    BY <1>6 DEF HubPeerRemoveLive
  <2>2. \A f \in Entries(p) : At(hubLive', f.addr) = {}
    BY <1>t, <1>6, <2>1, OneEntry DEF HubPeerRemoveLive, At
  <2>3. /\ pc'[p] = "unpinVPN" /\ cmd'[p] = cmd[p] /\ Entries(p)' = Entries(p)
        /\ set' = committed' /\ loaded'[p] = set'
    BY <1>6, <1>g DEF HubPeerRemoveLive
  <2>4. Off(p, hubFile) /\ hubFile' = hubFile
    BY <1>t, <1>6 DEF AloneInv, HubPeerRemoveLive
  <2> QED
    BY <1>1, <2>2, <2>3, <2>4 DEF AloneInv, Reading, Replacing, Off
<1>7. CASE UnpinVPN(p)
  <2>1. PICK e \in Entries(p) : vpnPins' = vpnPins \ At(vpnPins, e.addr)
    BY <1>7 DEF UnpinVPN
  <2>2. \A f \in Entries(p) : At(vpnPins', f.addr) = {}
    BY <1>t, <1>7, <2>1, OneEntry DEF UnpinVPN, At
  <2>3. /\ pc'[p] \in {"undeclare", "unpinPublic"} /\ cmd'[p] = cmd[p] /\ Entries(p)' = Entries(p)
        /\ set' = committed' /\ loaded'[p] = set'
    BY <1>7, <1>g DEF UnpinVPN
  <2>4. Off(p, hubFile) /\ Off(p, hubLive) /\ UNCHANGED <<hubFile, hubLive>>
    BY <1>t, <1>7 DEF AloneInv, UnpinVPN
  <2> QED
    BY <1>1, <2>2, <2>3, <2>4 DEF AloneInv, Reading, Replacing, Off
<1>8. CASE UnpinPublic(p)
  <2>1. CASE End(p)
    BY <1>t, <1>1, <2>1, EndsIdle
  <2>2. CASE Go(p, "replace") /\ cmd[p] # "remove"
    <3>1. pc[p] = "unpinPublic" /\ cmd[p] = "replace"
      BY <1>t, <1>8, <2>2 DEF UnpinPublic, CmdInv, Leaving
    <3>2. /\ pc'[p] = "replace" /\ Entries(p)' = Entries(p) /\ set' = committed' /\ loaded'[p] = set'
      BY <1>8, <1>g, <2>2, <3>1 DEF UnpinPublic
    <3>3. Off(p, hubFile) /\ Off(p, hubLive) /\ Off(p, vpnPins) /\ UNCHANGED <<hubFile, hubLive, vpnPins>>
      BY <1>t, <1>8, <3>1 DEF AloneInv, Replacing, UnpinPublic
    <3> QED
      BY <1>1, <3>2, <3>3 DEF AloneInv, Reading, Replacing, Off
  <2> QED
    BY <1>8, <2>1, <2>2 DEF UnpinPublic
<1> QED
  BY <1>2, <1>3, <1>4, <1>5, <1>6, <1>7, <1>8

(* A run begins on a committed set.                                        *)
LEMMA StartKeeps ==
  ASSUME HInv, NEW p \in Procs, NEW n \in Names, Start(p, n)
  PROVE  HeldInv' /\ AloneInv(p)'
<1>t. TypeOK /\ HeldInv
  BY DEF HInv, WInv
<1> USE DEF fileVars, cloudVars, clusterVars, pinVars, worldVars
<1>1. PICK c, s : /\ Begin(p, c, n, s) /\ Committed
                  /\ s \in {"declare", "checkNode", "build", "gates", "nodeGone", "planReplace"}
                  /\ s \in {"declare", "nodeGone"} => ~Declared(n)
  BY DEF Start, NodeAdd, NodeRemove, NodeReplace
<1>2. /\ pc'[p] = s /\ name'[p] = n /\ loaded'[p] = set /\ srv'[p] = Named(servers, n)
      /\ UNCHANGED <<set, committed, servers, hubFile, hubLive, vpnPins>> /\ set = committed
  BY <1>t, <1>1 DEF Begin, TypeOK, Committed
<1>3. AloneInv(p)'
  BY <1>1, <1>2 DEF AloneInv, Reading, Replacing, Declared, Named
<1> QED
  BY <1>t, <1>2, <1>3, HeldStays

(* What happens around a run leaves what it knows true.                    *)
LEMMA AroundKeeps ==
  ASSUME HInv, UNCHANGED vars \/ Environment
  PROVE  HeldInv' /\ \A p \in Procs : AloneInv(p)'
<1>t. TypeOK /\ HeldInv /\ \A p \in Procs : AloneInv(p)
  BY DEF HInv, WInv
<1> USE DEF fileVars, cloudVars, clusterVars, pinVars, worldVars, runVars
<1>1. CASE Commit \/ Revert
  <2>1. /\ \A p \in Procs : pc'[p] = "idle"
        /\ UNCHANGED <<servers, hubFile, hubLive, vpnPins>>
        /\ set' \in {set, committed} /\ committed' = set'
    BY <1>t, <1>1 DEF Commit, Revert, AloneInv
  <2>2. \A q : Held(q) => Held(q)'
    BY <2>1 DEF Held
  <2>3. HeldInv'
    BY <1>t, <2>1, <2>2 DEF HeldInv, OneEach
  <2> QED
    BY <2>1, <2>3, IdleKnows
<1>2. CASE UNCHANGED vars \/ Kubelets \/ DeleteNodeByHand \/ NodeForgotten
  <2>1. /\ UNCHANGED <<set, committed, servers, hubFile, hubLive, vpnPins>>
        /\ UNCHANGED <<pc, cmd, name, loaded, srv>>
    BY <1>2 DEF vars, Kubelets, KubeletStop, KubeletRestart, DeleteNodeByHand, NodeForgotten
  <2>2. HeldInv'
    BY <1>t, <2>1, HeldStays
  <2>3. ASSUME NEW p \in Procs PROVE AloneInv(p)'
    <3>1. AloneInv(p) /\ Entries(p)' = Entries(p)
      BY <1>t, <2>1 DEF Entries
    <3> QED
      BY <2>1, <3>1 DEF AloneInv, Reading, Replacing, Declared, Off
  <2> QED
    BY <2>2, <2>3
<1> QED
  BY <1>1, <1>2 DEF Environment

LEMMA AloneInductive == ASSUME OneRun PROVE HInv /\ [Next]_vars => HInv'
<1> SUFFICES ASSUME HInv, [Next]_vars PROVE HeldInv' /\ \A p \in Procs : AloneInv(p)'
  BY Inductive DEF HInv
<1>t. TypeOK /\ HeldInv
  BY DEF HInv, WInv
<1>1. CASE UNCHANGED vars \/ Environment
  BY <1>1, AroundKeeps
<1>2. ASSUME NEW p \in Procs, NEW n \in Names, Step(p) \/ Stop(p) \/ ReplaceFails(p) \/ Start(p, n)
      PROVE  HeldInv' /\ AloneInv(p)'
  <2>1. CASE Refuse(p) \/ Stop(p)
    <3>1. UNCHANGED worldVars /\ End(p)
      BY <2>1 DEF Refuse, Stop
    <3> QED
      BY <1>t, <3>1, HeldStays, EndsIdle DEF worldVars, fileVars, cloudVars, clusterVars, pinVars
  <2>2. CASE AddStep(p)
    BY <2>2, DeclareKeeps, ReadsKeep, CreateKeeps, BuildKeeps, JoinKeeps DEF AddStep
  <2>3. CASE LeaveStep(p)
    BY <2>3, UndeclareKeeps, ReadsKeep, DestroyKeeps, LeaveKeeps DEF LeaveStep
  <2>4. CASE ReplaceFails(p)
    BY <2>4, DestroyKeeps
  <2>5. CASE Start(p, n)
    BY <2>5, StartKeeps
  <2> QED
    BY <1>2, <2>1, <2>2, <2>3, <2>4, <2>5 DEF Step
<1>3. Names # {}
  BY ConstantsAssumption
<1>4. ASSUME NEW p \in Procs, AloneInv(p)' PROVE \A q \in Procs : AloneInv(q)'
  <2>1. ASSUME NEW q \in Procs PROVE AloneInv(q)'
    <3>1. q = p
      BY DEF OneRun
    <3> QED
      BY <1>4, <3>1
  <2> QED
    BY <2>1
<1> QED
  BY <1>1, <1>2, <1>3, <1>4 DEF Next

LEMMA AloneInit == Init => HInv
<1> SUFFICES ASSUME Init PROVE HInv
  OBVIOUS
<1>1. WInv
  <2>1. \A p \in Procs : CmdInv(p) /\ PlanInv(p)
    BY DEF Init, CmdInv, PlanInv, HasPlan, Leaving
  <2> QED
    BY <2>1, InitTypes DEF WInv
<1>2. \A p \in Procs : AloneInv(p)
  BY DEF Init, AloneInv, Reading, Replacing
<1>3. HeldInv
  <2>1. PICK f \in [Built -> Addrs], k \in [Built -> 1..Cardinality(Built)], i \in [Built -> IPs] :
          /\ \A m, n \in Built : m # n => f[m] # f[n] /\ k[m] # k[n] /\ i[m] # i[n]
          /\ set = {[name |-> n, addr |-> f[n]] : n \in Built}
          /\ servers = {[name |-> n, key |-> k[n], ip |-> i[n], addr |-> f[n], joined |-> TRUE] : n \in Built}
          /\ hubFile = {[addr |-> f[n], key |-> k[n]] : n \in Built}
    BY DEF Init
  <2>2. committed = set /\ hubLive = hubFile /\ vpnPins = hubFile
    BY DEF Init
  <2>3. OneEach(set)
    BY <2>1 DEF OneEach
  <2>4. ASSUME NEW s \in servers, NEW t \in servers, s.ip = t.ip PROVE s = t
    <3>1. PICK m \in Built :
            s = [name |-> m, key |-> k[m], ip |-> i[m], addr |-> f[m], joined |-> TRUE]
      BY <2>1
    <3>2. PICK n \in Built :
            t = [name |-> n, key |-> k[n], ip |-> i[n], addr |-> f[n], joined |-> TRUE]
      BY <2>1
    <3>3. i[m] = i[n]
      BY <2>4, <3>1, <3>2
    <3>4. m = n
      BY <2>1, <3>3
    <3> QED
      BY <3>1, <3>2, <3>4
  <2>5. ASSUME NEW q \in hubFile PROVE Held(q)
    <3>1. PICK n \in Built : q = [addr |-> f[n], key |-> k[n]]
      BY <2>1
    <3> DEFINE s == [name |-> n, key |-> k[n], ip |-> i[n], addr |-> f[n], joined |-> TRUE]
               e == [name |-> n, addr |-> f[n]]
    <3>2. s \in servers /\ e \in set \cap committed
      BY <2>1, <2>2
    <3>3. s.addr = q.addr /\ s.key = q.key /\ e.addr = q.addr /\ e.name = s.name
      BY <3>1
    <3> HIDE DEF s, e
    <3> QED
      BY <3>2, <3>3 DEF Held
  <2> QED
    BY <2>2, <2>3, <2>4, <2>5 DEF HeldInv
<1> QED
  BY <1>1, <1>2, <1>3 DEF HInv

(* While one run at a time is under way, wherever each stops: every peer   *)
(* of the hub, in its file and live, and every pin at a VPN address is a   *)
(* server's that the set declares there (stages/worker_remove.go HubPeer-  *)
(* Remove, cmd/node_remove.go, cmd/node_add.go).                           *)
THEOREM AddressesAreHeld == ASSUME OneRun PROVE Spec => []AddressHolders
<1>1. HInv => AddressHolders
  BY DEF HInv, HeldInv, Held, AddressHolders
<1> QED
  BY <1>1, AloneInit, AloneInductive, PTL DEF Spec

(* A server goes with the apply of its Worker's replacement, or with that  *)
(* of a deletion.                                                          *)
LEMMA ServerGoes ==
  ASSUME TypeOK, [Next]_vars, NEW s \in servers, \A t \in servers' : t.key # s.key
  PROVE  \E p \in Procs : name[p] = s.name /\ (Replace(p) \/ ReplaceFails(p) \/ Delete(p))
<1>1. s \notin servers' /\ ~UNCHANGED servers
  OBVIOUS
<1> USE DEF fileVars, cloudVars, clusterVars, pinVars, worldVars
<1>2. ~(UNCHANGED vars \/ Environment)
  BY <1>1 DEF vars, Environment, Commit, Revert, Kubelets, KubeletStop, KubeletRestart,
     DeleteNodeByHand, NodeForgotten
<1>3. PICK p \in Procs : \/ Step(p) \/ Stop(p) \/ ReplaceFails(p)
                         \/ \E n \in Names : Start(p, n)
  BY <1>2 DEF Next
<1>4. ~(Stop(p) \/ Refuse(p) \/ \E n \in Names : Start(p, n))
  BY <1>1 DEF Stop, Refuse, Start, NodeAdd, NodeRemove, NodeReplace, Begin
<1>5. ~Create(p)
  BY <1>1 DEF Create, NewServer
<1>6. ASSUME Join(p) PROVE FALSE
  <2>1. PICK o \in servers, t \in servers' : /\ servers' = (servers \ {o}) \cup {t}
                                             /\ t.key = o.key
    BY <1>6, JoinsOne
  <2> QED
    BY <1>1, <2>1
<1>7. AddStep(p) => FALSE
  BY <1>1, <1>5, <1>6 DEF AddStep, Declare, CheckNoNode, PlanCreate, Plan, PinCreated, Build, HubPeer,
     HubSet, PinVPN, NodeReady
<1>8. LeaveStep(p) => Replace(p) \/ Delete(p)
  BY <1>1 DEF LeaveStep, CheckRetirable, Drain, DeleteNode, HubPeerRemoveFile, HubPeerRemoveLive,
     UnpinVPN, Undeclare, NodeGone, PlanDelete, Plan, UnpinPublic, PlanReplace
<1>9. Replace(p) \/ ReplaceFails(p) \/ Delete(p)
  BY <1>3, <1>4, <1>7, <1>8 DEF Step
<1>10. servers \ Named(servers, name[p]) \subseteq servers'
  BY <1>9 DEF Replace, NewServer, ReplaceFails, Delete
<1> QED
  BY <1>1, <1>9, <1>10 DEF Named

(* With one run at a time, the run that deletes a server has held the set  *)
(* as git has it since it began: git has let the Worker go, and nothing    *)
(* declares it before the apply (node_remove.go:160).                      *)
THEOREM DeclaredServersStay == ASSUME OneRun PROVE Spec => DeclaredStays
<1>1. ASSUME HInv, [Next]_vars, NEW s \in servers, NEW e \in committed, e.name = s.name,
             \A t \in servers' : t.key # s.key
      PROVE  \E p \in Procs : name[p] = s.name /\ (Replace(p) \/ ReplaceFails(p))
  <2>1. TypeOK
    BY <1>1 DEF HInv, WInv
  <2>2. PICK p \in Procs : name[p] = s.name /\ (Replace(p) \/ ReplaceFails(p) \/ Delete(p))
    BY <1>1, <2>1, ServerGoes
  <2>3. ASSUME Delete(p) PROVE FALSE
    <3>1. set = committed /\ ~Declared(name[p])
      BY <1>1, <2>3 DEF HInv, AloneInv, Delete
    <3> QED
      BY <1>1, <2>2, <3>1 DEF Declared, Named
  <2> QED
    BY <2>2, <2>3
<1>2. HInv /\ [Next]_vars =>
        [\A s \in servers :
           (\E e \in committed : e.name = s.name) /\ (\A t \in servers' : t.key # s.key)
             => \E p \in Procs : name[p] = s.name /\ (Replace(p) \/ ReplaceFails(p))]_vars
  BY <1>1
<1> QED
  BY <1>2, AloneInit, AloneInductive, PTL DEF Spec, DeclaredStays

-----------------------------------------------------------------------------
(* What no kubelet and no stop has disturbed.                              *)

(* Until a kubelet stops or starts again, what the run read at its check   *)
(* holds to the end of the drain, and a drained Node is cordoned.          *)
RestInv(p) ==
  restarts = 0 =>
    /\ pc[p] \in {"drain", "deleteNode"} => MayLeave(name[p])
    /\ pc[p] = "deleteNode" => \A nd \in Named(nodes, name[p]) : nd.cordoned

(* Until a run stops too, the Nodes it cordoned are those it is about to   *)
(* delete.                                                                 *)
CordonInv ==
  restarts = 0 /\ stops = 0 =>
    \A nd \in nodes : nd.cordoned => \E p \in Procs : pc[p] = "deleteNode" /\ name[p] = nd.name

NInv == HInv /\ CordonInv /\ \A p \in Procs : RestInv(p)

(* The counters of kubelets and stops only grow.                           *)
LEMMA CountersGrow ==
  ASSUME TypeOK, [Next]_vars
  PROVE  /\ restarts' = 0 => restarts = 0 /\ ~Kubelets
         /\ stops' = 0 => stops = 0 /\ \A p \in Procs : ~Stop(p) /\ ~ReplaceFails(p)
<1>t. stops \in Nat /\ restarts \in Nat
  BY DEF TypeOK
<1>1. restarts' = restarts \/ restarts' = restarts + 1
  <2>1. CASE UNCHANGED vars \/ Environment
    BY <2>1 DEF vars, Environment, Commit, Revert, Kubelets, KubeletStop, KubeletRestart,
       DeleteNodeByHand, NodeForgotten
  <2>2. ASSUME NEW p \in Procs, AddStep(p) PROVE restarts' = restarts
    BY <2>2 DEF AddStep, Declare, CheckNoNode, PlanCreate, Plan, Create, PinCreated, Build, HubPeer,
       HubSet, PinVPN, Join, NodeReady
  <2>3. ASSUME NEW p \in Procs, LeaveStep(p) PROVE restarts' = restarts
    BY <2>3 DEF LeaveStep, CheckRetirable, Drain, DeleteNode, HubPeerRemoveFile, HubPeerRemoveLive,
       UnpinVPN, Undeclare, NodeGone, PlanDelete, Plan, Delete, UnpinPublic, PlanReplace, Replace
  <2>4. ASSUME NEW p \in Procs, Refuse(p) \/ Stop(p) \/ ReplaceFails(p) \/ \E n \in Names : Start(p, n)
        PROVE  restarts' = restarts
    BY <2>4 DEF Refuse, Stop, ReplaceFails, Start, NodeAdd, NodeRemove, NodeReplace, Begin
  <2> QED
    BY <2>1, <2>2, <2>3, <2>4 DEF Next, Step
<1>2. stops' = stops \/ stops' = stops + 1
  <2>1. CASE UNCHANGED vars \/ Environment
    BY <2>1 DEF vars, Environment, Commit, Revert, Kubelets, KubeletStop, KubeletRestart,
       DeleteNodeByHand, NodeForgotten
  <2>2. ASSUME NEW p \in Procs, AddStep(p) PROVE stops' = stops
    BY <2>2 DEF AddStep, Declare, CheckNoNode, PlanCreate, Plan, Create, PinCreated, Build, HubPeer,
       HubSet, PinVPN, Join, NodeReady
  <2>3. ASSUME NEW p \in Procs, LeaveStep(p) PROVE stops' = stops
    BY <2>3 DEF LeaveStep, CheckRetirable, Drain, DeleteNode, HubPeerRemoveFile, HubPeerRemoveLive,
       UnpinVPN, Undeclare, NodeGone, PlanDelete, Plan, Delete, UnpinPublic, PlanReplace, Replace
  <2>4. ASSUME NEW p \in Procs, Refuse(p) \/ Stop(p) \/ ReplaceFails(p) \/ \E n \in Names : Start(p, n)
        PROVE  stops' = stops \/ stops' = stops + 1
    BY <2>4 DEF Refuse, Stop, ReplaceFails, Start, NodeAdd, NodeRemove, NodeReplace, Begin
  <2> QED
    BY <2>1, <2>2, <2>3, <2>4 DEF Next, Step
<1>3. Kubelets => restarts' = restarts + 1
  BY DEF Kubelets, KubeletStop, KubeletRestart
<1>4. \A p \in Procs : Stop(p) \/ ReplaceFails(p) => stops' = stops + 1
  BY DEF Stop, ReplaceFails
<1> QED
  BY <1>t, <1>1, <1>2, <1>3, <1>4

(* What the environment leaves alone, but for the kubelets: while a run is *)
(* under way only Nodes that are not Ready go.                             *)
LEMMA QuietAround ==
  ASSUME UNCHANGED vars \/ Environment, ~Kubelets
  PROVE  /\ nodes' \subseteq nodes /\ UNCHANGED <<pc, name, servers>>
         /\ (\E p \in Procs : pc[p] # "idle") => \A nd \in nodes : Ready(nd) => nd \in nodes'
BY DEF Ready, vars, worldVars, clusterVars, cloudVars, runVars, Environment, Commit, Revert,
   DeleteNodeByHand, NodeForgotten

(* A cordon leaves each Node its name, and that of the others their state. *)
LEMMA DrainIs ==
  ASSUME TypeOK, NEW p \in Procs, Drain(p)
  PROVE  /\ pc[p] = "drain" /\ pc'[p] = "deleteNode" /\ UNCHANGED <<name, servers>>
         /\ \A x \in nodes' : IF x.name = name[p]
              THEN x.cordoned /\ \E nd \in nodes : nd.name = x.name /\ nd.ready = x.ready
              ELSE x \in nodes
         /\ \A nd \in nodes : nd.name # name[p] => nd \in nodes'
<1>1. nodes' = {IF nd.name = name[p] THEN [nd EXCEPT !.cordoned = TRUE] ELSE nd : nd \in nodes}
  BY DEF Drain
<1>2. ASSUME NEW nd \in nodes, NEW x, x = [nd EXCEPT !.cordoned = TRUE]
      PROVE  x.name = nd.name /\ x.cordoned /\ x.ready = nd.ready
  BY <1>2 DEF TypeOK, Node
<1>3. pc[p] = "drain" /\ pc'[p] = "deleteNode" /\ UNCHANGED <<name, servers>>
  BY DEF Drain, Go, TypeOK, runVars, cloudVars
<1> QED
  BY <1>1, <1>2, <1>3

(* A run comes to the drain from its check, and to the deletion from the   *)
(* drain.                                                                  *)
LEMMA ToDrain ==
  ASSUME OneRun, TypeOK, [Next]_vars, NEW p \in Procs, pc'[p] \in {"drain", "deleteNode"}
  PROVE  CheckRetirable(p) \/ Drain(p) \/ UNCHANGED vars \/ Environment
<1>t. pc \in [Procs -> Steps]
  BY DEF TypeOK
<1>p. ASSUME NEW q \in Procs PROVE q = p
  BY DEF OneRun
<1>1. ASSUME NEW n \in Names, Start(p, n) PROVE FALSE
  BY <1>t, <1>1 DEF Start, NodeAdd, NodeRemove, NodeReplace, Begin
<1>2. ASSUME End(p) PROVE FALSE
  BY <1>t, <1>2 DEF End
<1>3. ASSUME NEW s, s \notin {"drain", "deleteNode"}, pc' = [pc EXCEPT ![p] = s] PROVE FALSE
  BY <1>t, <1>3
<1>4. AddStep(p) => FALSE
  BY <1>2, <1>3 DEF AddStep, Declare, CheckNoNode, PlanCreate, Plan, Create, PinCreated, Build, HubPeer,
     HubSet, PinVPN, Join, NodeReady, Go
<1>5. LeaveStep(p) => CheckRetirable(p) \/ Drain(p)
  BY <1>2, <1>3 DEF LeaveStep, DeleteNode, HubPeerRemoveFile, HubPeerRemoveLive, UnpinVPN, Undeclare,
     NodeGone, PlanDelete, Plan, Delete, UnpinPublic, PlanReplace, Replace, Go
<1>6. Refuse(p) \/ Stop(p) \/ ReplaceFails(p) => FALSE
  BY <1>2 DEF Refuse, Stop, ReplaceFails
<1> QED
  BY <1>p, <1>1, <1>4, <1>5, <1>6 DEF Next, Step

(* A check stays true where the Ready Nodes of others stay, and those of   *)
(* the name that are Ready were so before.                                 *)
LEMMA LeaveStays ==
  ASSUME NEW n, MayLeave(n), UNCHANGED servers,
         \A nd \in nodes : nd.name # n /\ Ready(nd) => nd \in nodes',
         \A x \in Named(nodes', n) : \E nd \in Named(nodes, n) : nd.ready = x.ready
  PROVE  MayLeave(n)'
<1>1. \A nd : Ready(nd)' = Ready(nd)
  BY DEF Ready, Hosted
<1>2. CASE \E nd \in nodes : nd.name # n /\ Ready(nd)
  BY <1>1, <1>2 DEF MayLeave
<1>3. CASE \A nd \in Named(nodes, n) : ~Ready(nd)
  BY <1>1, <1>3 DEF MayLeave, Ready, Hosted, Named
<1> QED
  BY <1>2, <1>3 DEF MayLeave

(* It does so whatever happens around a run but a kubelet's stop or start, *)
(* and through its drain.                                                  *)
LEMMA AroundLeaves ==
  ASSUME UNCHANGED vars \/ Environment, ~Kubelets, NEW p \in Procs, pc[p] # "idle", MayLeave(name[p])
  PROVE  MayLeave(name[p])'
<1>1. /\ nodes' \subseteq nodes /\ UNCHANGED <<name, servers>>
      /\ \A nd \in nodes : Ready(nd) => nd \in nodes'
  BY QuietAround
<1>2. PICK n : n = name[p] /\ n = name'[p]
  BY <1>1
<1>3. MayLeave(n)'
  BY <1>1, <1>2, LeaveStays DEF Named
<1> QED
  BY <1>2, <1>3 DEF MayLeave

LEMMA DrainLeaves ==
  ASSUME TypeOK, NEW p \in Procs, Drain(p), MayLeave(name[p])
  PROVE  MayLeave(name[p])'
<1>1. /\ UNCHANGED <<name, servers>>
      /\ \A x \in nodes' : x.name = name[p] => \E nd \in nodes : nd.name = x.name /\ nd.ready = x.ready
      /\ \A nd \in nodes : nd.name # name[p] => nd \in nodes'
  BY DrainIs
<1>2. PICK n : n = name[p] /\ n = name'[p]
  BY <1>1
<1>3. MayLeave(n)'
  BY <1>1, <1>2, LeaveStays DEF Named
<1> QED
  BY <1>2, <1>3 DEF MayLeave

LEMMA RestKept == ASSUME OneRun, NInv, [Next]_vars, NEW p \in Procs PROVE RestInv(p)'
<1>0. TypeOK /\ RestInv(p)
  BY DEF NInv, HInv, WInv
<1> SUFFICES ASSUME restarts' = 0, pc'[p] \in {"drain", "deleteNode"}
             PROVE  /\ MayLeave(name[p])'
                    /\ pc'[p] = "deleteNode" => \A nd \in Named(nodes, name[p])' : nd.cordoned
  BY DEF RestInv
<1>1. restarts = 0 /\ ~Kubelets
  BY <1>0, CountersGrow
<1>2. CASE UNCHANGED vars \/ Environment
  <2>1. nodes' \subseteq nodes /\ UNCHANGED <<pc, name>>
    BY <1>1, <1>2, QuietAround
  <2>2. MayLeave(name[p]) /\ (pc[p] = "deleteNode" => \A nd \in Named(nodes, name[p]) : nd.cordoned)
    BY <1>0, <1>1, <2>1 DEF RestInv
  <2>3. (MayLeave(name[p]))'
    BY <1>1, <1>2, <2>1, <2>2, AroundLeaves
  <2> QED
    BY <2>1, <2>2, <2>3 DEF Named
<1>3. CASE CheckRetirable(p)
  <2>1. /\ pc'[p] = "drain" /\ MayLeave(name[p]) /\ UNCHANGED <<nodes, name, servers>>
    BY <1>0, <1>3, GoesOn DEF CheckRetirable, worldVars, clusterVars, cloudVars, Go, runVars
  <2> QED
    BY <2>1 DEF MayLeave, Named, Ready, Hosted
<1>4. CASE Drain(p)
  <2>1. /\ pc[p] = "drain" /\ UNCHANGED name
        /\ \A x \in nodes' : x.name = name[p] => x.cordoned
    BY <1>0, <1>4, DrainIs
  <2>2. MayLeave(name[p])
    BY <1>0, <1>1, <2>1 DEF RestInv
  <2> QED
    BY <1>0, <1>4, <2>1, <2>2, DrainLeaves DEF Named
<1> QED
  BY <1>0, <1>2, <1>3, <1>4, ToDrain

(* Nodes come with a join and the kubelets, cordoned by a drain only.      *)
NamesStay ==
  /\ \A x \in nodes' : x.cordoned => \E nd \in nodes : nd.name = x.name /\ nd.cordoned
  /\ \A nd \in nodes : \E x \in nodes' : x.name = nd.name

LEMMA NodesMove ==
  ASSUME TypeOK, [Next]_vars
  PROVE  \/ UNCHANGED vars \/ Environment
         \/ \E p \in Procs :
              \/ Drain(p) \/ DeleteNode(p)
              \/ /\ Step(p) \/ Stop(p) \/ ReplaceFails(p) \/ \E n \in Names : Start(p, n)
                 /\ ~Drain(p) /\ ~DeleteNode(p)
                 /\ NamesStay
<1> USE DEF worldVars, clusterVars
<1>0. UNCHANGED nodes => NamesStay
  BY DEF NamesStay
<1>1. ASSUME NEW p \in Procs, AddStep(p) PROVE NamesStay
  <2>1. CASE Join(p)
    <3>1. PICK s \in servers : nodes' = nodes \/ nodes' = Posts(s)
      BY <2>1 DEF Join, Reached
    <3> QED
      BY <1>0, <3>1, PostsMove DEF NamesStay
  <2>2. CASE ~Join(p)
    <3>1. UNCHANGED nodes
      BY <1>1, <2>2 DEF AddStep, Declare, CheckNoNode, PlanCreate, Plan, Create, PinCreated, Build, HubPeer,
         HubSet, PinVPN, NodeReady
    <3> QED
      BY <1>0, <3>1
  <2> QED
    BY <2>1, <2>2
<1>2. ASSUME NEW p \in Procs, LeaveStep(p), ~Drain(p), ~DeleteNode(p) PROVE UNCHANGED nodes
  BY <1>2 DEF LeaveStep, CheckRetirable, HubPeerRemoveFile, HubPeerRemoveLive,
     UnpinVPN, Undeclare, NodeGone, PlanDelete, Plan, Delete, UnpinPublic, PlanReplace, Replace
<1>3. ASSUME NEW p \in Procs, Refuse(p) \/ Stop(p) \/ ReplaceFails(p) \/ \E n \in Names : Start(p, n)
      PROVE  UNCHANGED nodes
  BY <1>3 DEF Refuse, Stop, ReplaceFails, Start, NodeAdd, NodeRemove, NodeReplace, Begin
<1> QED
  BY <1>0, <1>1, <1>2, <1>3 DEF Next, Step

(* At the deletion a run deletes the Nodes, refuses or is stopped.         *)
LEMMA AtDeletion ==
  ASSUME NEW p \in Procs, pc[p] = "deleteNode",
         Step(p) \/ Stop(p) \/ ReplaceFails(p) \/ \E n \in Names : Start(p, n)
  PROVE  \/ DeleteNode(p) \/ Stop(p)
         \/ \E nd \in Named(nodes, name[p]) : ~nd.cordoned
<1>1. ~AddStep(p)
  BY DEF AddStep, Declare, CheckNoNode, PlanCreate, Create, PinCreated, Build, HubPeer, HubSet, PinVPN,
     Join, NodeReady
<1>2. LeaveStep(p) => DeleteNode(p)
  BY DEF LeaveStep, CheckRetirable, Drain, HubPeerRemoveFile, HubPeerRemoveLive, UnpinVPN, Undeclare,
     NodeGone, PlanDelete, Delete, UnpinPublic, PlanReplace, Replace
<1>3. ~ReplaceFails(p) /\ ~(\E n \in Names : Start(p, n))
  BY DEF ReplaceFails, Start, NodeAdd, NodeRemove, NodeReplace, Begin
<1>4. Refuse(p) => \E nd \in Named(nodes, name[p]) : ~nd.cordoned
  BY DEF Refuse, Refuses
<1> QED
  BY <1>1, <1>2, <1>3, <1>4 DEF Step

LEMMA CordonKept == ASSUME OneRun, NInv, [Next]_vars PROVE CordonInv'
<1>0. TypeOK /\ CordonInv /\ \A p \in Procs : RestInv(p)
  BY DEF NInv, HInv, WInv
<1>p. \A p, q \in Procs : p = q
  BY DEF OneRun
<1> SUFFICES ASSUME restarts' = 0, stops' = 0, NEW x \in nodes', x.cordoned
             PROVE  \E p \in Procs : pc'[p] = "deleteNode" /\ name'[p] = x.name
  BY DEF CordonInv
<1>1. /\ restarts = 0 /\ ~Kubelets
      /\ stops = 0 /\ \A p \in Procs : ~Stop(p) /\ ~ReplaceFails(p)
  BY <1>0, CountersGrow
<1>2. ASSUME NEW c \in nodes, c.cordoned PROVE \E p \in Procs : pc[p] = "deleteNode" /\ name[p] = c.name
  BY <1>0, <1>1, <1>2 DEF CordonInv
<1>3. CASE UNCHANGED vars \/ Environment
  BY <1>1, <1>2, <1>3, QuietAround
<1>4. ASSUME NEW p \in Procs, Drain(p) PROVE pc'[p] = "deleteNode" /\ name'[p] = x.name
  <2>1. /\ pc[p] = "drain" /\ pc'[p] = "deleteNode" /\ UNCHANGED name
        /\ x.name = name[p] \/ x \in nodes
    BY <1>0, <1>4, DrainIs
  <2> QED
    BY <1>2, <1>p, <2>1
<1>5. ASSUME NEW p \in Procs, DeleteNode(p) PROVE FALSE
  <2>1. x \in nodes /\ x.name # name[p]
    BY <1>5 DEF DeleteNode, Named
  <2> QED
    BY <1>2, <1>p, <2>1
<1>6. ASSUME NEW p \in Procs, Step(p) \/ ReplaceFails(p) \/ Stop(p) \/ \E n \in Names : Start(p, n),
             ~DeleteNode(p), NamesStay
      PROVE  FALSE
  <2>1. pc[p] = "deleteNode" /\ name[p] = x.name
    BY <1>2, <1>6, <1>p DEF NamesStay
  <2>2. \A nd \in Named(nodes, name[p]) : nd.cordoned
    BY <1>0, <1>1, <2>1 DEF RestInv
  <2> QED
    BY <1>1, <1>6, <2>1, <2>2, AtDeletion
<1> QED
  BY <1>0, <1>3, <1>4, <1>5, <1>6, NodesMove

LEMMA NKept == ASSUME OneRun PROVE NInv /\ [Next]_vars => NInv'
BY AloneInductive, CordonKept, RestKept DEF NInv

LEMMA NInit == Init => NInv
<1> SUFFICES ASSUME Init PROVE NInv
  OBVIOUS
<1>1. \A p \in Procs : RestInv(p)
  BY DEF Init, RestInv
<1>2. ASSUME NEW nd \in nodes PROVE ~nd.cordoned
  <2>1. PICK k, n : nd = [name |-> n, key |-> k[n], cordoned |-> FALSE, ready |-> TRUE]
    BY DEF Init
  <2> QED
    BY <2>1
<1> QED
  BY <1>1, <1>2, AloneInit DEF NInv, CordonInv

(* With one run at a time, only a kubelet undoes what notLastReadyWorker   *)
(* read, up to the end of the drain: nothing that is forgotten, committed  *)
(* or reverted meanwhile and no run that stopped before takes the other    *)
(* Ready Worker away (cmd/node_replace.go).                                *)
THEOREM OnlyKubeletsUndo == ASSUME OneRun PROVE Spec => CheckLasts
<1>1. ASSUME TypeOK, [Next]_vars, NEW p \in Procs, pc[p] \in {"drain", "deleteNode"},
             MayLeave(name[p]), ~Kubelets, pc'[p] # "idle"
      PROVE  MayLeave(name[p])'
  <2>1. CASE UNCHANGED vars \/ Environment
    BY <1>1, <2>1, AroundLeaves
  <2>2. CASE Drain(p)
    BY <1>1, <2>2, DrainLeaves
  <2>3. CASE DeleteNode(p)
    <3>1. UNCHANGED name /\ \A x \in nodes' : x.name # name[p]
      BY <2>3 DEF DeleteNode, Go, runVars, Named
    <3> QED
      BY <3>1 DEF MayLeave, Named
  <2>4. CASE ~(UNCHANGED vars \/ Environment) /\ ~Drain(p) /\ ~DeleteNode(p)
    <3>1. \A q \in Procs : q = p
      BY DEF OneRun
    <3>2. Step(p) \/ Stop(p) \/ ReplaceFails(p) \/ \E n \in Names : Start(p, n)
      BY <1>1, <2>4, <3>1 DEF Next
    <3>3. ~End(p)
      BY <1>1 DEF End, TypeOK
    <3>4. ~AddStep(p) /\ ~LeaveStep(p)
      BY <1>1, <2>4 DEF AddStep, Declare, CheckNoNode, PlanCreate, Create, PinCreated, Build, HubPeer,
         HubSet, PinVPN, Join, NodeReady, LeaveStep, CheckRetirable, HubPeerRemoveFile,
         HubPeerRemoveLive, UnpinVPN, Undeclare, NodeGone, PlanDelete, Delete, UnpinPublic,
         PlanReplace, Replace
    <3>5. ~(Refuse(p) \/ Stop(p) \/ ReplaceFails(p) \/ \E n \in Names : Start(p, n))
      BY <1>1, <3>3 DEF Refuse, Stop, ReplaceFails, Start, NodeAdd, NodeRemove, NodeReplace, Begin
    <3> QED
      BY <3>2, <3>4, <3>5 DEF Step
  <2> QED
    BY <2>1, <2>2, <2>3, <2>4
<1>2. TypeOK /\ [Next]_vars =>
        [\A p \in Procs :
           (pc[p] \in {"drain", "deleteNode"} /\ MayLeave(name[p]) /\ ~Kubelets)
             => pc'[p] = "idle" \/ MayLeave(name[p])']_vars
  BY <1>1
<1> QED
  BY <1>2, WorkerTypes, PTL DEF Spec, CheckLasts

(* If no run stopped either, a drain leaves the pods a Ready Node that     *)
(* takes them (cmd/node_replace.go, "Ready to take its pods").             *)
THEOREM PlaceUntilStopped == ASSUME OneRun PROVE Spec => PlaceUntilStop
<1>1. ASSUME NInv, [Next]_vars, restarts' = 0, stops' = 0, NEW nd \in nodes, Ready(nd), ~nd.cordoned,
             NEW x \in nodes', x.name = nd.name, x.cordoned
      PROVE  \E other \in nodes' : other.name # nd.name /\ Ready(other) /\ ~other.cordoned
  <2>0. TypeOK /\ CordonInv /\ (\A p \in Procs : RestInv(p)) /\ \A p, q \in Procs : p = q
    BY <1>1 DEF NInv, HInv, WInv, OneRun
  <2>1. restarts = 0 /\ stops = 0 /\ ~Kubelets
    BY <1>1, <2>0, CountersGrow
  <2>2. ASSUME NEW c \in nodes, c.cordoned PROVE \E p \in Procs : pc[p] = "deleteNode" /\ name[p] = c.name
    BY <2>0, <2>1, <2>2 DEF CordonInv
  <2>3. ASSUME NEW c \in nodes, c.cordoned, c.name = x.name PROVE FALSE
    <3>1. PICK p \in Procs : pc[p] = "deleteNode" /\ name[p] = x.name
      BY <2>2, <2>3
    <3> QED
      BY <1>1, <2>0, <2>1, <3>1 DEF RestInv, Named
  <2>4. PICK p \in Procs : Drain(p)
    <3>1. ~(UNCHANGED vars \/ Environment)
      BY <1>1, <2>1, <2>3, QuietAround
    <3>2. ASSUME NEW p \in Procs, DeleteNode(p) PROVE FALSE
      BY <1>1, <2>3, <3>2 DEF DeleteNode
    <3> QED
      BY <1>1, <2>0, <2>3, <3>1, <3>2, NodesMove DEF NamesStay
  <2>5. /\ pc[p] = "drain" /\ UNCHANGED servers
        /\ x.name = name[p] \/ x \in nodes
        /\ \A c \in nodes : c.name # name[p] => c \in nodes'
    BY <2>0, <2>4, DrainIs
  <2>6. MayLeave(name[p]) /\ x.name = name[p]
    BY <1>1, <2>0, <2>1, <2>3, <2>5 DEF RestInv
  <2>7. PICK other \in nodes : other.name # name[p] /\ Ready(other)
    BY <1>1, <2>6 DEF MayLeave, Named
  <2>8. ~other.cordoned
    BY <2>0, <2>2, <2>5
  <2> QED
    BY <1>1, <2>3, <2>5, <2>7, <2>8
<1>2. NInv /\ [Next]_vars =>
        [restarts' = 0 /\ stops' = 0 =>
           \A nd \in nodes :
             (Ready(nd) /\ ~nd.cordoned /\ \E x \in nodes' : x.name = nd.name /\ x.cordoned)
               => \E other \in nodes' : other.name # nd.name /\ Ready(other) /\ ~other.cordoned]_vars
  BY <1>1
<1> QED
  BY <1>2, NInit, NKept, PTL DEF Spec, PlaceUntilStop

-----------------------------------------------------------------------------
(* The refinement of AddressLease.                                         *)

(* A server as the leases see it, and what stands for one at an address.   *)
MachineOf(s) == [name |-> s.name, addr |-> s.addr, key |-> s.key]
Leased   == set \cup committed
Machines == {MachineOf(s) : s \in servers}
Uses     == hubFile \cup hubLive \cup vpnPins

(* Two entries differ in name and address, two servers in their keys too,  *)
(* and a Worker whose server a run is about to create has none.            *)
ApartInv ==
  /\ \A e, f \in Leased : e.name = f.name \/ e.addr = f.addr => e = f
  /\ \A s, t \in servers : s.name = t.name \/ s.addr = t.addr \/ s.key = t.key => s = t
  /\ \A s \in servers : s.key <= made
NoneYet(p) == pc[p] \in {"checkNode", "planCreate", "create"} => Named(servers, name[p]) = {}

LInv == HInv /\ ApartInv /\ \A p \in Procs : NoneYet(p)

LEMMA MachineOfIs ==
  \A s : /\ MachineOf(s).name = s.name /\ MachineOf(s).addr = s.addr
         /\ MachineOf(s).key = s.key
BY DEF MachineOf

(* The server an apply creates, beside those it leaves.                    *)
LEMMA NewApart ==
  ASSUME LInv, NEW p \in Procs, pc[p] # "idle", NEW others \in SUBSET servers,
         NewServer(p, others), \A o \in others : o.name # name[p]
  PROVE  \E s \in servers' :
           /\ servers' = others \cup {s} /\ made' = made + 1
           /\ s.key = made + 1 /\ s.name = name[p]
           /\ \E e \in Entries(p) : e.addr = s.addr
           /\ \A o \in others : o.name # s.name /\ o.addr # s.addr
           /\ \A o \in servers : o.key # s.key /\ o.key <= made
<1>1. PICK e \in Entries(p), i \in IPs :
        /\ At(others, e.addr) = {} /\ made' = made + 1
        /\ servers' = others \cup {[name |-> name[p], key |-> made + 1, ip |-> i, addr |-> e.addr, joined |-> FALSE]}
  BY DEF NewServer
<1>a. PICK s : s = [name |-> name[p], key |-> made + 1, ip |-> i, addr |-> e.addr, joined |-> FALSE]
  OBVIOUS
<1>2. servers' = others \cup {s} /\ s.key = made + 1 /\ s.name = name[p] /\ s.addr = e.addr
  BY <1>1, <1>a
<1>3. made \in Nat /\ \A o \in servers : o.key \in Nat
  BY DEF LInv, HInv, WInv, TypeOK, Server
<1>4. \A o \in servers : o.key <= made /\ o.key # made + 1
  BY <1>3 DEF LInv, ApartInv
<1>5. \A o \in others : o.addr # s.addr
  BY <1>1, <1>2 DEF At
<1> QED
  BY <1>1, <1>2, <1>4, <1>5

(* Servers that come and go stay apart.                                    *)
LEMMA ServersApart ==
  ASSUME LInv, [Next]_vars
  PROVE  /\ \A s, t \in servers' : s.name = t.name \/ s.addr = t.addr \/ s.key = t.key => s = t
         /\ \A s \in servers' : s.key <= made'
<1>t. TypeOK /\ made \in Nat /\ \A o \in servers : o.key \in Nat
  BY DEF LInv, HInv, WInv, TypeOK, Server
<1>0. /\ \A s, t \in servers : s.name = t.name \/ s.addr = t.addr \/ s.key = t.key => s = t
      /\ \A s \in servers : s.key <= made
  BY DEF LInv, ApartInv
<1> DEFINE Goal == /\ \A s, t \in servers' : s.name = t.name \/ s.addr = t.addr \/ s.key = t.key => s = t
                   /\ \A s \in servers' : s.key <= made'
<1>1. ASSUME servers' \subseteq servers, made' = made PROVE Goal
  BY <1>0, <1>1
<1>2. ASSUME NEW p \in Procs, NEW others \in SUBSET servers, pc[p] # "idle", NewServer(p, others),
             \A o \in others : o.name # name[p]
      PROVE  Goal
  <2>1. PICK s : /\ servers' = others \cup {s} /\ made' = made + 1 /\ s.key = made + 1
                 /\ \A o \in others : o.name # s.name /\ o.addr # s.addr
                 /\ \A o \in servers : o.key # s.key /\ o.key <= made
    BY <1>2, NewApart
  <2>2. \A o \in servers' : o.key <= made'
    BY <1>t, <2>1
  <2> QED
    BY <1>0, <2>1, <2>2
<1>3. ASSUME NEW p \in Procs, Create(p) \/ Replace(p) PROVE Goal
  <2>1. CASE Create(p)
    <3>1. \A o \in servers : o.name # name[p]
      BY <2>1 DEF Create, LInv, NoneYet, Named
    <3> QED
      BY <1>2, <2>1, <3>1 DEF Create
  <2>2. CASE Replace(p)
    <3>1. \A o \in servers \ Named(servers, name[p]) : o.name # name[p]
      BY DEF Named
    <3> QED
      BY <1>2, <2>2, <3>1 DEF Replace
  <2> QED
    BY <1>3, <2>1, <2>2
<1>4. ASSUME NEW p \in Procs, Join(p) PROVE Goal
  BY <1>t, <1>0, <1>4, JoinsOne
<1> QED
  BY <1>1, <1>3, <1>4, ServersMove

(* A new entry has an address of its own (workerset.Next).                 *)
LEMMA DeclaredApart ==
  ASSUME LInv, NEW p \in Procs, Declare(p)
  PROVE  \E e \in set' : /\ set' = set \cup {e} /\ committed' = committed /\ set = committed
                         /\ e.name \in Names /\ e.addr \in Addrs /\ e \in Entry
                         /\ \A d \in set : d.name # e.name /\ d.addr # e.addr
<1>t. TypeOK /\ AloneInv(p)
  BY DEF LInv, HInv, WInv
<1>1. loaded[p] = set /\ set = committed /\ ~Declared(name[p]) /\ UNCHANGED committed
  BY <1>t DEF Declare, AloneInv
<1>2. PICK a : a = Lowest(Free(set))
  OBVIOUS
<1>3. a \in Addrs /\ At(set, a) = {}
  <2>1. Free(set) \in SUBSET Addrs /\ Free(set) # {}
    BY <1>1 DEF Declare, Free
  <2>2. a \in Free(set)
    BY <1>2, <2>1, LowestIs
  <2> QED
    BY <2>2 DEF Free
<1>4. PICK e : e = [name |-> name[p], addr |-> a]
  OBVIOUS
<1>5. set' = set \cup {e}
  BY <1>1, <1>2, <1>4 DEF Declare
<1>6. e.name = name[p] /\ e.addr = a /\ name[p] \in Names /\ e \in Entry
  BY <1>t, <1>3, <1>4 DEF TypeOK, Entry
<1>7. \A d \in set : d.name # e.name /\ d.addr # e.addr
  BY <1>1, <1>3, <1>6 DEF Declared, Named, At
<1> QED
  BY <1>1, <1>3, <1>5, <1>6, <1>7

(* Entries that come and go stay apart.                                    *)
LEMMA EntriesApart ==
  ASSUME LInv, [Next]_vars
  PROVE  \A e, f \in Leased' : e.name = f.name \/ e.addr = f.addr => e = f
<1>0. \A e, f \in Leased : e.name = f.name \/ e.addr = f.addr => e = f
  BY DEF LInv, ApartInv
<1>1. CASE \E p \in Procs : Declare(p)
  BY <1>0, <1>1, DeclaredApart DEF Leased
<1>2. CASE ~\E p \in Procs : Declare(p)
  <2>1. ASSUME NEW p \in Procs, Undeclare(p) PROVE Leased' \subseteq Leased
    <3>1. loaded[p] = set /\ UNCHANGED committed
      BY <2>1 DEF Undeclare, LInv, HInv, AloneInv
    <3> QED
      BY <2>1, <3>1 DEF Undeclare, Leased
  <2>2. ASSUME UNCHANGED vars \/ Environment PROVE Leased' \subseteq Leased
    <3>1. CASE Commit \/ Revert
      BY <3>1 DEF Commit, Revert, Leased
    <3>2. CASE ~(Commit \/ Revert)
      <4>1. UNCHANGED <<set, committed>>
        BY <2>2, <3>2 DEF vars, worldVars, Environment, Kubelets, KubeletStop, KubeletRestart,
           DeleteNodeByHand,
           NodeForgotten, fileVars
      <4> QED
        BY <4>1 DEF Leased
    <3> QED
      BY <3>1, <3>2
  <2>3. ASSUME NEW p \in Procs, AddStep(p) PROVE UNCHANGED <<set, committed>>
    BY <1>2, <2>3 DEF AddStep, CheckNoNode, PlanCreate, Plan, Create, PinCreated, Build, HubPeer,
       HubSet, PinVPN, Join, NodeReady, worldVars, fileVars
  <2>4. ASSUME NEW p \in Procs, LeaveStep(p), ~Undeclare(p) PROVE UNCHANGED <<set, committed>>
    BY <2>4 DEF LeaveStep, CheckRetirable, Drain, DeleteNode, HubPeerRemoveFile,
       HubPeerRemoveLive, UnpinVPN, NodeGone, PlanDelete, Plan, Delete, UnpinPublic, PlanReplace,
       Replace, worldVars, fileVars
  <2>5. ASSUME NEW p \in Procs, Refuse(p) \/ Stop(p) \/ ReplaceFails(p) \/ \E n \in Names : Start(p, n)
        PROVE  UNCHANGED <<set, committed>>
    BY <2>5 DEF Refuse, Stop, ReplaceFails, Start, NodeAdd, NodeRemove, NodeReplace, Begin,
       worldVars, fileVars
  <2>6. UNCHANGED <<set, committed>> => Leased' \subseteq Leased
    BY DEF Leased
  <2>7. Leased' \subseteq Leased
    <3>1. CASE Next /\ ~Environment
      <4>1. PICK p \in Procs : \/ AddStep(p) \/ LeaveStep(p) \/ Refuse(p) \/ Stop(p)
                               \/ ReplaceFails(p) \/ \E n \in Names : Start(p, n)
        BY <3>1 DEF Next, Step
      <4> QED
        BY <2>1, <2>3, <2>4, <2>5, <2>6, <4>1
    <3> QED
      BY <2>2, <3>1
  <2> QED
    BY <1>0, <2>7
<1> QED
  BY <1>1, <1>2

(* From its first check to the apply, a run creates for a Worker that has  *)
(* no server.                                                              *)
LEMMA NoneYetKept == ASSUME OneRun, LInv, [Next]_vars PROVE \A p \in Procs : NoneYet(p)'
<1>t. TypeOK /\ \A p \in Procs : NoneYet(p)
  BY DEF LInv, HInv, WInv
<1> USE DEF fileVars, cloudVars, clusterVars, pinVars, worldVars, runVars
<1>1. CASE UNCHANGED vars \/ Environment
  <2>1. UNCHANGED <<pc, name, servers>>
    BY <1>1 DEF vars, Environment, Commit, Revert, Kubelets, KubeletStop, KubeletRestart,
       DeleteNodeByHand, NodeForgotten
  <2> QED
    BY <1>t, <2>1 DEF NoneYet, Named
<1>2. ASSUME NEW p \in Procs, NEW n \in Names, Step(p) \/ Stop(p) \/ ReplaceFails(p) \/ Start(p, n)
      PROVE  NoneYet(p)'
  <2>1. CASE CheckNoNode(p) \/ PlanCreate(p)
    <3>1. pc[p] \in {"checkNode", "planCreate"} /\ name'[p] = name[p] /\ UNCHANGED servers
      BY <2>1 DEF CheckNoNode, PlanCreate, Plan, Go
    <3> QED
      BY <1>t, <3>1 DEF NoneYet, Named
  <2>2. CASE Start(p, n)
    <3>1. PICK c, s : Begin(p, c, n, s) /\ (s = "checkNode" => Named(servers, n) = {})
                      /\ s \in {"declare", "checkNode", "build", "gates", "nodeGone", "planReplace"}
      BY <2>2 DEF Start, NodeAdd, NodeRemove, NodeReplace
    <3>2. pc'[p] = s /\ name'[p] = n /\ UNCHANGED servers
      BY <1>t, <3>1 DEF Begin, TypeOK
    <3> QED
      BY <3>1, <3>2 DEF NoneYet, Named
  <2>3. CASE Step(p) /\ ~CheckNoNode(p) /\ ~PlanCreate(p)
    <3>1. pc'[p] \notin {"checkNode", "planCreate", "create"}
      BY <1>t, <2>3, EndsIdle DEF Step, AddStep, LeaveStep, Declare, Create, PinCreated, Build,
         HubPeer, HubSet, PinVPN, Join, NodeReady, CheckRetirable, Drain, DeleteNode,
         HubPeerRemoveFile, HubPeerRemoveLive, UnpinVPN, Undeclare, NodeGone, PlanDelete, Delete,
         UnpinPublic, PlanReplace, Replace, Refuse, Plan, Go, TypeOK
    <3> QED
      BY <3>1 DEF NoneYet
  <2>4. CASE Stop(p) \/ ReplaceFails(p)
    BY <1>t, <2>4, EndsIdle DEF Stop, ReplaceFails, NoneYet
  <2> QED
    BY <1>2, <2>1, <2>2, <2>3, <2>4
<1>3. ASSUME NEW p \in Procs, NoneYet(p)', NEW q \in Procs PROVE NoneYet(q)'
  <2>1. q = p
    BY DEF OneRun
  <2> QED
    BY <1>3, <2>1
<1> QED
  BY <1>1, <1>2, <1>3, ConstantsAssumption DEF Next

LEMMA LeaseInductive == ASSUME OneRun PROVE LInv /\ [Next]_vars => LInv'
<1> SUFFICES ASSUME LInv, [Next]_vars PROVE LInv'
  OBVIOUS
<1>1. HInv'
  BY AloneInductive DEF LInv
<1>2. ApartInv'
  BY ServersApart, EntriesApart DEF ApartInv
<1> QED
  BY <1>1, <1>2, NoneYetKept DEF LInv

(* What is used is a server's, by an entry on disk and in git.             *)
LEMMA UsedBy ==
  ASSUME LInv, NEW u \in Uses
  PROVE  \E s \in servers, e \in set \cap committed : /\ s.addr = u.addr /\ s.key = u.key
                                                     /\ e.addr = u.addr /\ e.name = s.name
BY DEF LInv, HInv, HeldInv, Held, Uses

(* Only uses go, or nothing a lease is about changes.                      *)
LEMMA OnlyDrops ==
  ASSUME Leased' = Leased, Machines' = Machines, Uses' \subseteq Uses
  PROVE  Leases!Next
<1>1. Leases!Drop
  BY DEF Leases!Drop, Leased, Machines, MachineOf, Uses
<1> QED
  BY <1>1 DEF Leases!Next

(* node add leases the lowest free address.                                *)
LEMMA DeclareGrants == ASSUME LInv, NEW p \in Procs, Declare(p) PROVE Leases!Next
<1>1. PICK e \in Entry : /\ set' = set \cup {e} /\ committed' = committed /\ set = committed
                         /\ \A d \in set : d.name # e.name /\ d.addr # e.addr
  BY DeclaredApart
<1>2. UNCHANGED <<servers, hubFile, hubLive, vpnPins>>
  BY DEF Declare, cloudVars, clusterVars, pinVars
<1>3. ASSUME NEW u \in Uses, u.addr = e.addr PROVE FALSE
  BY <1>1, <1>3, UsedBy
<1>4. Leases!Grant(e)
  <2>1. \A d \in Leased : Leases!Apart(d, e)
    BY <1>1 DEF Leased, Leases!Apart
  <2>2. Leases!UsesAt(e.addr) = {}
    BY <1>3 DEF Leases!UsesAt, Uses
  <2>3. Leased' = Leased \cup {e}
    BY <1>1 DEF Leased
  <2>4. Machines' = Machines /\ Uses' = Uses
    BY <1>2 DEF Machines, Uses
  <2> QED
    BY <2>1, <2>2, <2>3, <2>4 DEF Leases!Grant, Leased, Machines, MachineOf, Uses
<1>5. e \in Leases!Lease
  BY DEF Leases!Lease, Entry
<1> QED
  BY <1>4, <1>5 DEF Leases!Next

(* git's copy and the file become one: what neither holds now is released. *)
LEMMA CommitReleases == ASSUME LInv, Commit \/ Revert PROVE Leases!Next
<1>1. /\ Leased' = set' /\ set' \in {set, committed}
      /\ UNCHANGED <<servers, hubFile, hubLive, vpnPins>>
  BY DEF Commit, Revert, Leased, cloudVars, clusterVars, pinVars
<1> DEFINE E == Leased \ Leased'
<1>2. ASSUME NEW e \in E, NEW u \in Uses, u.addr = e.addr PROVE FALSE
  <2>1. PICK f \in set \cap committed : f.addr = u.addr
    BY UsedBy
  <2>2. f = e
    BY <1>2, <2>1 DEF LInv, ApartInv, Leased
  <2> QED
    BY <1>1, <2>1, <2>2
<1>3. Leases!Release(E)
  <2>1. \A e \in E : Leases!UsesAt(e.addr) = {}
    BY <1>2 DEF Leases!UsesAt, Uses
  <2>2. Leased' = Leased \ E
    BY <1>1 DEF Leased
  <2>3. Machines' = Machines /\ Uses' = Uses
    BY <1>1 DEF Machines, Uses
  <2> HIDE DEF E
  <2> QED
    BY <2>1, <2>2, <2>3 DEF Leases!Release, Leased, Machines, MachineOf, Uses
<1>4. E \in SUBSET Leased
  OBVIOUS
<1> QED
  BY <1>3, <1>4 DEF Leases!Next, Leased

LEMMA MachinesMove ==
  ASSUME NEW gone \in SUBSET Machines
  PROVE  /\ Leases!Destroy(gone) => Leases!Next
         /\ \A m \in Leases!Machine : Leases!Provide(m, gone) => Leases!Next
BY DEF Leases!Next, Machines, MachineOf

(* The machines of a Worker that is off the hub and the pins, or in no     *)
(* set: nothing expects their keys.                                        *)
LEMMA NotUsed ==
  ASSUME LInv, NEW p \in Procs, pc[p] \in {"replace", "delete"},
         NEW s \in Named(servers, name[p]), NEW u \in Uses, u.key = s.key
  PROVE  FALSE
<1>1. PICK t \in servers \ Named(servers, name[p]) : t.key = u.key
  BY HeldElsewhere DEF LInv, HInv, Uses
<1>2. t = s
  BY <1>1 DEF LInv, ApartInv, Named
<1> QED
  BY <1>1, <1>2

LEMMA DestroyReleases ==
  ASSUME LInv, NEW p \in Procs, Delete(p) \/ ReplaceFails(p)
  PROVE  Leases!Next
<1>1. /\ servers' = servers \ Named(servers, name[p]) /\ pc[p] \in {"replace", "delete"}
      /\ UNCHANGED <<set, committed, hubFile, hubLive, vpnPins>>
  BY DEF Delete, ReplaceFails, fileVars, clusterVars, pinVars
<1>0. PICK gone : gone = {MachineOf(s) : s \in Named(servers, name[p])}
  OBVIOUS
<1>2. \A o \in gone : Leases!UsesOf(o.key) = {}
  BY <1>0, <1>1, NotUsed, MachineOfIs DEF Leases!UsesOf, Uses
<1>3. Machines' = Machines \ gone
  <2>1. ASSUME NEW s \in servers, s \notin Named(servers, name[p]) PROVE MachineOf(s) \notin gone
    BY <1>0, <2>1, MachineOfIs DEF Named
  <2> QED
    BY <1>0, <1>1, <2>1 DEF Machines
<1>4. gone \in SUBSET Machines
  BY <1>0 DEF Machines, Named
<1>5. Leases!Destroy(gone)
  <2> QED
    BY <1>1, <1>2, <1>3 DEF Leases!Destroy, Machines, MachineOf
<1> QED
  BY <1>4, <1>5, MachinesMove

(* A new server is the leaseholder's, and takes no machine's place that is *)
(* still used.                                                             *)
LEMMA CreateProvides ==
  ASSUME LInv, NEW p \in Procs, Create(p) \/ Replace(p)
  PROVE  Leases!Next
<1> DEFINE others == servers \ Named(servers, name[p])
<1>0. PICK gone : gone = {MachineOf(s) : s \in Named(servers, name[p])}
  OBVIOUS
<1>1. /\ NewServer(p, others) /\ made < MaxKeys /\ pc[p] \in {"create", "replace"}
      /\ UNCHANGED <<set, committed, hubFile, hubLive, vpnPins>>
  <2>1. CASE Create(p)
    <3>1. Named(servers, name[p]) = {}
      BY <2>1 DEF Create, LInv, NoneYet
    <3>2. others = servers
      BY <3>1
    <3> QED
      BY <2>1, <3>2 DEF Create, fileVars, clusterVars, pinVars
  <2>2. CASE Replace(p)
    BY <2>2 DEF Replace, fileVars, clusterVars, pinVars
  <2> QED
    BY <2>1, <2>2
<1>2. PICK s \in servers' : /\ servers' = others \cup {s} /\ s.key = made + 1 /\ s.name = name[p]
                            /\ \E e \in Entries(p) : e.addr = s.addr
                            /\ \A o \in others : o.name # s.name /\ o.addr # s.addr
                            /\ \A o \in servers : o.key # s.key /\ o.key <= made
  <2>1. others \in SUBSET servers /\ \A o \in others : o.name # name[p]
    BY DEF Named
  <2> HIDE DEF others
  <2> QED
    BY <1>1, <2>1, NewApart
<1>3. PICK m : m = MachineOf(s)
  OBVIOUS
<1>4. m.name = s.name /\ m.addr = s.addr /\ m.key = s.key
  BY <1>3, MachineOfIs
<1>5. \E e \in Leased : e.name = m.name /\ e.addr = m.addr
  <2>1. loaded[p] = set
    BY <1>1 DEF LInv, HInv, AloneInv
  <2> QED
    BY <1>2, <1>4, <2>1 DEF Entries, Named, Leased
<1>6. Machines \ gone = {MachineOf(o) : o \in others}
  <2>1. ASSUME NEW o \in others PROVE MachineOf(o) \notin gone
    BY <1>0, MachineOfIs DEF Named
  <2> QED
    BY <1>0, <2>1 DEF Machines
<1>7. \A o \in Machines \ gone : Leases!Apart(o, m)
  BY <1>2, <1>4, <1>6, MachineOfIs DEF Leases!Apart
<1>8. \A o \in Machines : o.key # m.key
  BY <1>2, <1>4, MachineOfIs DEF Machines
<1>9. Leases!UsesOf(m.key) = {}
  <2>1. ASSUME NEW u \in Uses, u.key = m.key PROVE FALSE
    BY <1>2, <1>4, <2>1, UsedBy
  <2> QED
    BY <2>1 DEF Leases!UsesOf, Uses
<1>10. \A o \in gone : Leases!UsesOf(o.key) = {}
  <2>1. CASE pc[p] = "create"
    BY <1>0, <2>1 DEF LInv, NoneYet
  <2>2. CASE pc[p] = "replace"
    BY <1>0, <2>2, NotUsed, MachineOfIs DEF Leases!UsesOf, Uses
  <2> QED
    BY <1>1, <2>1, <2>2
<1>11. Machines' = (Machines \ gone) \cup {m}
  BY <1>2, <1>3, <1>6 DEF Machines, MachineOf
<1>12. m \in Leases!Machine
  <2>1. made \in Nat /\ name[p] \in Names /\ MaxKeys \in Nat
    BY ConstantsAssumption DEF LInv, HInv, WInv, TypeOK
  <2>2. s.key \in 1..MaxKeys
    BY <1>1, <1>2, <2>1
  <2>3. s.addr \in Addrs
    BY <1>2 DEF LInv, HInv, WInv, TypeOK, Entries, Named, Entry
  <2> QED
    BY <1>2, <1>3, <2>1, <2>2, <2>3 DEF Leases!Machine, MachineOf
<1>13. gone \in SUBSET Machines
  BY <1>0 DEF Machines, Named
<1>14. Leases!Provide(m, gone)
  <2> HIDE DEF others
  <2> QED
    BY <1>1, <1>5, <1>7, <1>8, <1>9, <1>10, <1>11
    DEF Leases!Provide, Leased, Machines, MachineOf, Uses
<1> QED
  <2> HIDE DEF others
  <2> QED
    BY <1>12, <1>13, <1>14, MachinesMove

(* A peer or pin of the leaseholder's server, where none of another is.    *)
LEMMA PeerAdmits ==
  ASSUME LInv, NEW p \in Procs, HubPeer(p) \/ HubSet(p) \/ PinVPN(p)
  PROVE  Leases!Next
<1>t. TypeOK /\ AloneInv(p) /\ HeldInv
  BY DEF LInv, HInv, WInv
<1>1. /\ UNCHANGED <<set, committed, servers>> /\ loaded[p] = set
      /\ pc[p] \in {"hubPeer", "hubSet", "pinVPN"}
  BY <1>t DEF AloneInv, HubPeer, HubSet, PinVPN, fileVars, cloudVars
<1>2. Leased' = Leased /\ Machines' = Machines
  BY <1>1 DEF Leased, Machines
<1>3. ASSUME NEW s \in servers, NEW e \in Entries(p), e.addr = s.addr, s.name = name[p],
             Uses \cup {PeerOf(s)} = Uses'
      PROVE  Leases!Next
  <2>1. PICK m : m = MachineOf(s)
    OBVIOUS
  <2>2. m \in Machines /\ m.name = s.name /\ m.addr = s.addr /\ m.key = s.key
    BY <2>1, MachineOfIs DEF Machines
  <2>3. \E d \in Leased : d.name = m.name /\ d.addr = m.addr
    BY <1>1, <1>3, <2>2 DEF Entries, Named, Leased
  <2>4. ASSUME NEW u \in Uses, u.addr = m.addr PROVE u.key = m.key
    <3>1. PICK o \in servers : o.addr = u.addr /\ o.key = u.key
      BY UsedBy
    <3>2. o = s
      BY <2>2, <2>4, <3>1 DEF LInv, ApartInv
    <3> QED
      BY <2>2, <3>1, <3>2
  <2>5. Leases!Admit(m)
    BY <1>2, <1>3, <2>2, <2>3, <2>4
    DEF Leases!Admit, Leases!UsesAt, Leased, Machines, MachineOf, Uses, PeerOf
  <2> QED
    BY <2>2, <2>5 DEF Leases!Next, Machines, MachineOf
<1>4. ASSUME NEW s \in servers, NEW q \in Uses, q.addr = s.addr \/ q.key = s.key
      PROVE  q = PeerOf(s)
  <2>1. PICK o \in servers : o.addr = q.addr /\ o.key = q.key
    BY UsedBy
  <2>2. o = s
    BY <1>4, <2>1 DEF LInv, ApartInv
  <2>3. q \in Peer
    BY <1>t DEF TypeOK, Uses
  <2> QED
    BY <2>1, <2>2, <2>3 DEF Peer, PeerOf
<1>5. CASE HubPeer(p) \/ HubSet(p)
  <2>1. PICK s \in srv[p] :
          \/ UNCHANGED <<hubFile, hubLive, vpnPins>>
          \/ hubFile' = hubFile \cup {PeerOf(s)} /\ UNCHANGED <<hubLive, vpnPins>>
          \/ /\ hubLive' = {q \in hubLive : q.addr # s.addr /\ q.key # s.key} \cup {PeerOf(s)}
             /\ UNCHANGED <<hubFile, vpnPins>>
    BY <1>5 DEF HubPeer, HubSet, pinVars
  <2>2. pc[p] \in {"hubPeer", "hubSet"}
    BY <1>5 DEF HubPeer, HubSet
  <2>3. PICK e \in Entries(p) : s \in servers /\ s.name = name[p] /\ e.addr = s.addr
    BY <1>t, <2>2 DEF AloneInv, Reading
  <2>4. CASE UNCHANGED <<hubFile, hubLive, vpnPins>>
    BY <1>2, <2>4, OnlyDrops DEF Uses
  <2>5. CASE Uses' = Uses \cup {PeerOf(s)}
    BY <1>3, <2>3, <2>5
  <2>6. \A q \in hubLive : (q.addr # s.addr /\ q.key # s.key) \/ q = PeerOf(s)
    BY <1>4, <2>3 DEF Uses
  <2> QED
    BY <2>1, <2>4, <2>5, <2>6 DEF Uses
<1>6. CASE PinVPN(p)
  <2>1. PICK s \in Reached(p) : /\ vpnPins' = {x \in vpnPins : x.addr # s.addr} \cup {PeerOf(s)}
                                /\ UNCHANGED <<hubFile, hubLive>>
    BY <1>6 DEF PinVPN, clusterVars
  <2>2. PICK e \in Entries(p) : s \in servers /\ s.name = name[p] /\ e.addr = s.addr
    BY <1>t, <1>6, ReachedIs DEF Reading, PinVPN
  <2>3. \A q \in vpnPins : q.addr # s.addr \/ q = PeerOf(s)
    BY <1>4, <2>2 DEF Uses
  <2>4. Uses' = Uses \cup {PeerOf(s)}
    BY <2>1, <2>3 DEF Uses
  <2> QED
    BY <1>3, <2>2, <2>4
<1> QED
  BY <1>5, <1>6

(* Every step is a step of the leases.                                     *)
LEMMA LeaseStep == ASSUME LInv, [Next]_vars PROVE [Leases!Next]_(Leases!vars)
<1>1. CASE \E p \in Procs : \/ Declare(p) \/ Create(p) \/ Replace(p) \/ Delete(p)
                            \/ ReplaceFails(p) \/ HubPeer(p) \/ HubSet(p) \/ PinVPN(p)
  BY <1>1, DeclareGrants, CreateProvides, DestroyReleases, PeerAdmits
<1>2. CASE Commit \/ Revert
  BY <1>2, CommitReleases
<1>3. ASSUME NEW p \in Procs, Undeclare(p) PROVE Leases!Next
  <2>1. loaded[p] = set /\ set = committed
    BY <1>3 DEF Undeclare, LInv, HInv, AloneInv
  <2>2. Leased' = Leased /\ Machines' = Machines /\ Uses' = Uses
    BY <1>3, <2>1 DEF Undeclare, Leased, Machines, Uses, cloudVars, clusterVars, pinVars
  <2> QED
    BY <2>2, OnlyDrops
<1>4. ASSUME NEW p \in Procs, Join(p) PROVE Leases!Next
  <2>1. PICK s \in servers : /\ servers' = (servers \ {s}) \cup {[s EXCEPT !.joined = TRUE]}
                             /\ UNCHANGED <<set, committed, hubFile, hubLive, vpnPins>>
    BY <1>4 DEF Join, Reached, fileVars, pinVars
  <2>2. PICK t : t = [s EXCEPT !.joined = TRUE]
    OBVIOUS
  <2>3. t.name = s.name /\ t.addr = s.addr /\ t.key = s.key
    BY <2>2 DEF LInv, HInv, WInv, TypeOK, Server
  <2>4. MachineOf(t) = MachineOf(s) /\ servers' = (servers \ {s}) \cup {t}
    BY <2>1, <2>2, <2>3 DEF MachineOf
  <2>5. Machines' = Machines
    <3>1. Machines' = {MachineOf(x) : x \in servers'}
      BY DEF Machines, MachineOf
    <3> QED
      BY <2>4, <3>1 DEF Machines
  <2> QED
    BY <2>1, <2>5, OnlyDrops DEF Leased, Uses
<1>5. CASE /\ ~(Commit \/ Revert)
           /\ ~\E p \in Procs : \/ Declare(p) \/ Create(p) \/ Replace(p) \/ Delete(p)
                                \/ ReplaceFails(p) \/ HubPeer(p) \/ HubSet(p) \/ PinVPN(p)
                                \/ Undeclare(p) \/ Join(p)
  <2>1. /\ UNCHANGED <<set, committed, servers>>
        /\ hubFile' \subseteq hubFile /\ hubLive' \subseteq hubLive /\ vpnPins' \subseteq vpnPins
    BY <1>5 DEF Next, vars, Environment, Kubelets, KubeletStop, KubeletRestart,
       DeleteNodeByHand, NodeForgotten, Step,
       AddStep, LeaveStep, CheckNoNode, PlanCreate, Plan, PinCreated, Build, NodeReady,
       CheckRetirable, Drain, DeleteNode, HubPeerRemoveFile, HubPeerRemoveLive, UnpinVPN,
       NodeGone, PlanDelete, UnpinPublic, PlanReplace, Refuse, Stop, Start, NodeAdd, NodeRemove,
       NodeReplace, Begin, worldVars, fileVars, cloudVars, clusterVars, pinVars
  <2> QED
    BY <2>1, OnlyDrops DEF Leased, Machines, Uses
<1> QED
  BY <1>1, <1>2, <1>3, <1>4, <1>5

(* At the start each Worker that is built has an entry and a server.       *)
LEMMA LeaseInit == Init => LInv
<1> SUFFICES ASSUME Init PROVE LInv
  OBVIOUS
<1>1. PICK f \in [Built -> Addrs], k \in [Built -> 1..Cardinality(Built)], i \in [Built -> IPs] :
        /\ \A m, n \in Built : m # n => f[m] # f[n] /\ k[m] # k[n] /\ i[m] # i[n]
        /\ set = {[name |-> n, addr |-> f[n]] : n \in Built}
        /\ servers = {[name |-> n, key |-> k[n], ip |-> i[n], addr |-> f[n], joined |-> TRUE] : n \in Built}
  BY DEF Init
<1>2. Leased = set /\ made = Cardinality(Built)
  BY DEF Init, Leased
<1>3. \A e, g \in Leased : e.name = g.name \/ e.addr = g.addr => e = g
  BY <1>1, <1>2
<1>4. ASSUME NEW s \in servers
      PROVE  \E n \in Built : /\ s = [name |-> n, key |-> k[n], ip |-> i[n], addr |-> f[n], joined |-> TRUE]
                              /\ s.name = n /\ s.key = k[n] /\ s.addr = f[n]
  BY <1>1
<1>5. ASSUME NEW s \in servers, NEW t \in servers, s.name = t.name \/ s.addr = t.addr \/ s.key = t.key
      PROVE  s = t
  <2>1. PICK m \in Built : /\ s = [name |-> m, key |-> k[m], ip |-> i[m], addr |-> f[m], joined |-> TRUE]
                           /\ s.name = m /\ s.key = k[m] /\ s.addr = f[m]
    BY <1>4
  <2>2. PICK n \in Built : /\ t = [name |-> n, key |-> k[n], ip |-> i[n], addr |-> f[n], joined |-> TRUE]
                           /\ t.name = n /\ t.key = k[n] /\ t.addr = f[n]
    BY <1>4
  <2>3. m = n
    BY <1>1, <1>5, <2>1, <2>2
  <2> QED
    BY <2>1, <2>2, <2>3
<1>6. ASSUME NEW s \in servers PROVE s.key <= made
  <2>1. s.key \in 1..Cardinality(Built)
    BY <1>4
  <2> QED
    BY <1>2, <2>1, Bounds
<1>7. \A p \in Procs : NoneYet(p)
  BY DEF Init, NoneYet
<1> QED
  BY <1>3, <1>5, <1>6, <1>7, AloneInit DEF LInv, ApartInv

LEMMA InitLeases == LInv => Leases!Init
<1> SUFFICES ASSUME LInv PROVE Leases!Init
  OBVIOUS
<1>1. \A d, e \in Leased : d = e \/ Leases!Apart(d, e)
  BY DEF LInv, ApartInv, Leases!Apart
<1>2. \A m, n \in Machines : m = n \/ (Leases!Apart(m, n) /\ m.key # n.key)
  <2> SUFFICES ASSUME NEW s \in servers, NEW t \in servers
               PROVE  \/ MachineOf(s) = MachineOf(t)
                      \/ /\ Leases!Apart(MachineOf(s), MachineOf(t))
                         /\ MachineOf(s).key # MachineOf(t).key
    BY DEF Machines
  <2> QED
    BY MachineOfIs DEF LInv, ApartInv, Leases!Apart
<1>3. \A u \in Uses : \E m \in Machines, e \in Leased :
        m.addr = u.addr /\ m.key = u.key /\ e.addr = u.addr /\ e.name = m.name
  <2> SUFFICES ASSUME NEW u \in Uses
               PROVE  \E m \in Machines, e \in Leased :
                        m.addr = u.addr /\ m.key = u.key /\ e.addr = u.addr /\ e.name = m.name
    OBVIOUS
  <2>1. PICK s \in servers, e \in set \cap committed : /\ s.addr = u.addr /\ s.key = u.key
                                                     /\ e.addr = u.addr /\ e.name = s.name
    BY UsedBy
  <2>2. MachineOf(s) \in Machines /\ e \in Leased
    BY <2>1 DEF Machines, Leased
  <2> QED
    BY <2>1, <2>2, MachineOfIs
<1> QED
  BY <1>1, <1>2, <1>3 DEF Leases!Init, Leased, Machines, MachineOf, Uses

(* While one run at a time is under way, wherever each stops: an address   *)
(* is one Worker's, its server alone is let on it, and neither the entry   *)
(* nor the server goes before the last peer or pin there                   *)
(* (workerset.Next, stages/worker.go HubPeer, worker_remove.go).           *)
THEOREM ImplementsLeases == ASSUME OneRun PROVE Spec => LeaseSpec
<1>1. LInv /\ [Next]_vars => [Leases!Next]_(Leases!vars)
  BY LeaseStep
<1> QED
  BY <1>1, LeaseInit, InitLeases, LeaseInductive, PTL DEF Spec, LeaseSpec, Leases!Spec
=============================================================================
