--------------------------- MODULE WorkerLifecycle ---------------------------
(***************************************************************************)
(* The life of a Worker under `kluster node add`, `node remove` and        *)
(* `node replace` (--apply): its entry in the Worker set, which git has to *)
(* hold before Terraform runs, its server, its Node, its peer on the       *)
(* WireGuard hub (the config file and the live interface) and the pins of  *)
(* its host key.                                                           *)
(*                                                                         *)
(* A run is a sequence of steps, each one a call that reads or changes one *)
(* of these; it can stop between any two, at an error, an interrupt or a   *)
(* crash, and the operator runs a command again.  Meanwhile the operator   *)
(* commits or reverts the set, kubelets stop and start again, and the      *)
(* cloud controller forgets Nodes without a server.                        *)
(*                                                                         *)
(* One number stands for a server's host key and its WireGuard key: both   *)
(* are its own and die with it (HostKeyRotation has the rotation).  One    *)
(* address stands for the private and the VPN address of an entry: Next    *)
(* takes them and Without frees them together.  A step that stays on one   *)
(* machine and changes nothing another run reads (base host, packages,     *)
(* spoke config) is part of the step before it.  The Control Plane exists, *)
(* and an intent mismatch is never overridden.                             *)
(***************************************************************************)
EXTENDS Naturals, FiniteSets

CONSTANTS Names,       \* the Workers' names
          Addrs,       \* the address pool
          IPs,         \* the public addresses Hetzner gives
          Built,       \* the Workers that are built at the start
          Procs,       \* the kluster runs that can be under way at once
          MaxKeys,     \* bound: servers ever created
          MaxStops,    \* bound: runs that stop
          MaxRestarts  \* bound: kubelets that stop, or start again

ASSUME ConstantsAssumption ==
  /\ Names # {}
  /\ Addrs \subseteq Nat
  /\ Built \subseteq Names /\ IsFiniteSet(Built)
  /\ MaxKeys \in Nat /\ MaxStops \in Nat /\ MaxRestarts \in Nat

VARIABLES
  set,        \* the Worker set's file: entries [name, addr]
  committed,  \* the Worker set git holds
  servers,    \* the project's servers: [name, key, ip, addr, joined]
  nodes,      \* the cluster's Nodes: [name, key, cordoned, ready]
  hubFile,    \* the peers in the hub's config: [addr, key]
  hubLive,    \* the peers of the hub's live interface: [addr, key]
  pubPins,    \* the pins at public addresses: [ip, key]
  vpnPins,    \* the pins at VPN addresses: [addr, key]
  serial,     \* the serial of the workers Module's Terraform state
  made,       \* servers created so far
  pc,         \* the step each run is at
  cmd,        \* its command
  name,       \* the Worker it is for
  loaded,     \* the set it loaded
  srv,        \* the server it read: none or one
  plan,       \* its saved plan: the serial it was made at, and the Worker's server (its key)
  stops,      \* runs stopped so far
  restarts    \* kubelets that stopped or started again so far

fileVars    == <<set, committed>>
cloudVars   == <<servers, serial, made>>
clusterVars == <<nodes, hubFile, hubLive>>
pinVars     == <<pubPins, vpnPins>>
runVars     == <<cmd, name, loaded, srv, plan>>
worldVars   == <<fileVars, cloudVars, clusterVars, pinVars>>
vars == <<worldVars, pc, runVars, stops, restarts>>

NoPlan == [serial |-> 0, of |-> {}]
Entry  == [name : Names, addr : Addrs]
Server == [name : Names, key : Nat, ip : IPs, addr : Addrs, joined : BOOLEAN]
Node   == [name : Names, key : Nat, cordoned : BOOLEAN, ready : BOOLEAN]
Peer   == [addr : Addrs, key : Nat]
Pin    == [ip : IPs, key : Nat]

NoName == CHOOSE n \in Names : TRUE  \* what an idle run's name is

Commands == {"add", "remove", "replace"}
Steps == {"idle",
  "declare", "checkNode", "planCreate", "create", "pin", "build", "hubPeer",
  "hubSet", "pinVPN", "join", "ready",
  "gates", "drain", "deleteNode", "unhubFile", "unhubLive", "unpinVPN", "undeclare",
  "nodeGone", "planDelete", "delete", "unpinPublic", "planReplace", "replace"}

Named(S, n) == {x \in S : x.name = n}
At(S, a) == {x \in S : x.addr = a}

(* A Node is Ready while a server of its name that joined posts its state, *)
(* also one that found the Node of another there; its kubelet or machine   *)
(* may stop at any time.                                                   *)
Hosted(nd) == \E s \in servers : s.name = nd.name /\ s.joined
Ready(nd)  == nd.ready /\ Hosted(nd)

-----------------------------------------------------------------------------
(* Some Workers are built already, at some addresses, and committed.       *)
Init ==
  /\ \E f \in [Built -> Addrs], k \in [Built -> 1..Cardinality(Built)], i \in [Built -> IPs] :
       /\ \A m, n \in Built : m # n => f[m] # f[n] /\ k[m] # k[n] /\ i[m] # i[n]
       /\ set = {[name |-> n, addr |-> f[n]] : n \in Built}
       /\ servers = {[name |-> n, key |-> k[n], ip |-> i[n], addr |-> f[n], joined |-> TRUE] : n \in Built}
       /\ nodes = {[name |-> n, key |-> k[n], cordoned |-> FALSE, ready |-> TRUE] : n \in Built}
       /\ hubFile = {[addr |-> f[n], key |-> k[n]] : n \in Built}
       /\ pubPins = {[ip |-> i[n], key |-> k[n]] : n \in Built}
  /\ committed = set
  /\ hubLive = hubFile
  /\ vpnPins = hubFile
  /\ serial = 0
  /\ made = Cardinality(Built)
  /\ pc = [p \in Procs |-> "idle"]
  /\ cmd = [p \in Procs |-> "add"]
  /\ name = [p \in Procs |-> NoName]
  /\ loaded = [p \in Procs |-> {}]
  /\ srv = [p \in Procs |-> {}]
  /\ plan = [p \in Procs |-> NoPlan]
  /\ stops = 0
  /\ restarts = 0

-----------------------------------------------------------------------------
(* The shape of a run's steps: one goes on to the next, or ends the run    *)
(* and leaves nothing of it behind but what it changed.                    *)
Go(p, step) == pc' = [pc EXCEPT ![p] = step] /\ UNCHANGED runVars

End(p) ==
  /\ pc' = [pc EXCEPT ![p] = "idle"]
  /\ cmd' = [cmd EXCEPT ![p] = "add"]
  /\ name' = [name EXCEPT ![p] = NoName]
  /\ loaded' = [loaded EXCEPT ![p] = {}]
  /\ srv' = [srv EXCEPT ![p] = {}]
  /\ plan' = [plan EXCEPT ![p] = NoPlan]

(* A command starts: it loads the set and reads the server of that name.   *)
Begin(p, c, n, step) ==
  /\ pc[p] = "idle"
  /\ pc' = [pc EXCEPT ![p] = step]
  /\ cmd' = [cmd EXCEPT ![p] = c]
  /\ name' = [name EXCEPT ![p] = n]
  /\ loaded' = [loaded EXCEPT ![p] = set]
  /\ srv' = [srv EXCEPT ![p] = Named(servers, n)]
  /\ UNCHANGED <<plan, worldVars, stops, restarts>>

(* The commit gate: git holds the set exactly as it is on disk.            *)
Committed == set = committed

Declared(n) == Named(set, n) # {}
Entries(p) == Named(loaded[p], name[p])  \* the entry a run loaded

(* kluster pins only servers it created.                                   *)
Ours(s) == \E x \in pubPins : x.ip = s.ip

NodeAdd(p, n) ==
  /\ Committed
  /\ \/ ~Declared(n) /\ Named(servers, n) = {} /\ Begin(p, "add", n, "declare")
     \/ Declared(n) /\ Named(servers, n) = {} /\ Begin(p, "add", n, "checkNode")
     \/ Declared(n) /\ (\E s \in Named(servers, n) : Ours(s)) /\ Begin(p, "add", n, "build")

(* Mutant: run 2 deletes only a server kluster has a pin for.              *)
NodeRemoveOurs(p, n) ==
  /\ Committed
  /\ \/ Declared(n) /\ Begin(p, "remove", n, "gates")
     \/ ~Declared(n) /\ (\E s \in Named(servers, n) : Ours(s)) /\ Begin(p, "remove", n, "nodeGone")

(* Run 1 takes a declared Worker out; run 2 deletes the server of one the  *)
(* set no longer declares.                                                 *)
NodeRemove(p, n) ==
  /\ Committed
  /\ \/ Declared(n) /\ Begin(p, "remove", n, "gates")
     \/ ~Declared(n) /\ Named(servers, n) # {} /\ Begin(p, "remove", n, "nodeGone")

(* node replace works on a declared Worker that has a server.              *)
Replaceable(n) == Declared(n) /\ Named(servers, n) # {}

NodeReplace(p, n) ==
  /\ Committed
  /\ Replaceable(n)
  /\ Begin(p, "replace", n, "planReplace")

-----------------------------------------------------------------------------
(* node add, run 1: the entry, with the lowest address the set leaves.     *)

(* Mutant: an address is free that no server has.                          *)
FreeOfServers(S) == {a \in Addrs : At(servers, a) = {}}

Free(S) == {a \in Addrs : At(S, a) = {}}
Lowest(F) == CHOOSE a \in F : \A b \in F : a <= b

Declare(p) ==
  /\ pc[p] = "declare"
  /\ Free(loaded[p]) # {}
  /\ set' = loaded[p] \cup {[name |-> name[p], addr |-> Lowest(Free(loaded[p]))]}
  /\ End(p)
  /\ UNCHANGED <<committed, cloudVars, clusterVars, pinVars, stops, restarts>>

-----------------------------------------------------------------------------
(* Terraform's plans of the workers Module.  A plan compares the set on    *)
(* disk with the servers, and its Intent refuses any change but the one.   *)

Creates == {e \in set : Named(servers, e.name) = {}}
Deletes == {s \in servers : Named(set, s.name) = {}}
Moves   == {s \in servers : \E e \in Named(set, s.name) : e.addr # s.addr}

CreatesOnly(n)  == Creates = Named(set, n) /\ Creates # {} /\ Deletes = {} /\ Moves = {}
DeletesOnly(n)  == Deletes = Named(servers, n) /\ Deletes # {} /\ Creates = {} /\ Moves = {}
ReplacesOnly(n) == /\ Named(servers, n) # {}
                   /\ Creates = {} /\ Deletes = {} /\ Moves \subseteq Named(servers, n)

Plan(p, step) ==
  /\ pc' = [pc EXCEPT ![p] = step]
  /\ plan' = [plan EXCEPT ![p] = [serial |-> serial, of |-> {s.key : s \in Named(servers, name[p])}]]
  /\ UNCHANGED <<cmd, name, loaded, srv, worldVars, stops, restarts>>

(* Mutant: a saved plan is applied whatever has changed.                   *)
AlwaysCurrent(p) == TRUE

(* Terraform refuses a saved plan once its state has changed.              *)
Current(p) == plan[p].serial = serial

(* A new server of the Worker, at any address Hetzner has free.  No other  *)
(* server may hold its private address.                                    *)
NewServer(p, others) ==
  \E e \in Entries(p), i \in IPs \ {s.ip : s \in others} :
    LET s == [name |-> name[p], key |-> made + 1, ip |-> i, addr |-> e.addr, joined |-> FALSE] IN
      /\ At(others, e.addr) = {}
      /\ servers' = others \cup {s}
      /\ srv' = [srv EXCEPT ![p] = {s}]
      /\ made' = made + 1

-----------------------------------------------------------------------------
(* node add, run 2: the server, its pin and its build.                     *)

(* A stale Node would hand its taints and labels to the new server.        *)
CheckNoNode(p) ==
  /\ pc[p] = "checkNode"
  /\ Named(nodes, name[p]) = {}
  /\ Go(p, "planCreate")
  /\ UNCHANGED <<worldVars, stops, restarts>>

PlanCreate(p) ==
  /\ pc[p] = "planCreate"
  /\ CreatesOnly(name[p])
  /\ Plan(p, "create")

Create(p) ==
  /\ pc[p] = "create"
  /\ made < MaxKeys
  /\ Current(p)
  /\ NewServer(p, servers)
  /\ serial' = serial + 1
  /\ pc' = [pc EXCEPT ![p] = "pin"]
  /\ UNCHANGED <<fileVars, clusterVars, pinVars, cmd, name, loaded, plan, stops, restarts>>

(* pinCreated: the key the run seeded, at the address the outputs give;    *)
(* then the server is read again.                                          *)
PinCreated(p) ==
  /\ pc[p] = "pin"
  /\ \E s \in Named(servers, name[p]), own \in srv[p] :
       /\ pubPins' = {x \in pubPins : x.ip # s.ip} \cup {[ip |-> s.ip, key |-> own.key]}
       /\ srv' = [srv EXCEPT ![p] = {s}]
  /\ pc' = [pc EXCEPT ![p] = "build"]
  /\ UNCHANGED <<fileVars, cloudVars, clusterVars, vpnPins, cmd, name, loaded, plan, stops, restarts>>

(* The server at the address of the one a run read, if it shows a key that *)
(* is pinned there, and it is the declared Worker's.                       *)
Reached(p) ==
  {s \in servers : /\ \E o \in srv[p] : o.ip = s.ip
                   /\ [ip |-> s.ip, key |-> s.key] \in pubPins
                   /\ \E e \in Entries(p) : e.addr = s.addr}

(* The first login, the rotation, the Stages up to the spoke, and the key  *)
(* the spoke runs with, which the hub gets.                                *)
Build(p) ==
  /\ pc[p] = "build"
  /\ Reached(p) # {}
  /\ srv' = [srv EXCEPT ![p] = Reached(p)]
  /\ pc' = [pc EXCEPT ![p] = "hubPeer"]
  /\ UNCHANGED <<worldVars, cmd, name, loaded, plan, stops, restarts>>

PeerOf(s) == [addr |-> s.addr, key |-> s.key]
InHub(s) == (\E q \in hubFile : q.key = s.key) /\ PeerOf(s) \in hubLive

(* AddPeer refuses a file that holds the key or the address already,       *)
(* unless it holds exactly this peer.                                      *)
Fits(s) == \A q \in hubFile : q.addr = s.addr \/ q.key = s.key => q = PeerOf(s)

(* HubPeer writes the file, then the live interface; a hub that has both   *)
(* is done.                                                                *)
HubPeer(p) ==
  /\ pc[p] = "hubPeer"
  /\ \E s \in srv[p] :
       \/ InHub(s) /\ Go(p, "pinVPN") /\ UNCHANGED hubFile
       \/ ~InHub(s) /\ Fits(s) /\ Go(p, "hubSet") /\ hubFile' = hubFile \cup {PeerOf(s)}
  /\ UNCHANGED <<fileVars, cloudVars, nodes, hubLive, pinVars, stops, restarts>>

(* `wg set` takes the address from any other live peer.                    *)
HubSet(p) ==
  /\ pc[p] = "hubSet"
  /\ \E s \in srv[p] :
       hubLive' = {q \in hubLive : q.addr # s.addr /\ q.key # s.key} \cup {PeerOf(s)}
  /\ Go(p, "pinVPN")
  /\ UNCHANGED <<fileVars, cloudVars, nodes, hubFile, pinVars, stops, restarts>>

PinVPN(p) ==
  /\ pc[p] = "pinVPN"
  /\ \E s \in Reached(p) : vpnPins' = {x \in vpnPins : x.addr # s.addr} \cup {PeerOf(s)}
  /\ Go(p, "join")
  /\ UNCHANGED <<fileVars, cloudVars, clusterVars, pubPins, stops, restarts>>

(* The kubelet of s starts: it registers a Node it does not find; one of   *)
(* its name that exists keeps what it has and is Ready again.              *)
Posts(s) ==
  IF Named(nodes, s.name) = {}
  THEN nodes \cup {[name |-> s.name, key |-> s.key, cordoned |-> FALSE, ready |-> TRUE]}
  ELSE {IF nd.name = s.name THEN [nd EXCEPT !.ready = TRUE] ELSE nd : nd \in nodes}

(* Join is done on a server that joined before, whatever became of its     *)
(* Node.                                                                   *)
Join(p) ==
  /\ pc[p] = "join"
  /\ \E s \in Reached(p) :
       /\ servers' = (servers \ {s}) \cup {[s EXCEPT !.joined = TRUE]}
       /\ nodes' = IF s.joined THEN nodes ELSE Posts(s)
  /\ Go(p, "ready")
  /\ UNCHANGED <<fileVars, serial, made, hubFile, hubLive, pinVars, stops, restarts>>

(* NodeReady: the Node is the new server's, and Ready; the run has done    *)
(* its work.                                                               *)
IsReady(p) == \E s \in srv[p], nd \in nodes : nd.name = s.name /\ nd.key = s.key /\ nd.ready

NodeReady(p) ==
  /\ pc[p] = "ready"
  /\ IsReady(p)
  /\ End(p)
  /\ UNCHANGED <<worldVars, stops, restarts>>

-----------------------------------------------------------------------------
(* Taking a Worker out: run 1 of node remove, and node replace.            *)

(* The only Ready Worker does not leave; one that serves nothing may.      *)
(* (The database gate refuses too: a run that stops here.)                 *)
MayLeave(n) ==
  \/ \E nd \in nodes : nd.name # n /\ Ready(nd)
  \/ \A nd \in Named(nodes, n) : ~Ready(nd)

CheckRetirable(p) ==
  /\ pc[p] = "gates"
  /\ MayLeave(name[p])
  /\ Go(p, "drain")
  /\ UNCHANGED <<worldVars, stops, restarts>>

Drain(p) ==
  /\ pc[p] = "drain"
  /\ nodes' = {IF nd.name = name[p] THEN [nd EXCEPT !.cordoned = TRUE] ELSE nd : nd \in nodes}
  /\ Go(p, "deleteNode")
  /\ UNCHANGED <<fileVars, cloudVars, hubFile, hubLive, pinVars, stops, restarts>>

(* Only a drained Node is deleted.                                         *)
DeleteNode(p) ==
  /\ pc[p] = "deleteNode"
  /\ \A nd \in Named(nodes, name[p]) : nd.cordoned
  /\ nodes' = nodes \ Named(nodes, name[p])
  /\ Go(p, "unhubFile")
  /\ UNCHANGED <<fileVars, cloudVars, hubFile, hubLive, pinVars, stops, restarts>>

(* HubPeerRemove finds the peer by its address and removes it from the     *)
(* file first; it removes neither if the two give it to different keys.    *)
Agree(a) == \A q \in At(hubFile, a), r \in At(hubLive, a) : q.key = r.key

(* Mutant: a peer that is out of the file is out of the hub.               *)
FileDecides(p) ==
  /\ pc[p] = "unhubFile"
  /\ \E e \in Entries(p) :
       /\ Agree(e.addr)
       /\ hubFile' = hubFile \ At(hubFile, e.addr)
       /\ Go(p, IF At(hubFile, e.addr) = {} THEN "unpinVPN" ELSE "unhubLive")
  /\ UNCHANGED <<fileVars, cloudVars, nodes, hubLive, pinVars, stops, restarts>>

HubPeerRemoveFile(p) ==
  /\ pc[p] = "unhubFile"
  /\ \E e \in Entries(p) : Agree(e.addr) /\ hubFile' = hubFile \ At(hubFile, e.addr)
  /\ Go(p, "unhubLive")
  /\ UNCHANGED <<fileVars, cloudVars, nodes, hubLive, pinVars, stops, restarts>>

HubPeerRemoveLive(p) ==
  /\ pc[p] = "unhubLive"
  /\ \E e \in Entries(p) : hubLive' = hubLive \ At(hubLive, e.addr)
  /\ Go(p, "unpinVPN")
  /\ UNCHANGED <<fileVars, cloudVars, nodes, hubFile, pinVars, stops, restarts>>

UnpinVPN(p) ==
  /\ pc[p] = "unpinVPN"
  /\ \E e \in Entries(p) : vpnPins' = vpnPins \ At(vpnPins, e.addr)
  /\ Go(p, IF cmd[p] = "remove" THEN "undeclare" ELSE "unpinPublic")
  /\ UNCHANGED <<fileVars, cloudVars, clusterVars, pubPins, stops, restarts>>

(* The set the run loaded, without the entry; the server stays.            *)
Undeclare(p) ==
  /\ pc[p] = "undeclare"
  /\ set' = loaded[p] \ Entries(p)
  /\ End(p)
  /\ UNCHANGED <<committed, cloudVars, clusterVars, pinVars, stops, restarts>>

-----------------------------------------------------------------------------
(* Deleting a server: run 2 of node remove.                                *)

NodeGone(p) ==
  /\ pc[p] = "nodeGone"
  /\ Named(nodes, name[p]) = {}
  /\ Go(p, "planDelete")
  /\ UNCHANGED <<worldVars, stops, restarts>>

PlanDelete(p) ==
  /\ pc[p] = "planDelete"
  /\ DeletesOnly(name[p])
  /\ Plan(p, "delete")

Delete(p) ==
  /\ pc[p] = "delete"
  /\ Current(p)
  /\ servers' = servers \ Named(servers, name[p])
  /\ serial' = serial + 1
  /\ Go(p, "unpinPublic")
  /\ UNCHANGED <<fileVars, made, clusterVars, pinVars, stops, restarts>>

(* The pin at the public address of the server the run read at its start.  *)
UnpinPublic(p) ==
  /\ pc[p] = "unpinPublic"
  /\ pubPins' = {x \in pubPins : \A s \in srv[p] : x.ip # s.ip}
  /\ IF cmd[p] = "remove" THEN End(p) ELSE Go(p, "replace")
  /\ UNCHANGED <<fileVars, cloudVars, clusterVars, vpnPins, stops, restarts>>

-----------------------------------------------------------------------------
(* node replace: the plan is made while the Worker is whole and applied    *)
(* once it has left.  Terraform destroys the server first.                 *)

PlanReplace(p) ==
  /\ pc[p] = "planReplace"
  /\ ReplacesOnly(name[p])
  /\ Plan(p, "gates")

Replace(p) ==
  /\ pc[p] = "replace"
  /\ made < MaxKeys
  /\ Current(p)
  /\ NewServer(p, servers \ Named(servers, name[p]))
  /\ serial' = serial + 1
  /\ pc' = [pc EXCEPT ![p] = "pin"]
  /\ UNCHANGED <<fileVars, clusterVars, pinVars, cmd, name, loaded, plan, stops, restarts>>

(* The old server is destroyed, and the new one cannot be created.         *)
ReplaceFails(p) ==
  /\ pc[p] = "replace"
  /\ stops < MaxStops
  /\ stops' = stops + 1
  /\ Current(p)
  /\ servers' = servers \ Named(servers, name[p])
  /\ serial' = serial + 1
  /\ End(p)
  /\ UNCHANGED <<fileVars, made, clusterVars, pinVars, restarts>>

-----------------------------------------------------------------------------
(* A run ends at a check that refuses, or is stopped anywhere.             *)

Refuses(p) ==
  \/ pc[p] = "declare" /\ Free(loaded[p]) = {}
  \/ pc[p] \in {"checkNode", "nodeGone"} /\ Named(nodes, name[p]) # {}
  \/ pc[p] = "planCreate" /\ ~CreatesOnly(name[p])
  \/ pc[p] = "planDelete" /\ ~DeletesOnly(name[p])
  \/ pc[p] = "planReplace" /\ ~ReplacesOnly(name[p])
  \/ pc[p] \in {"create", "delete", "replace"} /\ ~Current(p)
  \/ pc[p] \in {"create", "replace"} /\ made = MaxKeys
  \/ pc[p] = "create" /\ IPs \subseteq {s.ip : s \in servers}
  \/ pc[p] = "create" /\ \E e \in Entries(p) : At(servers, e.addr) # {}
  \/ pc[p] = "pin" /\ Named(servers, name[p]) = {}
  \/ pc[p] \in {"build", "pinVPN", "join"} /\ Reached(p) = {}
  \/ pc[p] = "hubPeer" /\ \E s \in srv[p] : ~InHub(s) /\ ~Fits(s)
  \/ pc[p] = "ready" /\ ~IsReady(p)
  \/ pc[p] = "gates" /\ ~MayLeave(name[p])
  \/ pc[p] = "deleteNode" /\ \E nd \in Named(nodes, name[p]) : ~nd.cordoned
  \/ pc[p] = "unhubFile" /\ \E e \in Entries(p) : ~Agree(e.addr)

Refuse(p) ==
  /\ Refuses(p)
  /\ End(p)
  /\ UNCHANGED <<worldVars, stops, restarts>>

Stop(p) ==
  /\ pc[p] # "idle"
  /\ stops < MaxStops
  /\ stops' = stops + 1
  /\ End(p)
  /\ UNCHANGED <<worldVars, restarts>>

-----------------------------------------------------------------------------
(* What happens around the runs.                                           *)

(* The operator commits the set, or takes an uncommitted edit back.        *)
Commit ==
  /\ set # committed
  /\ committed' = set
  /\ UNCHANGED <<set, cloudVars, clusterVars, pinVars, pc, runVars, stops, restarts>>

Revert ==
  /\ set # committed
  /\ set' = committed
  /\ UNCHANGED <<committed, cloudVars, clusterVars, pinVars, pc, runVars, stops, restarts>>

(* A kubelet, or its machine, stops posting: the Node is not Ready.        *)
KubeletStop ==
  /\ restarts < MaxRestarts
  /\ restarts' = restarts + 1
  /\ \E nd \in nodes : nd.ready /\ nodes' = (nodes \ {nd}) \cup {[nd EXCEPT !.ready = FALSE]}
  /\ UNCHANGED <<fileVars, cloudVars, hubFile, hubLive, pinVars, pc, runVars, stops>>

(* A joined server's kubelet starts again: the Node is Ready again, or     *)
(* registered again if it was deleted.                                     *)
KubeletRestart ==
  /\ restarts < MaxRestarts
  /\ restarts' = restarts + 1
  /\ \E s \in servers :
       /\ s.joined /\ \A nd \in Named(nodes, s.name) : ~nd.ready
       /\ nodes' = Posts(s)
  /\ UNCHANGED <<fileVars, cloudVars, hubFile, hubLive, pinVars, pc, runVars, stops>>

(* The Node of a Worker that came back between the runs of node remove:    *)
(* the operator deletes it as run 2 says, while no run is under way.       *)
DeleteNodeByHand ==
  /\ \A p \in Procs : pc[p] = "idle"
  /\ \E n \in Names :
       /\ ~Declared(n) /\ Named(nodes, n) # {}
       /\ nodes' = nodes \ Named(nodes, n)
  /\ UNCHANGED <<fileVars, cloudVars, hubFile, hubLive, pinVars, pc, runVars, stops, restarts>>

(* The cloud controller deletes a Node whose server is gone.               *)
NodeForgotten ==
  /\ \E nd \in nodes : ~Hosted(nd) /\ nodes' = nodes \ {nd}
  /\ UNCHANGED <<fileVars, cloudVars, hubFile, hubLive, pinVars, pc, runVars, stops, restarts>>

-----------------------------------------------------------------------------
Start(p, n) == NodeAdd(p, n) \/ NodeRemove(p, n) \/ NodeReplace(p, n)

AddStep(p) ==
  \/ Declare(p) \/ CheckNoNode(p) \/ PlanCreate(p) \/ Create(p) \/ PinCreated(p)
  \/ Build(p) \/ HubPeer(p) \/ HubSet(p) \/ PinVPN(p) \/ Join(p) \/ NodeReady(p)

LeaveStep(p) ==
  \/ CheckRetirable(p) \/ Drain(p) \/ DeleteNode(p)
  \/ HubPeerRemoveFile(p) \/ HubPeerRemoveLive(p) \/ UnpinVPN(p) \/ Undeclare(p)
  \/ NodeGone(p) \/ PlanDelete(p) \/ Delete(p) \/ UnpinPublic(p)
  \/ PlanReplace(p) \/ Replace(p)

Step(p) == AddStep(p) \/ LeaveStep(p) \/ Refuse(p)

Kubelets == KubeletStop \/ KubeletRestart

Environment == Commit \/ Revert \/ Kubelets \/ DeleteNodeByHand \/ NodeForgotten

Next ==
  \/ Environment
  \/ \E p \in Procs : Step(p) \/ Stop(p) \/ ReplaceFails(p) \/ \E n \in Names : Start(p, n)

Spec == Init /\ [][Next]_vars

(* A run goes on; the operator commits what one wrote, and does run 2 of   *)
(* node remove, again after it refused or stopped.  Nobody owes more.      *)
Run2(n) == ~Declared(n) /\ \E p \in Procs : NodeRemove(p, n)

Fairness ==
  /\ \A p \in Procs : WF_vars(Step(p))
  /\ WF_vars(Commit)
  /\ \A n \in Names : SF_vars(Run2(n))

FairSpec == Spec /\ Fairness

-----------------------------------------------------------------------------
(* The type of every variable: sets of whole records, one step per run.    *)
TypeOK ==
  /\ set \subseteq Entry
  /\ committed \subseteq Entry
  /\ servers \subseteq Server
  /\ nodes \subseteq Node
  /\ hubFile \subseteq Peer
  /\ hubLive \subseteq Peer
  /\ pubPins \subseteq Pin
  /\ vpnPins \subseteq Peer
  /\ serial \in Nat
  /\ made \in Nat
  /\ pc \in [Procs -> Steps]
  /\ cmd \in [Procs -> Commands]
  /\ name \in [Procs -> Names]
  /\ loaded \in [Procs -> SUBSET Entry]
  /\ srv \in [Procs -> SUBSET Server]
  /\ plan \in [Procs -> [serial : Nat, of : SUBSET Nat]]
  /\ stops \in Nat
  /\ restarts \in Nat

(* Servers are apart, however many runs are under way: one for each Worker *)
(* at the most, at an address of its own, with a key of its own.  A create *)
(* is planned while the Worker has no server, and Terraform refuses the    *)
(* plan if another run built one since (provision.CreateWorkers, tf.Apply, *)
(* tf.go:150).                                                             *)
ServersAreApart ==
  \A s, t \in servers :
    s.name = t.name \/ s.key = t.key \/ s.addr = t.addr \/ s.ip = t.ip => s = t

(* An apply destroys only servers its saved plan was made of, with other   *)
(* runs under way: never the new server another run built since            *)
(* (tf.go:150, "Terraform refuses it if the state changed since it was     *)
(* made"; node replace plans first and applies after the whole drain).     *)
DestroysPlanned ==
  [][\A p \in Procs : pc[p] \in {"delete", "replace"} /\ pc'[p] # pc[p]
       => \A s \in servers \ servers' : s.key \in plan[p].of]_vars

(* So are the entries of the set, on disk and in git: of two runs that     *)
(* each write the set they loaded the later one drops the other's entry,   *)
(* but none ever gives an address to two Workers or names one twice        *)
(* (workerset.Next, Set.Add).  In no run: WorkerLifecycleProofs proves it. *)
EntriesAreApart ==
  \A S \in {set, committed} : \A e, f \in S : e.name = f.name \/ e.addr = f.addr => e = f

(* With one run at a time, a server whose Worker git declares goes only    *)
(* with the apply of that Worker's own replacement: the server node remove *)
(* deletes is one git has let go, though it read the set at its start      *)
(* ("the Worker set declares no %s, but its server exists",                *)
(* node_remove.go:174).  In no run: WorkerLifecycleProofs proves it.       *)
DeclaredStays ==
  [][\A s \in servers :
       (\E e \in committed : e.name = s.name) /\ (\A t \in servers' : t.key # s.key)
         => \E p \in Procs : name[p] = s.name /\ (Replace(p) \/ ReplaceFails(p))]_vars

(* Wherever runs stop, every peer of the hub, in its file and live, and    *)
(* every pin at a VPN address is that of the declared Worker's server      *)
(* there.  So an address a Worker has given up is free of it before the    *)
(* set gives it to another (node_remove.go:77, worker_remove.go:276).      *)
AddressHolders ==
  \A q \in hubFile \cup hubLive \cup vpnPins :
    \E s \in servers, e \in set : /\ s.addr = q.addr /\ s.key = q.key
                               /\ e.addr = q.addr /\ e.name = s.name

(* With one run at a time, every step is a step of the leases of an        *)
(* address: it is one Worker's, on disk or in git; its server alone is let *)
(* on the hub and into the pins there; and neither the entry nor the       *)
(* server goes before the last of these is gone (workerset.Next, HubPeer,  *)
(* HubPeerRemove, UnpinVPN).                                               *)
Leases == INSTANCE AddressLease WITH Keys <- 1..MaxKeys,
  leases <- set \cup committed,
  machines <- {[name |-> s.name, addr |-> s.addr, key |-> s.key] : s \in servers},
  uses <- hubFile \cup hubLive \cup vpnPins
LeaseSpec == Leases!Spec

(* Run 2's turn: git no longer declares the Worker, and deleting its       *)
(* server is all Terraform has to do; no stop or restart is to come.       *)
Pending(n) == Committed /\ DeletesOnly(n)
Calm == stops = MaxStops /\ restarts = MaxRestarts

(* The server of such a Worker is deleted in the end, no matter where runs *)
(* stopped before, unless its Node came back or another edit of the set is *)
(* begun ("run 2 of 2 deletes it", node_remove.go:174).                    *)
UndeclaredIsDeleted ==
  \A n \in Names :
    (Calm /\ Pending(n) /\ Named(nodes, n) = {}) ~> ~Pending(n)

(* A server that git no longer declares does not stay for ever, whatever   *)
(* else the set declares or does not: "commit, then run kluster node       *)
(* remove again: it deletes the server" (node_remove.go:118).              *)
EachIsDeleted ==
  \A n \in Names :
    ~<>[](Committed /\ ~Declared(n) /\ Named(nodes, n) = {} /\ Named(servers, n) # {})

(* "The only Ready Worker" is not taken out (node_replace.go:207), though  *)
(* the check reads the Nodes once and the drain after it takes minutes.    *)
RegisteredStays ==
  [][\A nd \in nodes :
       (Declared(nd.name) /\ Ready(nd) /\ Named(nodes', nd.name) = {})
         => \E other \in nodes' : other.name # nd.name /\ Ready(other)]_vars

(* A drain leaves another Worker "Ready to take its pods"                  *)
(* (node_replace.go:163): one whose Node takes pods at all.                *)
PodsHaveAPlace ==
  [][\A nd \in nodes :
       (Ready(nd) /\ ~nd.cordoned /\ \E x \in nodes' : x.name = nd.name /\ x.cordoned)
         => \E other \in nodes' : other.name # nd.name /\ Ready(other) /\ ~other.cordoned]_vars

(* Only a kubelet undoes what a run read at its check, up to the end of    *)
(* its drain: no Node that is forgotten, no commit or revert and no run    *)
(* that stopped before takes the other Ready Worker away.  What refutes    *)
(* RegisteredStays is a kubelet that stops, or starts again, in between.   *)
(* In no run: WorkerLifecycleProofs proves it, with one run at a time.     *)
CheckLasts ==
  [][\A p \in Procs :
       (pc[p] \in {"drain", "deleteNode"} /\ MayLeave(name[p]) /\ ~Kubelets)
         => pc'[p] = "idle" \/ MayLeave(name[p])']_vars

(* What takes PodsHaveAPlace away is a kubelet too, or a run that stopped  *)
(* before it deleted the Node it had cordoned, and nothing else.  In no    *)
(* run: WorkerLifecycleProofs proves it, with one run at a time.           *)
PlaceUntilStop ==
  [][restarts' = 0 /\ stops' = 0 =>
       \A nd \in nodes :
         (Ready(nd) /\ ~nd.cordoned /\ \E x \in nodes' : x.name = nd.name /\ x.cordoned)
           => \E other \in nodes' : other.name # nd.name /\ Ready(other) /\ ~other.cordoned]_vars
=============================================================================
