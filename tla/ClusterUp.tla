------------------------------ MODULE ClusterUp ------------------------------
(***************************************************************************)
(* kluster up, cp init, node add and down as steps over one Hetzner        *)
(* project: the servers and what else is in it, kluster's pins, the        *)
(* cluster on the Control Plane, and the operator's laptop (tools/kluster/ *)
(* cmd/up.go, cp.go, node_add.go, commands.go; internal/provision, stages, *)
(* cloud, hostkey).                                                        *)
(*                                                                         *)
(* One kluster run at a time.  It captures what its preflight reads and    *)
(* acts on it later, over sessions that verify a pinned host key.  Beside  *)
(* it: the provider, the API server, the kubelets, the cloud controller,   *)
(* the database's archiver, and people, who interrupt a run, create and    *)
(* delete servers, start other commands and turn from up to down.          *)
(*                                                                         *)
(* A server is known by its id; ids grow, so they order servers by age.    *)
(* A host's key stands for the server (its rotation: HostKeyRotation), and *)
(* so does the hub's WireGuard key, made once on the host.  Left out: Plan *)
(* Mode, the SSH gate (SSHGate), a Worker's own VPN pin and hub peer, what *)
(* the seed and db create do (ClusterSeed, DatabaseCreate).                *)
(***************************************************************************)
EXTENDS Integers

CONSTANTS
    Workers,    \* the Workers a project may hold; numbers, in the order of their names
    Pool,       \* the public addresses the provider gives a Worker
    CpIp,       \* the Control Plane's own address, a Primary IP of the shared Module
    Vpn,        \* its VPN address
    MaxByHand   \* how often people act on the project, the API server or the run

Cp        == 0
Hosts     == {Cp} \cup Workers
Addresses == Pool \cup {CpIp, Vpn}

ASSUME UpConstants ==
    /\ Workers \subseteq Nat \ {0}
    /\ CpIp \notin Pool /\ Vpn \notin Pool /\ CpIp # Vpn
    /\ MaxByHand \in Nat

VARIABLES
    rehearsal,  \* which environment this is
    declared,   \* the Workers the Worker set declares
    goal,       \* what the operator wants: up or down
    server,     \* each server of the project: id, address, in Terraform's state, the CA its kubelet joined
    made,       \* how many servers were made so far
    cas,        \* how many clusters were initialised so far
    project,    \* the Control Plane's address, the network, load balancer and volume
    cp,         \* the Control Plane host: build marker, hub, API server, CA, seeded
    nodes,      \* the server behind each Worker's Node
    bucket,     \* the archive bucket holds objects
    pins,       \* the server whose host key is pinned at each address
    laptop,     \* the hub in its config and on its interface, the CA in its kubeconfig, its context
    run,        \* the kluster run
    byHand      \* how often people acted so far

vars == <<rehearsal, declared, goal, server, made, cas, project, cp, nodes,
          bucket, pins, laptop, run, byHand>>
intent == <<rehearsal, declared, goal>>
counts == <<made, cas>>
cloud  == <<server, project>>
host   == <<cp, nodes>>

NoServer == [id |-> 0, ip |-> CpIp, ours |-> FALSE, joined |-> 0]
NoCp     == [marker |-> "none", hub |-> FALSE, api |-> "none", ca |-> 0, seeded |-> FALSE]
Things   == {"lb", "volume", "ip", "net"}

Exists(n) == server[n].id # 0
Servers   == {n \in Hosts : Exists(n)}
First(S)  == CHOOSE w \in S : \A v \in S : w <= v

\* knownhosts: the host key at this server's address is the pinned one.
Trusted(n) == Exists(n) /\ pins[server[n].ip] = server[n].id

\* Mutant: a dial takes any pinned host.
DialsAnyPin(n) == Exists(n) /\ pins[server[n].ip] # 0

\* A dial is refused unless the host's key is the pinned one.
Dials(n) == Trusted(n)

\* Mutant: the rewrite keeps no other line of the file.
SetPinAlone(addr, id) == pins' = [a \in Addresses |-> IF a = addr THEN id ELSE 0]

\* Pins.Set replaces what was pinned at the address.
SetPin(addr, id) == pins' = [pins EXCEPT ![addr] = id]

\* Pins.Has asks for any pin at the address.
Has(n) == pins[server[n].ip] # 0

ReadyIn(n) == /\ Exists(n) /\ nodes[n] = server[n].id
              /\ cp.ca # 0 /\ server[n].joined = cp.ca

\* Mutant: the inventory forgets a kind of resource.
PresentUnbalanced == {x \in {"volume", "net"} : project[x]}
                     \cup {x \in {"ip"} : project.ip # "none"}

\* Inventory, without the servers.
Present == {x \in {"lb", "volume", "net"} : project[x]}
           \cup {x \in {"ip"} : project.ip # "none"}

Empty == Servers = {} /\ Present = {}

-----------------------------------------------------------------------------
(* A run and how it moves.                                                  *)

NoRun == [cmd |-> "up", step |-> "idle", cp |-> 0, ca |-> 0, at |-> 0, have |-> {}, new |-> {},
          fresh |-> {}, todo |-> {}, ids |-> {}, kinds |-> {}, errs |-> FALSE, quiet |-> TRUE]

Over == run.step \in {"idle", "done", "failed"}

At(s)  == run.step = s
To(s)  == run' = [run EXCEPT !.step = s]
Fail   == To("failed")

\* The root session on the Control Plane this run captured.
Session == server[Cp].id = run.cp /\ run.cp # 0

\* reachControlPlane, dialControlPlane: a rehearsal logs in at the public
\* address, live at the VPN address through the laptop's interface.
Reaches ==
    /\ Exists(Cp)
    /\ IF rehearsal THEN Dials(Cp)
       ELSE pins[Vpn] = server[Cp].id /\ laptop.wire = server[Cp].id

Init ==
    /\ rehearsal \in BOOLEAN /\ declared \in SUBSET Workers /\ declared # {}
    /\ goal = "up"
    /\ server = [n \in Hosts |-> NoServer] /\ made = 0 /\ cas = 0
    /\ project = [ip |-> "none", net |-> FALSE, lb |-> FALSE, volume |-> FALSE]
    /\ cp = NoCp /\ nodes = [w \in Workers |-> 0] /\ bucket = FALSE
    /\ pins = [a \in Addresses |-> 0]
    /\ laptop = [conf |-> 0, wire |-> 0, ca |-> 0, current |-> FALSE]
    /\ run = NoRun /\ byHand = 0

-----------------------------------------------------------------------------
(* The commands' preflights.                                                *)

\* A step of people, counted.
ByHand == byHand < MaxByHand /\ byHand' = byHand + 1

Begin(cmd, step, todo) ==
    /\ Over
    /\ run' = [NoRun EXCEPT !.cmd = cmd, !.step = step, !.cp = server[Cp].id,
                            !.have = Servers \cap Workers, !.todo = todo]
    /\ UNCHANGED <<intent, counts, cloud, host, bucket, pins, laptop>>

\* sortServers: no server the set does not declare and no dead Worker, one
\* without a Control Plane or older than it.
Sorted == \A w \in Servers \ {Cp} :
    w \in declared /\ Exists(Cp) /\ server[Cp].id < server[w].id

\* upPreflight: the Control Plane slot is empty or kluster's own, and without
\* a cluster the bucket is empty.
Preflight ==
    /\ Sorted
    /\ Exists(Cp) => Has(Cp)
    /\ ~Exists(Cp) => ~bucket

StartUp == goal = "up" /\ Preflight /\ Begin("up", "shared", declared)
           /\ UNCHANGED byHand

\* cp init: into an empty slot, or on a server kluster pinned.
StartInit ==
    /\ ByHand
    /\ Exists(Cp) => Has(Cp)
    /\ Begin("cpinit", IF Exists(Cp) THEN "login" ELSE "create", {})

\* node add of a declared Worker: with a Control Plane, whatever state its
\* build is in.
StartAdd(w) ==
    /\ ByHand
    /\ w \in declared /\ Exists(Cp)
    /\ Exists(w) => Has(w)
    /\ Begin("add", "reach", {w})

\* down, refused for live, takes the inventory first.
StartDown ==
    /\ goal = "down" /\ rehearsal /\ Over
    /\ run' = [NoRun EXCEPT !.cmd = "down", !.step = IF Empty THEN "empty" ELSE "servers",
                            !.ids = {server[n].id : n \in Servers}, !.kinds = Present]
    /\ UNCHANGED <<intent, counts, cloud, host, bucket, pins, laptop, byHand>>

-----------------------------------------------------------------------------
(* What makes a step fail: the plan would do anything but the create, the    *)
(* session is gone, a host key is not the pinned one, the API server does   *)
(* not answer, a marker or a Node stands in the way.                         *)

OnHost  == {"login", "hub", "kubeadm", "cut", "addons", "vpn", "prove", "complete",
            "workers", "build", "join", "ready"}
AsksApi == {"addons", "prove", "context", "join", "services"}
Steps   == OnHost \cup
           {"idle", "done", "failed", "shared", "create", "pincp", "wireguard", "restart",
            "kubeconfig", "context", "reach", "apply", "pin", "services",
            "servers", "volume", "ip", "net", "readback", "empty", "forget"}

\* The Workers the workers Module would create: declared ones its state lacks.
Planned == {w \in declared : ~Exists(w) \/ ~server[w].ours}

\* The Workers this run found without a server when it began.
Missing == run.todo \ run.have

\* The Worker whose turn it is.
Due == First(run.todo)

Blocked ==
    \/ At("create") /\ (Exists(Cp) \/ project.ip # "free" \/ ~project.net)
    \/ At("pincp") /\ ~Session
    \/ run.step \in OnHost /\ ~Session
    \/ run.step \in AsksApi /\ cp.api # "up"
    \/ At("login") /\ (~Dials(Cp) \/ cp.marker = "none")
    \/ At("prove") /\ pins[Vpn] # run.cp
    \/ At("context") /\ (~Session \/ laptop.wire # run.cp)
    \/ run.step \in {"reach", "services"} /\ ~Reaches
    \/ At("workers") /\ Missing # {} /\
       (cp.api # "up" \/ Planned # Missing \/ \E w \in Missing : nodes[w] # 0)
    \/ At("apply") /\ \E w \in run.new : Exists(w)
    \/ At("build") /\ ~Dials(Due)
    \/ At("join") /\ server[Due].id # run.at

\* NodeReady's Probe: the Node of exactly this server, Ready.
DueReady == ReadyIn(Due) /\ nodes[Due] = run.at /\ cp.api = "up"

Step(s) == At(s) /\ ~Blocked

\* stage.Run and every caller: the first error ends the run.  The waits of
\* node-ready and of the Primary IP's delete end in one too.
Fails ==
    /\ Blocked \/ (At("ready") /\ ~DueReady)
    /\ Fail
    /\ UNCHANGED <<intent, counts, cloud, host, bucket, pins, laptop, byHand>>

-----------------------------------------------------------------------------
(* Control Plane: create, pin, build.                                       *)

\* tf.Converge with sharedIntent: creates what is missing.
Shared ==
    /\ Step("shared")
    /\ project' = [project EXCEPT !.net = TRUE, !.ip = IF @ = "none" THEN "free" ELSE @]
    /\ To(IF run.cp = 0 THEN "create" ELSE "login")
    /\ UNCHANGED <<intent, counts, server, host, bucket, pins, laptop, byHand>>

Create(n, ip) ==
    /\ server' = [server EXCEPT ![n] = [id |-> made + 1, ip |-> ip, ours |-> TRUE, joined |-> 0]]
    /\ made' = made + 1

\* provision.CreateControlPlane: exactly one create; cloud-init writes the
\* marker at the first boot.
CreateControlPlane ==
    /\ Step("create")
    /\ Create(Cp, CpIp)
    /\ project' = [project EXCEPT !.ip = "assigned"]
    /\ cp' = [NoCp EXCEPT !.marker = "running"]
    /\ run' = [run EXCEPT !.step = "pincp", !.cp = made + 1]
    /\ UNCHANGED <<intent, cas, nodes, bucket, pins, laptop, byHand>>

PinControlPlane ==
    /\ Step("pincp")
    /\ SetPin(CpIp, run.cp)
    /\ To("login")
    /\ UNCHANGED <<intent, counts, cloud, host, bucket, laptop, byHand>>

\* buildControlPlane: the first login, then the marker.
Login ==
    /\ Step("login")
    /\ To(IF cp.marker = "running" THEN "hub"
          ELSE IF run.cmd = "up" THEN "reach" ELSE "done")
    /\ UNCHANGED <<intent, counts, cloud, host, bucket, pins, laptop, byHand>>

\* WireGuardHub keeps the key a resumed run made.
Hub ==
    /\ Step("hub")
    /\ cp' = [cp EXCEPT !.hub = TRUE]
    /\ To("kubeadm")
    /\ UNCHANGED <<intent, counts, cloud, nodes, bucket, pins, laptop, byHand>>

\* KubeadmInit.Probe: readyz answers.
Initialised ==
    /\ Step("kubeadm") /\ cp.api = "up"
    /\ To("addons")
    /\ UNCHANGED <<intent, counts, cloud, host, bucket, pins, laptop, byHand>>

\* Mutant: only a cluster that was up is reset.
ResetWhole ==
    /\ Step("kubeadm") /\ cp.api = "down" /\ cp.marker = "running"
    /\ cp' = [cp EXCEPT !.api = "none", !.ca = 0]
    /\ nodes' = [w \in Workers |-> 0]
    /\ UNCHANGED <<intent, counts, cloud, bucket, pins, laptop, run, byHand>>

\* resetHalfInit: what a cut init left, if the marker is running.
ResetHalfInit ==
    /\ Step("kubeadm") /\ cp.api \in {"cut", "down"} /\ cp.marker = "running"
    /\ cp' = [cp EXCEPT !.api = "none", !.ca = 0]
    /\ nodes' = [w \in Workers |-> 0]
    /\ UNCHANGED <<intent, counts, cloud, bucket, pins, laptop, run, byHand>>

InitBegin ==
    /\ Step("kubeadm") /\ cp.api = "none"
    /\ cp' = [cp EXCEPT !.api = "cut", !.ca = cas + 1]
    /\ cas' = cas + 1
    /\ To("cut")
    /\ UNCHANGED <<intent, made, cloud, nodes, bucket, pins, laptop, byHand>>

InitEnd ==
    /\ Step("cut")
    /\ cp' = [cp EXCEPT !.api = "up"]
    /\ To("addons")
    /\ UNCHANGED <<intent, counts, cloud, nodes, bucket, pins, laptop, byHand>>

\* Flannel, CloudController and CSI; the pin at the VPN address and the CA read
\* from admin.conf; the proof of the operator route through the hub.
Addons ==
    /\ Step("addons") /\ To("vpn")
    /\ UNCHANGED <<intent, counts, cloud, host, bucket, pins, laptop, byHand>>

PinVPNAddress ==
    /\ Step("vpn")
    /\ SetPin(Vpn, run.cp)
    /\ run' = [run EXCEPT !.step = "prove", !.ca = cp.ca]
    /\ UNCHANGED <<intent, counts, cloud, host, bucket, laptop, byHand>>

ProveRoute ==
    /\ Step("prove") /\ To("wireguard")
    /\ UNCHANGED <<intent, counts, cloud, host, bucket, pins, laptop, byHand>>

\* LaptopWireGuard: the Probe reads the file alone; the Act writes it, and on
\* live restarts the unit after that.
LaptopWireGuard ==
    /\ Step("wireguard")
    /\ laptop' = [laptop EXCEPT !.conf = run.cp]
    /\ To(IF rehearsal \/ laptop.conf = run.cp THEN "kubeconfig" ELSE "restart")
    /\ UNCHANGED <<intent, counts, cloud, host, bucket, pins, byHand>>

RestartUnit ==
    /\ Step("restart")
    /\ laptop' = [laptop EXCEPT !.wire = laptop.conf]
    /\ To("kubeconfig")
    /\ UNCHANGED <<intent, counts, cloud, host, bucket, pins, byHand>>

\* Mutant: a kubeconfig whose context has the name is taken as this cluster's.
KubeconfigByName ==
    /\ Step("kubeconfig")
    /\ laptop' = [laptop EXCEPT !.ca = IF laptop.current THEN @ ELSE run.ca]
    /\ To(IF rehearsal \/ laptop.current THEN "complete" ELSE "context")
    /\ UNCHANGED <<intent, counts, cloud, host, bucket, pins, byHand>>

\* LaptopKubeconfig: a rehearsal writes the file.  Live merges it in one
\* write, and the context moves only once the API server answers through it;
\* a context that already has the name stays current.
LaptopKubeconfig ==
    /\ Step("kubeconfig")
    /\ laptop' = [laptop EXCEPT !.ca = run.ca]
    /\ To(IF rehearsal \/ (laptop.ca = run.ca /\ laptop.current) THEN "complete" ELSE "context")
    /\ UNCHANGED <<intent, counts, cloud, host, bucket, pins, byHand>>

UseContext ==
    /\ Step("context")
    /\ laptop' = [laptop EXCEPT !.current = TRUE]
    /\ To("complete")
    /\ UNCHANGED <<intent, counts, cloud, host, bucket, pins, byHand>>

CompleteBuild ==
    /\ Step("complete")
    /\ cp' = [cp EXCEPT !.marker = "complete"]
    /\ To(IF run.cmd = "up" THEN "reach" ELSE "done")
    /\ UNCHANGED <<intent, counts, cloud, nodes, bucket, pins, laptop, byHand>>

-----------------------------------------------------------------------------
(* Workers: one apply for all that miss a server, then each build in turn.  *)

Reach ==
    /\ Step("reach") /\ To("workers")
    /\ UNCHANGED <<intent, counts, cloud, host, bucket, pins, laptop, byHand>>

\* checkNoNode for each missing Worker, then the plan: exactly their creates.
PlanWorkers ==
    /\ Step("workers")
    /\ run' = [run EXCEPT !.step = IF Missing = {} THEN "build" ELSE "apply", !.new = Missing]
    /\ UNCHANGED <<intent, counts, cloud, host, bucket, pins, laptop, byHand>>

\* The apply makes them in any order and may stop halfway.
ApplyWorker(w, ip) ==
    /\ Step("apply") /\ w \in run.new
    /\ \A n \in Servers : server[n].ip # ip
    /\ Create(w, ip)
    /\ run' = [run EXCEPT !.new = @ \ {w}, !.fresh = @ \cup {w},
                          !.step = IF run.new = {w} THEN "pin" ELSE "apply"]
    /\ UNCHANGED <<intent, cas, project, host, bucket, pins, laptop, byHand>>

\* pinCreated, in the order of the names, at the addresses of the outputs.
PinWorker ==
    LET w == First(run.fresh) IN
    /\ Step("pin")
    /\ SetPin(server[w].ip, server[w].id)
    /\ run' = [run EXCEPT !.fresh = @ \ {w}, !.step = IF run.fresh = {w} THEN "build" ELSE "pin"]
    /\ UNCHANGED <<intent, counts, cloud, host, bucket, laptop, byHand>>

\* buildWorker: the login and the Stages before the join.
BuildWorker ==
    /\ Step("build")
    /\ run' = [run EXCEPT !.step = "join", !.at = server[Due].id]
    /\ UNCHANGED <<intent, counts, cloud, host, bucket, pins, laptop, byHand>>

\* Join is done on a host that holds a kubelet.conf, whichever CA signed it.
Join ==
    /\ Step("join")
    /\ server' = [server EXCEPT ![Due].joined = IF @ = 0 THEN cp.ca ELSE @]
    /\ To("ready")
    /\ UNCHANGED <<intent, counts, project, host, bucket, pins, laptop, byHand>>

NodeReady ==
    /\ Step("ready") /\ DueReady
    /\ run' = [run EXCEPT !.todo = @ \ {Due},
                          !.step = IF run.todo # {Due} THEN "build"
                                   ELSE IF run.cmd = "up" THEN "services" ELSE "done"]
    /\ UNCHANGED <<intent, counts, cloud, host, bucket, pins, laptop, byHand>>

\* upServices: the seed, the database, the zone (ClusterSeed, DatabaseCreate).
Services ==
    /\ Step("services")
    /\ cp' = [cp EXCEPT !.seeded = TRUE]
    /\ To("done")
    /\ UNCHANGED <<intent, counts, cloud, nodes, bucket, pins, laptop, byHand>>

-----------------------------------------------------------------------------
(* kluster down.                                                            *)

\* DeleteAll: each server of the inventory, then its load balancers.
DeleteServer(n) ==
    /\ At("servers") /\ server[n].id \in run.ids /\ Exists(n)
    /\ server' = [server EXCEPT ![n] = NoServer]
    /\ cp' = IF n = Cp THEN NoCp ELSE cp
    /\ nodes' = IF n = Cp THEN [w \in Workers |-> 0] ELSE nodes
    /\ UNCHANGED <<intent, counts, project, bucket, pins, laptop, run, byHand>>

DeleteBalancers ==
    /\ At("servers") /\ \A n \in Servers : server[n].id \notin run.ids
    /\ project' = [project EXCEPT !.lb = @ /\ "lb" \notin run.kinds]
    /\ To("volume")
    /\ UNCHANGED <<intent, counts, server, host, bucket, pins, laptop, byHand>>

DeleteVolume ==
    /\ At("volume")
    /\ project' = [project EXCEPT !.volume = @ /\ "volume" \notin run.kinds]
    /\ To("ip")
    /\ UNCHANGED <<intent, counts, server, host, bucket, pins, laptop, byHand>>

\* deletePrimaryIP retries while it is assigned, up to a deadline; an error
\* does not stop the deletes after it.
DeletePrimaryIP ==
    /\ At("ip")
    /\ \/ /\ project.ip # "assigned" \/ "ip" \notin run.kinds
          /\ project' = [project EXCEPT !.ip = IF "ip" \in run.kinds THEN "none" ELSE @]
          /\ To("net")
       \/ /\ project.ip = "assigned" /\ "ip" \in run.kinds
          /\ run' = [run EXCEPT !.step = "net", !.errs = TRUE]
          /\ UNCHANGED project
    /\ UNCHANGED <<intent, counts, server, host, bucket, pins, laptop, byHand>>

Attached == Servers # {} \/ project.lb

DeleteNetwork ==
    /\ At("net")
    /\ project' = [project EXCEPT !.net = @ /\ ("net" \notin run.kinds \/ Attached)]
    /\ To(IF run.errs \/ ("net" \in run.kinds /\ Attached) THEN "failed" ELSE "readback")
    /\ UNCHANGED <<intent, counts, server, host, bucket, pins, laptop, byHand>>

\* Mutant: what the deletes answered is taken for the readback.
ReadbackTrusted ==
    /\ At("readback") /\ To("empty")
    /\ UNCHANGED <<intent, counts, cloud, host, bucket, pins, laptop, byHand>>

\* The second inventory must be empty.
Readback ==
    /\ At("readback")
    /\ To(IF Empty THEN "empty" ELSE "failed")
    /\ UNCHANGED <<intent, counts, cloud, host, bucket, pins, laptop, byHand>>

\* Only now: a Cluster still running would archive into the bucket again.
EmptyBucket ==
    /\ At("empty")
    /\ bucket' = FALSE
    /\ To("forget")
    /\ UNCHANGED <<intent, counts, cloud, host, pins, laptop, byHand>>

Forget ==
    /\ At("forget")
    /\ pins' = [a \in Addresses |-> 0]
    /\ To("done")
    /\ UNCHANGED <<intent, counts, cloud, host, bucket, laptop, byHand>>

-----------------------------------------------------------------------------
(* Around kluster.                                                          *)

\* The API server of a running Control Plane comes back.
ApiBack ==
    /\ cp.api = "down"
    /\ cp' = [cp EXCEPT !.api = "up"]
    /\ UNCHANGED <<intent, counts, cloud, nodes, bucket, pins, laptop, run, byHand>>

\* A kubelet that joined this cluster registers its Node.
Register(w) ==
    /\ Exists(w) /\ cp.api = "up" /\ server[w].joined = cp.ca /\ nodes[w] = 0
    /\ nodes' = [nodes EXCEPT ![w] = server[w].id]
    /\ UNCHANGED <<intent, counts, cloud, cp, bucket, pins, laptop, run, byHand>>

\* The cloud controller deletes the Node of a server that is gone.
ForgetNode(w) ==
    /\ cp.api = "up" /\ nodes[w] # 0 /\ server[w].id # nodes[w]
    /\ nodes' = [nodes EXCEPT ![w] = 0]
    /\ UNCHANGED <<intent, counts, cloud, cp, bucket, pins, laptop, run, byHand>>

\* What the seeded cluster makes: the Gateway's load balancer, a volume.
Provide(x) ==
    /\ cp.seeded /\ cp.api = "up" /\ x \in {"lb", "volume"} /\ ~project[x]
    /\ project' = [project EXCEPT ![x] = TRUE]
    /\ UNCHANGED <<intent, counts, server, host, bucket, pins, laptop, run, byHand>>

\* The database archives from a Node, with or without the API server.
Archive ==
    /\ cp.seeded /\ \E w \in Workers : ReadyIn(w)
    /\ ~bucket /\ bucket' = TRUE
    /\ UNCHANGED <<intent, counts, cloud, host, pins, laptop, run, byHand>>

\* Hetzner unassigns the address a moment after its server is gone.
Unassign ==
    /\ project.ip = "assigned" /\ ~Exists(Cp)
    /\ project' = [project EXCEPT !.ip = "free"]
    /\ UNCHANGED <<intent, counts, server, host, bucket, pins, laptop, run, byHand>>

Disturb == run' = [run EXCEPT !.quiet = FALSE]

\* An interrupt, a killed process, an error of an API or of a script.
Stop ==
    /\ ByHand /\ ~Over
    /\ run' = [run EXCEPT !.step = "failed", !.quiet = FALSE]
    /\ UNCHANGED <<intent, counts, cloud, host, bucket, pins, laptop>>

ApiDown ==
    /\ ByHand /\ Disturb /\ cp.api = "up"
    /\ cp' = [cp EXCEPT !.api = "down"]
    /\ UNCHANGED <<intent, counts, cloud, nodes, bucket, pins, laptop>>

\* Someone deletes a server, though not one this run's apply just made.
DeleteByHand(n) ==
    /\ ByHand /\ Disturb /\ Exists(n) /\ n \notin run.fresh
    /\ server' = [server EXCEPT ![n] = NoServer]
    /\ cp' = IF n = Cp THEN NoCp ELSE cp
    /\ nodes' = IF n = Cp THEN [w \in Workers |-> 0] ELSE nodes
    /\ UNCHANGED <<intent, counts, project, bucket, pins, laptop>>

\* Someone creates a server with the name of one of the cluster's.
CreateByHand(n, ip) ==
    /\ ByHand /\ Disturb /\ ~Exists(n)
    /\ IF n = Cp THEN ip = CpIp /\ project.ip = "free"
                 ELSE ip \in Pool /\ \A v \in Servers : server[v].ip # ip
    /\ server' = [server EXCEPT ![n] = [id |-> made + 1, ip |-> ip, ours |-> FALSE, joined |-> 0]]
    /\ made' = made + 1
    /\ project' = IF n = Cp THEN [project EXCEPT !.ip = "assigned"] ELSE project
    /\ UNCHANGED <<intent, cas, host, bucket, pins, laptop>>

Want(g) ==
    /\ ByHand /\ Disturb /\ g # goal /\ goal' = g
    /\ UNCHANGED <<rehearsal, declared, counts, cloud, host, bucket, pins, laptop>>

-----------------------------------------------------------------------------
BuildCp ==
    \/ Shared \/ CreateControlPlane \/ PinControlPlane \/ Login \/ Hub
    \/ Initialised \/ ResetHalfInit \/ InitBegin \/ InitEnd
    \/ Addons \/ PinVPNAddress \/ ProveRoute
    \/ LaptopWireGuard \/ RestartUnit \/ LaptopKubeconfig \/ UseContext
    \/ CompleteBuild

BuildWorkers ==
    \/ Reach \/ PlanWorkers \/ PinWorker \/ BuildWorker \/ Join \/ NodeReady
    \/ \E w \in Workers, ip \in Pool : ApplyWorker(w, ip)
    \/ Services

Down ==
    \/ \E n \in Hosts : DeleteServer(n)
    \/ DeleteBalancers \/ DeleteVolume \/ DeletePrimaryIP \/ DeleteNetwork
    \/ Readback \/ EmptyBucket \/ Forget

Kluster == BuildCp \/ BuildWorkers \/ Down \/ Fails

Around ==
    \/ ApiBack \/ Archive \/ Unassign
    \/ \E w \in Workers : Register(w) \/ ForgetNode(w)
    \/ \E x \in Things : Provide(x)

People ==
    \/ StartInit \/ \E w \in Workers : StartAdd(w)
    \/ Stop \/ ApiDown
    \/ \E n \in Hosts : DeleteByHand(n)
    \/ \E n \in Hosts, ip \in Addresses : CreateByHand(n, ip)
    \/ \E g \in {"up", "down"} : Want(g)

Next == StartUp \/ StartDown \/ Kluster \/ Around \/ People

Spec == Init /\ [][Next]_vars

\* The operator runs the goal's command again whenever it may run; kluster
\* goes on; the API server comes back, a kubelet registers, the controller
\* forgets a Node, the provider unassigns an address.
FairSpec ==
    /\ Spec
    /\ WF_vars(StartUp) /\ WF_vars(StartDown) /\ WF_vars(Kluster)
    /\ WF_vars(ApiBack) /\ WF_vars(Unassign)
    /\ \A w \in Workers : WF_vars(Register(w)) /\ WF_vars(ForgetNode(w))

-----------------------------------------------------------------------------
TypeOK ==
    /\ rehearsal \in BOOLEAN /\ declared \subseteq Workers /\ declared # {}
    /\ goal \in {"up", "down"}
    /\ server \in [Hosts -> [id : Nat, ip : Addresses, ours : BOOLEAN, joined : Nat]]
    /\ made \in Nat /\ cas \in Nat /\ byHand \in Nat
    /\ project \in [ip : {"none", "free", "assigned"}, net : BOOLEAN, lb : BOOLEAN, volume : BOOLEAN]
    /\ cp \in [marker : {"none", "running", "complete"}, hub : BOOLEAN,
               api : {"none", "cut", "up", "down"}, ca : Nat, seeded : BOOLEAN]
    /\ cp.ca = 0 <=> cp.api = "none"
    /\ nodes \in [Workers -> Nat] /\ bucket \in BOOLEAN
    /\ pins \in [Addresses -> Nat]
    /\ laptop \in [conf : Nat, wire : Nat, ca : Nat, current : BOOLEAN]
    /\ run \in [cmd : {"up", "cpinit", "add", "down"}, step : Steps, cp : Nat, ca : Nat, at : Nat,
                have : SUBSET Workers, new : SUBSET Workers, fresh : SUBSET Workers,
                todo : SUBSET Workers, ids : SUBSET Nat, kinds : SUBSET Things,
                errs : BOOLEAN, quiet : BOOLEAN]

\* What the operator has after an up that ended well.
Up ==
    /\ Exists(Cp) /\ Trusted(Cp) /\ cp.marker = "complete" /\ cp.hub /\ cp.seeded
    /\ Servers = declared \cup {Cp}
    /\ \A w \in declared : ReadyIn(w) /\ Trusted(w)
    /\ laptop.conf = server[Cp].id /\ laptop.ca = cp.ca
    /\ rehearsal \/ (laptop.wire = laptop.conf /\ laptop.current)

\* When up ends well and nobody interfered, every declared Worker is a Node of
\* this Control Plane's cluster, and the laptop points at this hub and this CA.
UpSound == At("done") /\ run.cmd = "up" /\ run.quiet => Up

Cleared == Empty /\ ~bucket /\ \A a \in Addresses : pins[a] = 0

\* When down ends well and nobody interfered, project, bucket and pins are empty.
DownSound == At("done") /\ run.cmd = "down" /\ run.quiet => Cleared

\* kluster never loses the key it pinned for a server that still exists.
PinsKept == [][\A n \in Hosts :
    Trusted(n) /\ server'[n].id = server[n].id => Trusted(n)']_vars

\* No command but a rehearsal's down takes a server away; none changes a server
\* or a Control Plane whose key is not the pinned one; and the cluster of a
\* complete build is never initialised again.
FillsSlots == [][
    byHand' = byHand =>
    /\ \A n \in Servers : \/ server'[n] = server[n]
                          \/ server'[n].id = server[n].id /\ Trusted(n)
                          \/ rehearsal /\ run.cmd = "down" /\ server'[n] = NoServer
    /\ cp'.ca # cp.ca => \/ ~Exists(Cp)'
                         \/ Trusted(Cp) /\ cp.marker = "running"
    /\ cp'.marker # cp.marker => \/ ~Exists(Cp) \/ ~Exists(Cp)'
                                 \/ Trusted(Cp) ]_vars

\* Refusals only a person ends: a server kluster did not create or pin, a dead
\* or undeclared Worker, a Worker of a cluster that was reset, an archive with
\* no cluster, ...
Foreign == \E n \in Servers : ~Trusted(n) \/ (n # Cp /\ ~server[n].ours)
Orphan  == \E w \in Workers : Exists(w) /\ server[w].joined \notin {0, cp.ca}
Archived == ~Exists(Cp) /\ bucket
\* ... and on live a laptop whose file names the hub while its interface does not.
Unrestarted == ~rehearsal /\ Exists(Cp) /\ laptop.conf = server[Cp].id /\ laptop.wire # laptop.conf

NeedsAPerson == Foreign \/ ~Sorted \/ Orphan \/ Archived \/ Unrestarted

UpDone == At("done") /\ run.cmd = "up" /\ Up

\* While the operator wants the cluster up, rerunning up ends with it up, or a
\* person is needed for one of these reasons.
Converges == <>[](goal = "up") => ([]<>UpDone \/ <>[]NeedsAPerson)

\* While a rehearsal is to be down, rerunning down clears it for good.
Clears == <>[](goal = "down" /\ rehearsal) => <>[]Cleared

\* cp.go: "Each Stage whose Probe says done is skipped, so a stopped build resumes."
BuildResumes == <>[](goal = "up") =>
    ([]<>UpDone \/ <>[](Foreign \/ ~Sorted \/ Orphan \/ Archived))
=============================================================================
