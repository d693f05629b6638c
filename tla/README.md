# A specification of kluster and the cluster it builds

This directory holds TLA+ modules that model the code of this repository which
changes things: `kluster` (`src/tools/kluster`), the Go command the operator
builds, changes and recovers a Kubernetes cluster on Hetzner Cloud with. The
modules are checked by TLC on small instances (the `.cfg` files) and proved
about with TLAPS (`*Proofs.tla`). `PROJECT.json` maps every definition to the
lines it models and lists runs, hazards, findings and theorems.

Paths below are relative to `src/tools/kluster` unless they begin with
another directory of the repository.

## The system

kluster has no daemon and no store of its own. A command is one process on the
operator's laptop: it reads, plans, shows the plan (Plan Mode), and with
`--apply` changes files of the repository, Terraform states, servers, hosts
over SSH, the Kubernetes API over SSH, and object storage. What must survive a
run is in those places. That makes the hard part of this code not parallelism
inside a process but the *sequence*: a run stops at any call, at an error, a
timeout, Ctrl-C (`main.go` turns SIGINT, SIGTERM and SIGHUP into a cancelled
context), a SIGKILL or a crash, and the next run meets what it left. Each unit
of work is a Stage: Probe says whether it is done, Act does it, Probe again
proves it (`internal/stage`).

### Inventory

| Component | State it keeps or changes | Operations | Talks to | What is hard | What makes it correct |
|---|---|---|---|---|---|
| Host keys: `internal/hostkey`, `internal/stages/hostkey.go` | `known_hosts` and its `.tmp`; on each host the key files, the key sshd serves, a rotated-marker | seed a key by cloud-init, pin, rotate, finish a stopped rotation | sshd, every SSH dial of kluster | stop between any two steps; `rehearse core` rotates all hosts at once in one file | the host is reachable with a pinned key after every step; the seeded key, which any process on the server can read from the metadata service, ends out of the pins for good |
| Bootstrap SSH: `internal/sshgate`, `internal/cloud/firewall.go`, `internal/tf` | two firewall rules, the shared Terraform state, a saved plan | open, close, read back, clear over the API | Terraform, Hetzner API; used by cp init, node add, node replace, up | both switches in one plan; a provider that reports a close it did not do; kill before the deferred close; overlapping runs | open is never silent; an open closes nothing; a close ends with both closed |
| Workers: `cmd/node_*.go`, `internal/stages/worker_*.go`, `internal/provision` | the Worker set file, its commit, servers, Nodes, hub peers (file and live), pins | node add, remove (two runs), replace | git, Terraform, Control Plane (kubectl, wg), API | two runs around a commit; crash between any two writes; kubelets that register again; saved plans | an address belongs to one Worker in every record; the last Ready Worker stays; a saved plan destroys only what it was made of; what git no longer declares is deleted in the end |
| Worker set: `internal/workerset` | entries with private and VPN address | load, add, remove, next free address, commit gate | git | text edit, two writers | lowest free address, edits change one entry |
| Intents: `internal/intent` | none | check a plan against what a command means to do | every Terraform apply | plan with more than was asked | no resource outside the Intent changes |
| Database: `internal/db`, `internal/pgcluster`, `cmd/db.go` | the Cluster, archive generations in R2, lock rules, Backups, generation in two repository files | preflight, apply, waits, switchover proof, first backup, generation bump | CloudNativePG, barman-cloud, R2, git | resume after any stop; markers; failovers; lost bumps; old Backups | a path has one writer; a recovery reads the newest generation; archived under a lock; "done" means a backup exists and archiving survives a switchover |
| `kluster up`: `cmd/up.go` | none of its own | preflight, shared, Control Plane, Workers, seed, database, zone | all of the above | rerun after a stop anywhere | fills empty slots only; a rerun resumes |
| Reset: `cmd/reset.go` | none | replace each declared Worker in turn, waiting for the databases | node replace | stop between Workers | one Worker out at a time |
| `kluster down`: `cmd/commands.go`, `internal/cloud/down.go` | the rehearsal project and bucket | delete every resource in order, empty the bucket, drop pins | API, R2 | late unassignment, partial failure | never live; the bucket after the Cluster |
| Control Plane: `cmd/cp.go`, `internal/stages/cp_*.go` | the build marker, kubeadm state, hub config | cp init Stages | API, SSH | resume; a slot that is not empty | never touches a Control Plane it did not create |
| Seed: `internal/seed` | CRDs, Namespaces, Secrets, ArgoCD | seed Stages, rehearsal cuts, monitoring test, zone check | ArgoCD, Cloudflare | ArgoCD self-heal, waits | a rehearsal acts on nothing live; the zone last |
| Secret Catalog: `internal/secrets`, `internal/catalog` | encrypted files | generate, rotate, pull, set, diff live, fresh | sops, Bitwarden, cluster | several files, one write each | a copy follows its source; no plain value on disk |
| Core set check: `internal/coreset`, `cmd/services.go` | none | static checks | — | — | seed, check and ArgoCD agree on one list |
| Laptop: `internal/stages/laptop_*.go`, `internal/vpn`, `internal/kubeconfig` | WireGuard config, kubeconfig | edit behind a Probe | — | half-edited file | other entries stay |
| Reads: `internal/{config,env,kube,kbuild,nodelist,routeproof,filediff,local,bitwarden,sops,cloud}` | none | read, decode | — | — | their results are the state of the modules |
| Deploys: `.github/actions/tag-bump`, `.github/scripts`, `deployments` | branches, pull requests, an append-only history | move one image tag through a pull request; record a deploy | GitHub | two CI runs of one app close each other's requests | a green run has a merged tag |
| Recovery drill: `core/pg-drill` | a throw-away Cluster | restore and compare, on a schedule | CloudNativePG | — | a drill never touches the live Cluster |
| Manifests and Terraform: `core`, `projects`, `infra` | declarative | — | — | — | not code |

The hazards, each at its line with the properties that would catch it, are in
`PROJECT.json` under `hazards`.

## The modules

| Module | What it is | Code |
|---|---|---|
| `PinTrust` | abstract: the keys an operator trusts at a host, and when a host may change its key | what a rotation promises |
| `HostKeyRotation` | the Stage, its scripts and every rewrite of `known_hosts`; implements `PinTrust` | `stages/hostkey.go`, `hostkey/pins.go`, `stage.Run` |
| `MCHostKeyRotation` | symmetry for TLC | |
| `HostKeyRotationProofs` | theorems and proofs | |
| `SSHGate` | `Open` and `Close` by several processes | `sshgate`, `tf`, `cloud/firewall.go`, `cmd/node_add.go` |
| `SSHGateProofs` | theorems and proofs | |
| `AddressLease` | abstract: who may have an address, a machine at it, and what expects that machine there | what the Worker commands promise about addresses |
| `WorkerLifecycle` | the three Worker commands, step by step, and the world around them; implements `AddressLease` | `cmd/node_*.go`, `stages/worker_*.go`, `provision`, `workerset` |
| `MCWorkerLifecycle` | symmetry for TLC, and one of the numberings the start can have | |
| `WorkerLifecycleProofs` | theorems and proofs | |
| `ArchiveLedger` | abstract: who claims, writes and is certified on a path of the archive | what the database step promises |
| `DatabaseCreate` | db create, the database step of up, archive generations; implements `ArchiveLedger` | `db`, `pgcluster`, `cmd/db.go`, `cmd/up.go`, `cmd/commands.go` |
| `DatabaseCreateProofs` | theorems and proofs | |
| `Catalog` | the Secret Catalog as constants: Secrets, keys, kinds, copies, values | `internal/catalog` |
| `SecretFiles` | every `kluster secrets` command that writes, over the encrypted files, Bitwarden and the live Secrets | `internal/secrets`, `cmd/secrets.go` |
| `MCSecretFiles` | a catalog of two Secrets for TLC | |
| `SecretFilesProofs` | theorems and proofs | |
| `ClusterSeed` | services seed and the services part of up under the Stage runner, beside ArgoCD, the cloud and Prometheus | `internal/seed`, `secrets/fresh.go`, `coreset`, `stage`, `cmd/services.go`, `cmd/up.go` |
| `MCClusterSeed` | two commits and three Secrets for TLC | |
| `ClusterSeedProofs` | theorems and proofs | |
| `ClusterUp` | up, cp init, node add and down over one project | `cmd/up.go`, `cp.go`, `node_add.go`, `commands.go`, `provision`, `stages`, `cloud`, `hostkey` |
| `MCClusterUp` | model values for TLC | |
| `ClusterUpProofs` | theorems and proofs | |
| `Reset` | reset, node replace and node add beside the instances of the databases | `cmd/reset.go`, `cmd/node_replace.go`, `stages/worker_remove.go`, `provision/workers.go` |
| `MCReset` | three instances of two databases for TLC | |
| `ResetProofs` | theorems and proofs | |

The modules share their subject where the code does: `SecretFiles` and
`ClusterSeed` extend `Catalog`; `ClusterUp` runs a whole `up` and takes the
outcome of the seed and the database step as one action, `ClusterSeed` takes
the database step as one Stage, and `DatabaseCreate` is that step. `Reset` and
`WorkerLifecycle` both have node replace: `WorkerLifecycle` over the records
that have to agree on an address, `Reset` over what runs on the Workers.

How each corresponds to the code:

**HostKeyRotation.** `inode` holds the content of files, `pinsName` and
`tmpName` say which file the two names lead to, so that the write to
`known_hosts.tmp` through an open descriptor and the rename are separate
steps, as they are in `Pins.rewrite` (`pins.go:80`). `pins` is the file behind
the name. A host has the key on disk, the key sshd serves and the marker; the
install script is its four commands. `Stop` ends one host's goroutine with an
error or an interrupt, `Kill` ends the process, `HostRestart` has sshd load
what is on disk. `Parallel` lets several hosts' rotations be
under way at once, as `rehearse core` starts them with `stage.RunAll`; every
other command rotates one host at a time. A stopped Stage is run again by the
next `LogIn` of that host.

**SSHGate.** `open` is what the API holds; a plan is the difference of that
and what the run wants, with the serial of the state; `opener` is a history
variable. A deferred close starts when `Open` returns, with or without an
error.

**WorkerLifecycle.** The state is the records that have to agree: `set` and
`committed`, `servers` (Terraform state and API agree here), `nodes`, `hubFile`
and `hubLive`, `pubPins` and `vpnPins`. A run has a program counter over the
calls of its command, what it loaded (`loaded`, `srv`) and the serial of its
saved plan.
`Stop` ends a run between any two calls. A Node is `Ready` while its kubelet
posts it; kluster reads that once, before the drain. The environment commits
or reverts the set, stops a kubelet at any time and starts one again (which
registers its Node if it was deleted), deletes a Node by hand, and forgets Nodes
without a server.

**DatabaseCreate.** A path of the archive holds segments as
`<<timeline, position>>`, timeline histories, base backups, and `by`, a history
variable: the Clusters that ever wrote it. `tree` and `head` are the two
generation numbers of the working tree and of the merged commit. The Stages are
one action each; a waiting Stage is enabled when its Probe says done, and its
time-out is `Stop`. CloudNativePG and the plugin are external actions taken
from what `internal/db` reads and does about them. `seen` is the reading of the
source that only the run that made it has.

**Catalog, SecretFiles.** A value is the key it was made for, the draw, and the
copy whose format wraps it: that is what tells two values apart. A write command
is the plan (`Generate`, `Rotate`, `Pull`, `Set`, each through `Build`, as
`Planner.build` does) and then one `WriteFile` for each file that changes, in
catalog order; `Stop` comes between any two. `run.next` is the content the
Planner holds in memory. `apply` goes through the Secrets three times, one at a
time: the diff (`Compare`), the apply of those that differ (`ApplySecret`, which
reads the file *again*, as `secrets.Apply` does) and the diff it ends with
(`ReadBack`, of every Secret it was asked for). `foreign` is the managed-fields
record of server-side apply. People edit a file, issue a value in Bitwarden,
create or delete a live Secret at any time, also between any two of these steps;
an edit reads and writes its file in one step. `run.touched` is what they changed
since the run wrote or read it, which no run knows and the properties ask.

**ClusterSeed.** The Stage runner is explicit: `Probe` skips a Stage that is
done, the Act is one or several actions, `Check` is the second Probe, `Fail`
ends the run with the Stage's own error or a timeout. `Plan(mode)` is the order
of the Stages, for services seed and for up, live and in a rehearsal.
`run.tree` and `run.built` are the working tree and the synced revision the
seed was built from; ArgoCD reads `synced` on its own schedule (`Refresh`,
`Sync`, which also replaces ArgoCD's own objects: self-heal). An Application's
`status` is what kluster reads and may be older than the branch. `prom` is what
Prometheus answers: nothing yet, alerts of a missing database, or settled.
`run.made`, `run.touched` and `run.moved` are what no run knows and `Sound` asks:
the fresh Secrets this run applied, the Secrets people changed since it began or
applied them, and whether the Gateway changed after lb-address had read it.

**ClusterUp.** A server is an id (ids grow, so `sortServers`' "older than the
Control Plane" is `<`), an address, whether Terraform's state has it, and the
CA its kubelet joined. A host key stands for the server that serves it:
`pins[a]` is the id whose key is pinned at `a`. `run` holds what the command
captured and acts on later: the Control Plane's id (its session), the Workers
it found, the inventory of down. `Blocked` is the set of refusals and errors a
step can meet; `Fails` is the first error ending the run. Both Stages on the
laptop are two steps, the write and what follows it. Around the run are the
kubelets, the cloud controller, the CSI driver, the database's archiver and the
provider's late unassignment; people stop a run, take the API server down,
delete or create a server by hand, run cp init or node add, and turn from up to
down.

**Reset.** The Workers are `1..N` in name order, which is the order of the
loop. A run has its step, its command, the Worker it is at and the last one it
is for; `seen` is what it read at its start, which for a reset is every server
(`reset.go:54`), read long before most are replaced. `place` and `ready` are
the instances of the databases: the gate reads their numbers, the drain evicts
them one by one under their PodDisruptionBudget, the apply takes down what is
left on the server. The scheduler places an instance that is nowhere on any
Node that takes it, an instance fails or gets ready where it is, a kubelet that
restarts registers a Node that was deleted. `exposed` is a history variable:
the instances on the Worker when the gate passed, and those that failed since.
`Join` is the build of the new server up to its join; what that does to the hub
and to the VPN pin is in `WorkerLifecycle`. `report` is the error or the last
line a reset ends with.

## What the runs check

| Run | Properties | Instance |
|---|---|---|
| `HostKeyRotation` | `Reachable`, `LastIsInstalled`, `RotatedAlone`, `SeedNeverReturns`, `TrustSpec` (refinement of `PinTrust`), `Rotates` | 2 hosts, one at a time, 2 stops, 4 keys |
| `SSHGate` | `NoSilentOpen`, `OpenClosesNothing`, `Closes` | 2 processes, 1 fault, the provider's bug on one firewall |
| `WorkerLifecycle` | `AddressHolders`, `LeaseSpec` (refinement of `AddressLease`), `UndeclaredIsDeleted` | 2 built Workers, 2 stops, 2 times a kubelet stops or starts again |
| `WorkerLifecycleTwoRuns` | `DestroysPlanned` | 1 name, 2 runs at once, 1 stop |
| `DatabaseCreate` | `PathIsOwn`, `ReadsNewest`, `LockedFirst`, `SurvivesSwitchover`, `Proven`, `LedgerSpec` (refinement of `ArchiveLedger`), `Resumes` | live and rehearsal; 3 Clusters, 4 generations, 3 positions, 2 timelines, 2 faults |
| `SecretFiles` | `WriteSettles`, `ListAgrees`, `AppliedInStep`, `GenerateKeeps` | 2 Secrets with a key of each kind, a key the catalog dropped, 2 draws of each key, 2 acts by hand |
| `ClusterSeed` | `RehearsalApart`, `FreshOnce`, `RoomForEach`, `Sound`, `Converges` | live and rehearsal; 2 commits, 3 Applications, 3 Secrets, 2 hosts, 2 acts of people |
| `ClusterUp` | `UpSound`, `DownSound`, `PinsKept`, `FillsSlots`, `Converges`, `Clears` | live and rehearsal; 2 Workers, any declared set, 2 acts of people |
| `Reset` | `LosesOnlyItsOwn`, `PinsOfServers`, `NeverTheLast`, `ReportHolds` | 2 Workers, 3 instances of 2 databases, 1 stop, 1 instance that fails, 1 kubelet restart |

Each property is stated in words above its definition, with the line of the
code it is about, and each has a mutant: a definition of the model with one
plausible bug in it, under which TLC finds the property violated. The mutants
stand before the definition they replace, marked `Mutant`.

The type invariants (`TypeOK`) are in no run: each is a theorem for every value
of the constants. So are `OwnKeysOnly`, `ServersAreApart`, `EntriesAreApart`,
`DeclaredStays`, `CheckLasts`, `PlaceUntilStop`, `AtMostOneMissing` and
`GoneUntilRestart`. To see one checked on an instance, add it
to the INVARIANTS or PROPERTIES of its module's run; TLC finds no violation.

Three more runs check a sentence of the code or the runbooks and find it
violated by what the code does. The findings in `PROJECT.json` quote it:

| Run | What the run shows |
|---|---|
| `HostKeyRotationParallel` | two rotations that overlap lose an edit of `known_hosts`; a host ends unreachable with no fault |
| `DatabaseCreateEnd` | a resumed run bumps the generation of a recovery that lost the end of the WAL |
| `ClusterUpLaptop` | a build stopped between the write of the laptop's WireGuard file and the restart of its unit is never resumed |

### Statements the model refutes outside these runs

These definitions quote a sentence of the code and stand in the modules. No run
of the list checks them; added to the run named here (as PROPERTIES, or as
INVARIANTS when they are state predicates) TLC refutes them:

| Definition | Where | What TLC shows |
|---|---|---|
| `EachIsDeleted` | `WorkerLifecycle`, with `Names` of three, `Addrs` of three, `IPs` = 3, all built, one process, `MaxKeys` = 3, no stop and no restart, `FairSpec` | two Workers taken out of the set before either server is deleted: run 2 of each plans two deletes and refuses |
| `PodsHaveAPlace` | `WorkerLifecycle.cfg` | the other Node's kubelet stops between the check and the drain, or it is one that a stopped run left cordoned; nothing else does it (`PlaceUntilStopped` below) |
| `RegisteredStays` | `WorkerLifecycle.cfg` | the other Node's kubelet stops between the check and the deletion, and the last Ready Worker is taken out; without such a stop also by a Node that registers between the check and the drain, which was never checked. The other Ready Node the check finds may also be that of a Worker that has left the set, whose kubelet registered it again. Nothing but a kubelet does it (`OnlyKubeletsUndo`) |
| `OldNodeIsGone` | `Reset.cfg` | "The old Node is gone before the new server exists" (`cmd/node_replace.go:100`): a kubelet that restarts after its Node was deleted registers it again, and the server is replaced beside the old Node. Without a restart the sentence holds (`NodeGoneUntilRestart`) |
| `BuiltWasProven` | `DatabaseCreate.cfg` | up takes a Cluster whose Stages never passed for a finished one |
| `PreflightProves` | `DatabaseCreate.cfg` | a source without a base backup passes the preflight |
| `ClusterGetsCatalog` | `SecretFiles.cfg` | apply reads each file as it is, so after a stopped rotate, or an edit between its diff and its read, a copy is applied that differs from its source |
| `CutsProvenInStep` | `ClusterSeed.cfg` | core-healthy reads statuses that may be older than the branch, so the cuts are proven of an Application of the revision before |
| `CopiesMadeTogether` | `ClusterSeed.cfg` | "A copy made now must hold its source's value, so both are made together" (`internal/seed/stages.go:131`): a run that stops between a copy and its source leaves the copy alone, and the next run makes the source afresh beside it. Of the copies one run makes it holds (`Sound`) |
| `ZoneAtGateway` | `ClusterSeed.cfg` | the zone is compared with the address lb-address read (`internal/seed/zone.go:58`); a Gateway made again since then is not noticed and the run ends well |

### Observations

States the models reach that a reader of the code may want to know of:

- A Node that comes back after run 1 of node remove: running it again refuses
  (`cmd/node_remove.go:67` chooses run 2 from the set, which refuses a Node
  that exists), so of the two ways `docs/runbook/workers.md:153` gives only the
  manual one works. `UndeclaredIsDeleted` assumes the operator takes it.
- node add refuses a Node without a server and names node replace
  (`cmd/node_add.go:389`), which refuses a Worker without a server.
- A Node that comes back between its deletion and the replacement
  (`cmd/node_replace.go:119`) takes pods again until the apply, not cordoned:
  the apply then destroys whatever was scheduled there, a last ready instance
  included. `NeverTheLast` names the state (`Returned`).
- That Node is then there when the new server joins: the new kubelet takes it
  over instead of registering a fresh one. The Node is Ready but keeps the old
  server's provider id, node-ready waits until its time is over, and the run
  ends there, with the server replaced.
- A failover of a rehearsal's Cluster before its first archived segment:
  db-switchover switches only from the first instance and then waits for a
  timeline after the lowest one in the bucket (`internal/db/stages.go:500`),
  which nobody begins. `Resumes` names the state (`Stranded`) and excludes it.
- A rehearsal's copy is on the cluster and its source is not, after a run that
  stopped between the two or a deletion: the seed makes the source afresh beside
  the copy and the two differ. `stages.go:131` guards only the other direction
  (`CopiesMadeTogether` above).
- The zone is compared with the address lb-address captured before the database
  step, which may take hours (`internal/seed/zone.go:58`, `ZoneAtGateway`
  above). `Sound` claims the zone of every run but one during which the Gateway
  changed after lb-address had read it; a change before that is read, and found.
- node add does not look at the build marker, so a Worker can join a Control
  Plane whose build is not complete.
- A resumed cp init whose API server fails readyz for a moment resets the
  cluster (`stages/cp_kubeadm.go:52`). A Worker that had joined is then of a
  cluster that is gone, Join is skipped because kubelet.conf is there, and only
  node replace repairs it (`Orphan` in `ClusterUp`).
- A run that stops between a create and its pin is never resumed, although the
  help of up says a rerun resumes: the server is refused until a person acts
  (`Foreign`).
- A stale pin at the Control Plane's fixed address makes `Pins.Has` true for a
  server kluster did not create; the refusal then comes at the first login.
- A load balancer the cluster makes between down's inventory and the end of its
  servers leaves the project "not empty after down"; running down again clears
  it.
- A rebuilt cluster whose context name is already current goes from the
  kubeconfig straight to the complete marker, also when the unit of the laptop
  was not restarted.

### Bounds

Every unbounded counter has a constant named `Max...`; the guard that uses it
is in the action that counts. They are chosen so that the case each property
is about happens, and happens again after another: two stops reach a stop in
the run that resumes a stopped run; two hosts are enough for one to be harmed
by another's step, three keys for a seeded, a stopped and a finished one; two
Workers are enough for an address to pass from one to the other and for one to
be the last; three Clusters and four generations are enough for a recovery of a
recovery whose bump was lost. Three positions give a segment before, at and
after the end of a recovery, two timelines one before and one after it; that
more timelines break no safety property is proved, and `Resumes` was also
checked with two Clusters and three of them.
Two Secrets whose copy sorts before its source are enough for a stop to leave a
copy behind, two commits for the working tree to differ from the branch, and two
acts of people for a stop in the run that resumes a stopped run, or a Worker
joined by hand and then a reset of its cluster (the safety properties of
`ClusterUp` were also checked with three acts, 3.8 million states).
Two Workers are enough for a reset to have one passed and one to come, and for
a freed address to be handed out again; that the same holds of more is proved.
A database of two instances and one of a
single instance meet both answers of a PodDisruptionBudget.
The runs with a liveness property use no symmetry. `OneNumbering` of
`MCWorkerLifecycle` keeps one of the eight initial states of its run, which
differ only in which built Worker has which address, key and public address; it
cuts no successor off, since a server keeps these as long as it exists.
`CHECK_DEADLOCK FALSE` is set because a system at its bounds with no run under
way stops, and because a finished run has nothing to do.

### Fairness

- A run that has started goes on: weak fairness of its steps. The code has no
  step that waits for another process of its own, and every wait of a Stage has
  a time-out, which is a stop.
- The operator runs a command again after it stopped: `LogIn` (strong, since a
  restarting host may disable it for a while), `Run2`, `Rerun`. That is what
  the runbooks and the error messages tell the operator to do, and without it
  nothing in this system happens at all. No fairness is assumed of a first
  start, of an edit, of a deletion or of a fault.
- The operator commits what a run wrote (`Commit` of `WorkerLifecycle`: each
  command ends in "commit ..., then run ... again"), discards what a stopped
  run left in the tree and deletes a failed Backup (`Discard`, `DeleteBackup`
  of `DatabaseCreate`, as the refusals say).
- CloudNativePG bootstraps, archives, streams and ends a backup it began.
- `ClusterSeed`: the operator starts the seed again and it goes on (`Seed`);
  ArgoCD reads the branch and retries its syncs, the cloud gives the Gateway an
  address, Prometheus scrapes. People owe nothing: no fairness of a push or of
  the zone. `Converges` is therefore "done infinitely often, or for ever in one
  of the states the code says only a person can end" (`NeedsAPerson` lists them).
- `ClusterUp`: the operator reruns the command of the goal (`StartUp`,
  `StartDown`), a run goes on (`Kluster`), the API server comes back, a kubelet
  registers, the cloud controller forgets a Node without a server, the provider
  unassigns the address of a deleted server.
- Host keys: the fairness is per host, so that one host's rotation does not
  stand for another's.
- `Rotates` excludes hosts that restarted with no key on disk: the install
  script removes the key files before it moves the new ones in, and a restart
  in between leaves sshd without a key; no run can mend that. `Resumes`
  excludes deleted Clusters, a promoted standby that holds the marker, a
  rehearsal that failed over before it archived or has used up `MaxPos`, and
  sources that cannot be recovered. `Closes` and `UndeclaredIsDeleted` are
  about what happens after the last fault.

### Assumptions of the models

- Terraform refuses a saved plan when its state has moved (`tf.go:150`), and
  refreshes before it plans.
- A PodDisruptionBudget keeps the last ready instance of a database from being
  evicted (`worker_remove.go:33`), an instance gets ready only on a Ready Node,
  and the Worker set does not change during a reset (`Reset`).
- One database run at a time, and the operator deletes a Cluster only between
  runs, as the runbook orders.
- In `WorkerLifecycle` the commit gate and the reading of the set are one step,
  and the Control Plane exists.
- A fault is an error, an interrupt or a crash; a write to a small file is one
  step, a rename is atomic.
- Plan Mode changes nothing outside the process and is modelled only where it
  takes another path (`SSHGate`).

## What is proved

`HostKeyRotationProofs` proves, for every value of the constants that satisfies
`ConstantsAssumption` (any set of hosts, any supply of files, keys and stops):

| Theorem | Statement | Needs |
|---|---|---|
| `TypeCorrect` | `Spec => []TypeOK` | nothing, parallel runs included |
| `ReachableAlways` | `Spec => []Reachable` | `~Parallel` |
| `LastIsInstalledAlways` | `Spec => []LastIsInstalled` | `~Parallel` |
| `RotatedAloneAlways` | `Spec => []RotatedAlone` | `~Parallel` |
| `SeedNeverReturnsAlways` | `Spec => SeedNeverReturns` | `~Parallel` |
| `OwnKeysAlways` | `Spec => []OwnKeysOnly` | nothing, parallel runs included |
| `ImplementsTrust` | `Spec => TrustSpec` | `~Parallel` |

`~Parallel` is one host at a time. It is not a convenience of the proof: the
run `HostKeyRotationParallel` refutes the same claims without it. What holds with
overlapping rotations too is `OwnKeysAlways`: a pin can be lost but not made up
(every buffer and file holds for a host only the seeded key or one made on it,
`OwnInv`, whichever edit is lost), and a host that says it is rotated serves the
key on its disk, one made on it.

None of the four safety properties is inductive: that the pins name the served
key says nothing of a rewrite that is half done. The inductive invariant `IInv`
adds, host by host, what a run relies on between two steps: `FileInv` (the
buffer, and later the `.tmp` file, is the edit of the pins *as they still
are*), `KeyInv` (what is on the disk and what is served is pinned; with the
marker both are the last pin) and `RunInv` (which key the run works with at
each step), with `Solo` (one host under way) and that `.tmp` is never the pins
file. The argument is one lemma per step: `QuietStep` for steps that leave the
files alone, `ReadStep` to `RenameStep` for a rewrite, where `OneHost` reduces
"for all hosts" to the one that moves, and `RunStep` for runs that begin and
end. `SeedNeverReturns` and the refinement then follow from `RenameOnly` and
`RenameKeys`: only a rename changes pins, and it adds a key made on the host or
keeps the one it serves.

`SSHGateProofs`, for any number of overlapping processes, any faults and
whichever firewall the provider fails to close:

| Theorem | Statement |
|---|---|
| `GateTypes` | `Spec => []TypeOK` |
| `NeverSilentlyOpen` | `Spec => []NoSilentOpen` |
| `OpensCloseNothing` | `Spec => OpenClosesNothing` |

The invariant `GateInv` adds two facts. `PlanInv(r)`: a run about to apply is
not in Plan Mode, its plan changes only the firewalls it opens unless it is
forced, and a plan to close opens nothing; Plan and Apply are separate steps
that other runs come between. `Owes(r)`: the run that opened a firewall still
open will close it, or has reported an error, was killed, or is `ssh open`. It
is needed because `NoSilentOpen` speaks of runs that are over, and what makes it
true is where the run is while it is not. `PlanKept`, `OwesKept` and `Openers`
take each step as that of the run that moves or of another one.

`WorkerLifecycleProofs`, for any Workers and addresses and any number of runs
at once (the run `WorkerLifecycleTwoRuns` has two):

| Theorem | Statement |
|---|---|
| `WorkerTypes` | `Spec => []TypeOK` |
| `OnlyPlannedIsDestroyed` | `Spec => DestroysPlanned` |
| `OneServerEach` | `Spec => []ServersAreApart` |
| `OneAddressEach` | `Spec => []EntriesAreApart` |

`WInv` says of every run between its plan and its apply that either the serial
of Terraform's state has grown since, so that the apply is refused, or the plan
was made of every server the Worker has. That needs `CmdInv` (which command can
be at which step: the leave steps are shared by node remove and node replace,
and only the second has a plan then) and `SerialKept` (no server comes or goes
without the serial). `MovesAlone` reduces a step to the run that takes it.
`EInv` adds to `WInv` what a create knows between its plan and its apply: as long
as the serial is the plan's, its Worker has no server still, so two runs for one
Worker never make two. `SetInv` says the set on disk, that of git and every one
a run loaded name each Worker once, at an address of its own: of two runs that
write the set they loaded the later one drops the other's entry, and that is the
worst of it.

Five more assume `OneRun`, that one run at a time is under way, for any number
of stops, and of kubelets that stop or start again:

| Theorem | Statement |
|---|---|
| `AddressesAreHeld` | `OneRun` implies `Spec => []AddressHolders` |
| `DeclaredServersStay` | `OneRun` implies `Spec => DeclaredStays` |
| `OnlyKubeletsUndo` | `OneRun` implies `Spec => CheckLasts` |
| `PlaceUntilStopped` | `OneRun` implies `Spec => PlaceUntilStop` |
| `ImplementsLeases` | `OneRun` implies `Spec => LeaseSpec` |

With two runs at once the argument of each is gone: the second may edit the set
the first loaded, declare again what the first is about to delete (TLC refutes
`DeclaredStays` on `WorkerLifecycleTwoRuns.cfg`), or take out the Worker the
first counted on. `HeldInv` strengthens
`AddressHolders`: the entry that holds a peer is in the set on disk and in git,
so neither a commit nor a revert loses it, and no two servers share a public
address, so the server a build reaches is the one it read. `AloneInv` is what a
run knows between two steps: the set is the one it loaded; what it took off
the hub's file, the live hub and the pins is off, which is why the entry, or
the server, can go at the end.

`OnlyKubeletsUndo` and `PlaceUntilStopped` say how far the check before a drain
goes, which reads the Nodes once. A kubelet can undo it at any moment
(`RegisteredStays` is refuted); the first theorem says that nothing else does:
whatever happens between the check and the deletion, `MayLeave` stays true unless
a kubelet stops or starts again just then (`AroundLeaves`, `DrainLeaves`: the
cloud controller forgets only Nodes nobody hosts, and a Node is deleted by hand
only between runs). For the second, `NInv` adds to
`HInv` two facts with their limits in them. `RestInv`: until a kubelet stops or
starts again, the check stays true to the end of the drain,
and every Node about to be deleted is cordoned. `CordonInv`: until a run stops as
well, the only cordoned Nodes are those the run is about to delete, since its one
step from there but a stop is their deletion (`AtDeletion`). So the pods of a
drain lack a Node that takes them only after a kubelet stopped or started again,
or after a run that stopped between its drain and its deletion.

`ImplementsLeases` says the same of every step: the entries of the set and of
git are the leases, the servers the machines, the peers and the VPN pins the
uses. Declaring is a grant, a commit or an edit taken back a release, a create
or an apply provides a machine, and a peer or pin is let in only for the
leaseholder's machine at an address nobody else is expected at. It needs two
facts more, `LInv`: entries, and servers, differ in name and address
(`ApartInv`), and a run between its first check and its create has no server of
that name yet (`NoneYet`). One lemma per group of steps shows which abstract
step it is.

`DatabaseCreateProofs`, for the live project and a rehearsal and any bounds on
generations, positions, timelines, Clusters and faults:

| Theorem | Statement |
|---|---|
| `CreateTypes` | `Spec => []TypeOK` |
| `OneClusterPerPath` | `Spec => []PathIsOwn` |
| `RecoveryReadsNewest` | `Spec => []ReadsNewest` |
| `LockBeforeWAL` | `Spec => []LockedFirst` |
| `DoneIsProven` | `Spec => []Proven` |
| `RehearsalSwitched` | `Spec => []SurvivesSwitchover` |
| `ImplementsLedger` | `Spec => LedgerSpec` |

None of these is inductive: a Cluster is created from what an earlier step read.
`DInv` carries what was read forward. `RunInv`: while a run is under way the
tree names the generation it renders, and between preflight and apply the
buckets still pass its checks. `StageInv(c)`: what each Stage proved (healthy,
no marker, two timelines, a base backup) holds for every later step of the run.
`ClusterInv(c)`: the path is the Cluster's own, later generations are, the lock
is there, and what was reported stays true after the run. `PathInv`: a path
somebody wrote is not empty, which is why an empty path is nobody's; `DoneInv`:
only Clusters that were created were reported, so a new one owes nothing to an
old report. `Grown` is the step of CloudNativePG (a path only gains files, and
only of the Cluster that exists), `ApplyStep` the new Cluster, `DoneStep` the
report. The newest segment, timeline and generation are `CHOOSE`n greatest
members, which `Greatest` shows to exist from the well-foundedness of `<`.
`ImplementsLedger` reads the same invariant step by step: the Cluster holds the
path it archives to, `ApplyStep` is a claim (the path is unwritten by the
buckets read before, a live recovery follows the newest written path and the
lock is there), a base backup and the report are the ledger's, and kluster down
is what clears a rehearsal's.
These proofs assume one run at a time, because the module does.

`SecretFilesProofs`, for any catalog `CatalogValid` accepts, any draws and any
number of acts by hand:

| Theorem | Statement |
|---|---|
| `FileTypes` | `Spec => []TypeOK` |
| `WritesSettle` | `Spec => []WriteSettles` |
| `ListAndPlanAgree` | `Spec => []ListAgrees` |
| `GeneratedKept` | `Spec => GenerateKeeps` |
| `AppliedIsInStep` | `Spec => []AppliedInStep` |

`WriteSettles` speaks of the files; the plan is in memory. The invariant says
that a file neither in `run.todo` nor in `run.touched` already is as the plan has
it, and that the plan follows the catalog, whatever the files were when it was built: `Build` gives
every literal its value and every copy its source's. `ListAgrees` is a lemma
about `Build` and `keyState` for every content of the files, half-written ones
included. `AppliedInStep` speaks of the end; the invariant below it says that a
Secret a diff has passed and found in step is in step until somebody touches it,
and that nothing found to differ by the first diff is forgotten at the second.
That the run itself does not disturb a Secret it has read back is part of it: no
step of the readback writes. Without `--force-conflicts` the server refuses to
replace what another manager owns (`Accepted`); that is the server's guard and
no property is stated of it.

`ClusterSeedProofs`, for any revisions, Applications, Secrets, hosts and acts:

| Theorem | Statement |
|---|---|
| `SeedTypes` | `Spec => []TypeOK` |
| `RehearsalHasNoLiveValue` | `Spec => []RehearsalApart` |
| `ValuesInUseStay` | `Spec => FreshOnce` |
| `EachHasRoom` | `Spec => RoomForEach` |
| `EndsAsAsked` | `Spec => Sound` |

`ApartInv` adds what the run holds: no value of `run.fresh` was drawn for live.
`TodoInv` says a rehearsal's run applies only Secrets that were absent, each
key of which is still absent or has a foreign owner, which is what makes
the apply without force refuse instead of replace. `PlaceInv` carries the CRDs
and Namespaces of the earlier Stages forward, and that `run.tree` and
`run.built` passed `Buildable`. `SoundInv` says that what each Stage the run has
passed established still holds, but for the Secrets people touched since and,
once the Gateway moved, the address: no later Stage undoes it. `MakingInv` is
about the copies: while seed-secrets acts (`AtWork`), the values it drew agree
with each other (`FreshAgree`), every copy it has made or has yet to make has its
source in the same set (`ClosedIn`, from the Probe's refusal), and what it made
and nobody touched is what it drew; `WorkDone` reads off that at the end each
copy made holds its source's value, and `CopiesStay` carries it to the run's end.

`ClusterUpProofs`, for any Workers, addresses and acts of people:

| Theorem | Statement |
|---|---|
| `UpTypes` | `Spec => []TypeOK` |
| `PinnedServersStayTrusted` | `Spec => PinsKept` |
| `CommandsFillSlots` | `Spec => FillsSlots` |
| `DownClears` | `Spec => []DownSound` |
| `UpEndsUp` | `Spec => []UpSound` |

`TypeInv` types a run by its step (`StepInv`): which of its fields are set and
that the Worker whose turn it is exists in `todo`. `IdInv` says no record holds
an id of a server not made yet, so a new server inherits no pin and no session.
`PlaceInv` puts each server at an address of its own kind, no two at one, which
is why a pin at one address is no other server's. `ForgetInv` says that when
down drops the pins there is no server any of them is the key of: somebody may
have made one since the readback, but kluster never pinned it. `BuildInv` is what a session
is worth: past the first login of a build, as long as the server is still the
one captured, its key is the pinned one and its marker is not complete, and the
server a Worker's join acts on is pinned. `DownInv` follows down from the
readback on: in an empty project nothing grows while nobody interferes, because
only the seeded cluster and people make things. `LaptopInv` follows one build:
what the run wrote into the hub, the WireGuard file and the kubeconfig is that
of the Control Plane its session is on, so a marker that says complete vouches
for the laptop too, in every later run. `UpInv` follows an up nobody
interferes with: from the preflight on the project holds nothing undeclared,
from the first Worker on the session is on the complete, pinned Control Plane,
and each Worker the run has passed is ready and stays so. `NextIs` groups the steps by
what they do to the run, and one lemma for each variable (`ServerMoves`,
`PinsMove`, `CpMoves`, ...) says which steps change it.

`ResetProofs`, for any number of Workers, any databases and placement of their
instances, any stops, failures and kubelet restarts:

| Theorem | Statement |
|---|---|
| `ResetTypes` | `Spec => []TypeOK` |
| `OnlyItsOwn` | `Spec => []LosesOnlyItsOwn` |
| `PinsStay` | `Spec => []PinsOfServers` |
| `KeepsServing` | `Spec => NeverTheLast` |
| `ReportIsTrue` | `Spec => ReportHolds` |
| `OneWorkerAtATime` | `Spec => []AtMostOneMissing` |
| `NodeGoneUntilRestart` | `Spec => GoneUntilRestart` |

Each of them speaks of one moment and rests on what earlier steps left, so the
invariant `RInv` carries that. `ApartInv`: no two servers share a name, key or
address, and a Node with a server's key has the name of that server, which has
joined. `PlaceInv`: a ready instance is on a Ready Node, and a Worker whose
cordoned Node is about to be deleted holds none, which a scheduler cannot undo
because a cordoned Node takes nothing. `ExposedInv`: from the gate to the apply
all that is on the Worker is exposed, so what the apply takes down is.
`SeenInv`: what a reset read at its start is still so for the Workers it has
not come to; it is why the addresses it drops pins at are still those Workers'
own and why "not touched" is true. `PinInv`: between the drop and the apply
nothing is pinned at the Worker's address, so no pin outlives the server.
`PassedInv`: the Workers a reset has passed are on new, pinned servers with
their Nodes, and stay so: later steps touch only the Worker the run is at
(`OthersKeep`, `ReplacedStays`). `ServersMove` to `RunMove` say which steps
change what, so that each lemma looks at the few that matter to it.
`OneWorkerAtATime` is inductive with `OthersHave`: from the check of its plan to
its apply, every Worker but the run's own has a server. `NodeGoneUntilRestart` has
an invariant of its own, `GoneInv`.

TLAPS does not reach the rest: liveness under fairness and `ENABLED`
(`Rotates`, `Closes`, `UndeclaredIsDeleted`, `Resumes`, `Converges`, `Clears`),
induction over data, and `RECURSIVE` operators, of which these modules use
none. Those stay with TLC.

## Not modelled

- Plan Mode: it prints and changes nothing outside the process; `SSHGate` has
  the one path where it differs.
- `services check`, `secrets check` and the other static checks of
  `internal/coreset`: they read the repository and change nothing. What a seed
  depends on of them is in `Buildable`, `Made` and `CanBeFresh`.
- Configuration, environment, node list, kube and cloud reads, Bitwarden, sops,
  SSH transport: decoding and I/O. Their results are the state of the modules.
- Deploys (`.github/actions/tag-bump`, `.github/scripts`, `deployments`) and
  the recovery drill (`core/pg-drill`): programs of their own that share no
  state with kluster.
- Manifests and Terraform files: declarative.
- Within the modelled parts: pin by hand (`cmd/pin.go`), two runs at once
  outside `SSHGate` and `WorkerLifecycle`, the text of every file, SSH keys,
  placement groups and certificates of a project (deleted by down like a
  volume).

## The plan

1. *Done.* Host keys: `PinTrust`, `HostKeyRotation`, proofs.
2. *Done.* `SSHGate`, `WorkerLifecycle`, `DatabaseCreate`, proofs.
3. *Done.* `Catalog`, `SecretFiles`, proofs.
4. *Done.* `ClusterSeed` with the Stage runner, proofs.
5. *Done.* `ClusterUp`: preflight, Control Plane, Workers, down, with reruns,
   proofs.
6. *Done.* `ArchiveLedger` and `AddressLease`, with the proofs that
   `DatabaseCreate` and `WorkerLifecycle` implement them.
7. *Done.* `Reset`: Workers one after another with the database gate, proofs.

Left, in this order:

8. `TagBump`: two CI runs of an app and the required check; abstract
   specification "a green run has a merged tag, and tags move forward".
9. A run that finds an entry it needs dropped by another writer of the Worker
   set; a second run beside `ClusterUp`.
10. Pure algorithms with reference definitions: address pools
    (`workerset/alloc.go`), `intent.Check`, `LockRule.Holds`, WAL names
    (`db/wal.go`).
