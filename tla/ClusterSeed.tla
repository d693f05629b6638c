----------------------------- MODULE ClusterSeed -----------------------------
(***************************************************************************)
(* kluster services seed, and the services part of kluster up: the Stages  *)
(* that put on a cluster what ArgoCD cannot or must not own, install       *)
(* ArgoCD, and wait until it has built the rest (tools/kluster/internal/   *)
(* seed, cmd/services.go, cmd/up.go).                                      *)
(*                                                                         *)
(* One kluster run at a time, and beside it ArgoCD, which reads the synced *)
(* branch on its own schedule and syncs each core Application; the cloud,  *)
(* which gives the Gateway an address; Prometheus; and people, who push,   *)
(* change the zone, change Secrets with kubectl and interrupt the run.     *)
(*                                                                         *)
(* One Probe reads the cluster in one step.  Left out: Plan Mode, the      *)
(* export's tar, kubectl's output, the database step's own Stages (module  *)
(* DatabaseCreate), the files behind the live Secrets (module SecretFiles).*)
(***************************************************************************)
EXTENDS Catalog, Sequences

CONSTANTS
    Revisions,     \* commits of the repository
    None,          \* no revision
    Apps,          \* the directories of core/, each one Application
    ArgoCDApp, GatewayApp,
    Elements,      \* the core list of each revision
    NamespacesOf,  \* the Namespaces the namespace files of a revision make
    Projects,      \* the Namespaces of the projects; a rehearsal has none
    Home,          \* the Namespace of an Application and of a Secret
    Omitted,       \* the Secrets marked rehearsal: omit
    LiveLinks,     \* the links to live that the rehearsal cuts remove
    CutIn,         \* the directory whose cut removes a link
    Leaks,         \* the links a revision's build of a rehearsal leaves in
    Hosts, Addresses,
    LiveAddress,   \* the load balancer of the live cluster
    LiveDraw,      \* a value in a file or in the live item of an issued key
    ItemDraw,      \* the value in a rehearsal item
    HandDraw,      \* a value someone sets with kubectl
    MaxByHand      \* how often people change something or interrupt a run

ASSUME SeedConstants ==
    /\ None \notin Revisions /\ ArgoCDApp \in Apps /\ GatewayApp \in Apps
    /\ Elements \in [Revisions -> SUBSET Apps]
    /\ Omitted \subseteq Secrets
    /\ CutIn \in [LiveLinks -> Apps] /\ Leaks \in [Revisions -> SUBSET LiveLinks]
    /\ LiveAddress \in Addresses
    /\ {LiveDraw, ItemDraw, HandDraw} \subseteq Draws
    /\ LiveDraw # ItemDraw /\ LiveDraw # HandDraw
    /\ MaxByHand \in Nat

VARIABLES
    rehearsal,  \* which environment this is
    head,       \* the working tree's commit
    synced,     \* the commit of the branch ArgoCD reads
    crds,       \* the revision whose CRDs are on the cluster
    namespaces, \* the Namespaces on the cluster
    live,       \* the values of the Secrets on the cluster
    foreign,    \* the keys another field manager owns
    argo,       \* the revision of ArgoCD's own objects, the core list in them
    app,        \* each Application: the revision synced, and what its status says
    gateway,    \* the public IPv4 addresses of the Gateway
    zone,       \* the A records of each host
    prom,       \* what Prometheus answers
    db,         \* the database Cluster is built
    run,        \* the kluster run
    byHand      \* how often people did something so far

vars == <<rehearsal, head, synced, crds, namespaces, live, foreign, argo, app,
          gateway, zone, prom, db, run, byHand>>
trees   == <<rehearsal, head, synced>>
secrets == <<live, foreign>>
argocd  == <<argo, app>>
outside == <<gateway, zone, prom, db>>

-----------------------------------------------------------------------------
(* What a seed is built from.                                               *)

\* SeedFor and Namespaces: a rehearsal makes no project's Namespace.
Makes(r) == IF rehearsal THEN NamespacesOf[r] \ Projects ELSE NamespacesOf[r]

\* Mutant: the synced revision is not held against the working tree.
BuildableAlone(tree, built) ==
    /\ \A a \in Elements[tree] : Home[a] \in Makes(tree)
    /\ ArgoCDApp \in Elements[built]

\* Build refuses a core list whose Applications land in a Namespace the
\* working tree does not make, and one without ArgoCD.
Buildable(tree, built) ==
    /\ \A a \in Elements[tree] : Home[a] \in Makes(tree)
    /\ \A a \in Elements[built] : Home[a] \in Makes(tree)
    /\ ArgoCDApp \in Elements[built]

\* The Secrets a seed makes: those of the Namespaces it makes, and in a
\* rehearsal none that is marked omit.
Made(tree) == {s \in Secrets : Home[s] \in Makes(tree)} \ (IF rehearsal THEN Omitted ELSE {})

\* The value each file holds, as the catalog says (live).
FileValue(k) ==
    IF k \in Literals THEN LiteralValue(k)
    ELSE IF k \in Copies THEN Render(k, Fresh(From[k], LiveDraw))
    ELSE Fresh(k, LiveDraw)

\* Mutant: an issued key is read from the item live uses.
SourceOfLive(k, draw) ==
    IF k \in Generated THEN Fresh(k, draw[k]) ELSE Fresh(k, LiveDraw)

\* Fresh: the values a rehearsal makes, from one draw for each generated key.
\* An issued key's value is read from its rehearsal item.
FreshSource(k, draw) == IF k \in Generated THEN Fresh(k, draw[k]) ELSE Fresh(k, ItemDraw)

FreshValue(k, draw) ==
    IF k \in Literals THEN LiteralValue(k)
    ELSE IF k \in Copies THEN Render(k, FreshSource(From[k], draw))
    ELSE FreshSource(k, draw)

\* Fresh refuses an issued key without a rehearsal item, and a copy of a
\* Secret the rehearsal does not make.
CanBeFresh(S) ==
    \A k \in Keys : In[k] \in S =>
        InRehearsal(k) /\ (k \in Copies => In[From[k]] \in S)

-----------------------------------------------------------------------------
(* The run.                                                                 *)

\* Mutant: the monitoring test runs with the rest of the seed.
MonitoringFirst(mode) ==
    CASE rehearsal /\ mode = "up" ->
            <<"seed-crds", "seed-namespaces", "seed-secrets", "seed-argocd", "core-healthy",
              "rehearsal-cuts", "lb-address", "monitoring-clean", "db", "zone">>
      [] rehearsal /\ mode # "up" ->
            <<"seed-crds", "seed-namespaces", "seed-secrets", "seed-argocd", "core-healthy",
              "rehearsal-cuts", "lb-address", "zone">>
      [] ~rehearsal /\ mode = "up" ->
            <<"seed-crds", "seed-namespaces", "seed-secrets", "seed-argocd", "core-healthy",
              "lb-address", "db", "zone">>
      [] OTHER ->
            <<"seed-crds", "seed-namespaces", "seed-secrets", "seed-argocd", "core-healthy",
              "lb-address", "zone">>

\* services seed runs Plan.Stages; up runs BeforeZone, the database's Stages
\* and AfterDB.
Plan(mode) ==
    CASE rehearsal /\ mode = "up" ->
            <<"seed-crds", "seed-namespaces", "seed-secrets", "seed-argocd", "core-healthy",
              "rehearsal-cuts", "lb-address", "db", "monitoring-clean", "zone">>
      [] rehearsal /\ mode # "up" ->
            <<"seed-crds", "seed-namespaces", "seed-secrets", "seed-argocd", "core-healthy",
              "rehearsal-cuts", "lb-address", "zone">>
      [] ~rehearsal /\ mode = "up" ->
            <<"seed-crds", "seed-namespaces", "seed-secrets", "seed-argocd", "core-healthy",
              "lb-address", "db", "zone">>
      [] OTHER ->
            <<"seed-crds", "seed-namespaces", "seed-secrets", "seed-argocd", "core-healthy",
              "lb-address", "zone">>

Modes  == {"seed", "up"}
Phases == {"idle", "probe", "act", "check", "done"}

RunState == [phase : Phases, mode : Modes, at : 1..10, tree : Revisions \union {None},
             built : Revisions \union {None}, todo : SUBSET Secrets,
             fresh : [Keys -> Maybe], got : SUBSET Addresses,
             made : SUBSET Secrets, touched : SUBSET Secrets, moved : BOOLEAN]
NoFresh == [k \in Keys |-> NoValue]

\* Three fields are for the properties alone, the run does not know them.
\* made: the fresh Secrets this run has applied.  touched: the Secrets people
\* changed since the run began, or since it applied them.  moved: the Gateway
\* was changed after lb-address had read it.
Idle == [phase |-> "idle", mode |-> "seed", at |-> 1, tree |-> None, built |-> None,
         todo |-> {}, fresh |-> NoFresh, got |-> {},
         made |-> {}, touched |-> {}, moved |-> FALSE]

Running == run.phase \in {"probe", "act", "check"}
Stage == Plan(run.mode)[run.at]
On(stage, phase) == run.phase = phase /\ Stage = stage

-----------------------------------------------------------------------------
(* What the Probes read.                                                    *)

Present(s) == \E k \in HeldBy(s) : live[k] # NoValue
Absent == {s \in Made(run.tree) : ~Present(s)}
Partial(s) == Present(s) /\ \E k \in KeyNames(s) : live[k] = NoValue

\* A copy that would be made while its source, made earlier, exists.
ApartFromSource ==
    \E k \in Copies : /\ In[k] \in Absent
                      /\ In[From[k]] \in Made(run.tree) /\ Present(In[From[k]])

\* secrets.Diff: what the file of s would change on the cluster.
Drift(s) == \E k \in HeldBy(s) : live[k] # (IF k \in Keys THEN FileValue(k) ELSE NoValue)

ToMake == IF rehearsal THEN Absent ELSE {s \in Made(run.tree) : Drift(s)}

\* The links the rehearsal cuts should have removed from the cluster.
Links == {l \in LiveLinks : /\ rehearsal /\ app[CutIn[l]].at # None
                            /\ l \in Leaks[app[CutIn[l]].at]}

\* Each Application of the core list is Synced and Healthy, as its status says.
Healthy == \A a \in Elements[run.built] : app[a].status = "inStep"

\* Mismatches, and UntouchedMismatches in a rehearsal: each host has one A
\* record; live's holds the load balancer, a rehearsal's are all one address
\* that is not its load balancer's.
PointsAt(addresses) == \A h \in Hosts : zone[h] = addresses
Untouched(addresses) ==
    LET single == {h \in Hosts : Cardinality(zone[h]) = 1 /\ zone[h] \intersect addresses = {}}
    IN  single = Hosts /\ Cardinality({zone[h] : h \in Hosts}) <= 1

\* Mutant: a host with several records only needs one that is right.
ZoneRightSomewhere ==
    IF rehearsal THEN \A h \in Hosts : zone[h] \ run.got # {}
    ELSE \A h \in Hosts : run.got \subseteq zone[h]

ZoneRight == IF rehearsal THEN Untouched(run.got) ELSE PointsAt(run.got)

\* monitoringProblems finds none.
Clean == /\ prom.serves
         /\ prom.targets = {"up"}
         /\ "Watchdog" \in prom.firing /\ prom.firing \subseteq {"Watchdog", "Info"}

Done(stage) ==
    CASE stage = "seed-crds"        -> crds = run.tree
      [] stage = "seed-namespaces"  -> Makes(run.tree) \subseteq namespaces
      [] stage = "seed-secrets"     -> ToMake = {}
      [] stage = "seed-argocd"      -> argo = run.built
      [] stage = "core-healthy"     -> Healthy
      [] stage = "rehearsal-cuts"   -> Links = {}
      [] stage = "lb-address"       -> Cardinality(gateway) = 1
      [] stage = "db"               -> db
      [] stage = "monitoring-clean" -> Clean
      [] OTHER                      -> run.got # {} /\ ZoneRight

\* Mutant: a copy is made beside a source made earlier.
ErrsIfPartial(stage) ==
    \/ /\ stage = "seed-secrets" /\ rehearsal
       /\ \E s \in Made(run.tree) : Partial(s)
    \/ stage = "lb-address" /\ Cardinality(gateway) > 1

\* A Probe that ends the run with an error.
Errs(stage) ==
    \/ /\ stage = "seed-secrets" /\ rehearsal
       /\ (\E s \in Made(run.tree) : Partial(s)) \/ ApartFromSource
    \/ stage = "lb-address" /\ Cardinality(gateway) > 1

\* The Stages whose Act polls until done or the timeout, and those whose Act
\* only says what a person has to change.
Waits   == {"core-healthy", "lb-address", "monitoring-clean"}
Refuses == {"rehearsal-cuts", "zone"}

-----------------------------------------------------------------------------
(* The Stage runner.                                                        *)

\* up checks at its front what only the Act of seed-secrets finds out in a
\* seed (Plan.Readable).
Start(mode) ==
    /\ ~Running
    /\ Buildable(head, synced)
    /\ mode = "up" => head = synced /\ (rehearsal => CanBeFresh(Made(head)))
    /\ run' = [Idle EXCEPT !.phase = "probe", !.mode = mode, !.tree = head, !.built = synced]
    /\ UNCHANGED <<trees, crds, namespaces, secrets, argocd, outside, byHand>>

\* lb-address hands its address on.
Passed ==
    LET got == IF Stage = "lb-address" THEN gateway ELSE run.got IN
    IF run.at = Len(Plan(run.mode))
    THEN [run EXCEPT !.phase = "done"]
    ELSE [run EXCEPT !.phase = "probe", !.at = @ + 1, !.todo = {}, !.fresh = NoFresh, !.got = got]

\* The Probe: a Stage that is done is skipped.
Probe ==
    /\ run.phase = "probe" /\ ~Errs(Stage)
    /\ run' = IF Done(Stage) THEN Passed
              ELSE [run EXCEPT !.phase = "act",
                               !.todo = IF Stage = "seed-secrets" THEN ToMake ELSE {}]
    /\ UNCHANGED <<trees, crds, namespaces, secrets, argocd, outside, byHand>>

\* A Stage that acted must pass its own Probe.
Check ==
    /\ run.phase = "check" /\ ~Errs(Stage) /\ Done(Stage)
    /\ run' = Passed
    /\ UNCHANGED <<trees, crds, namespaces, secrets, argocd, outside, byHand>>

Acted == run' = [run EXCEPT !.phase = "check"]

ApplyCRDs ==
    /\ On("seed-crds", "act") /\ Acted
    /\ crds' = run.tree
    /\ UNCHANGED <<trees, namespaces, secrets, argocd, outside, byHand>>

\* An apply deletes no Namespace.
ApplyNamespaces ==
    /\ On("seed-namespaces", "act") /\ Acted
    /\ namespaces' = namespaces \union Makes(run.tree)
    /\ UNCHANGED <<trees, crds, secrets, argocd, outside, byHand>>

\* A random value of k: no value in use is drawn again.
Spare == Draws \ {LiveDraw, ItemDraw, HandDraw}
Unused(k, d) == Fresh(k, d) \notin {[live[h] EXCEPT !.in = Plain] : h \in {h \in Held : live[h] # NoValue}}
Draw(k) == CHOOSE d \in Spare : Unused(k, d)

\* A rehearsal makes a value for every key of every Secret, and applies the
\* absent Secrets only.
MakeFresh ==
    /\ On("seed-secrets", "act") /\ rehearsal /\ run.fresh = NoFresh
    /\ CanBeFresh(Made(run.tree))
    /\ \A g \in Generated : \E d \in Spare : Unused(g, d)
    /\ run' = [run EXCEPT !.fresh =
                 [k \in Keys |-> IF In[k] \notin Made(run.tree) THEN NoValue
                                 ELSE FreshValue(k, [g \in Generated |-> Draw(g)])]]
    /\ UNCHANGED <<trees, crds, namespaces, secrets, argocd, outside, byHand>>

\* Mutant: the fresh Secrets are applied with force.
ForcedIfFresh(s, want) ==
    rehearsal \/ \A k \in KeyNames(s) \intersect foreign : live[k] = want[k]

\* A server-side apply without force: refused over a key another manager
\* owns with a value of its own.
Accepted(s, want) == \A k \in KeyNames(s) \intersect foreign : live[k] = want[k]

Want == [k \in Keys |-> IF rehearsal THEN run.fresh[k] ELSE FileValue(k)]

ApplySecret(s) ==
    /\ On("seed-secrets", "act") /\ IsFirst(s, run.todo)
    /\ rehearsal => run.fresh # NoFresh
    /\ Home[s] \in namespaces /\ Accepted(s, Want)
    /\ live' = [k \in Held |-> IF k \in KeyNames(s) THEN Want[k]
                               ELSE IF k \in HeldBy(s) /\ k \notin foreign THEN NoValue
                               ELSE live[k]]
    /\ run' = [run EXCEPT !.todo = @ \ {s}, !.phase = IF run.todo = {s} THEN "check" ELSE @,
                          !.made = IF rehearsal THEN @ \union {s} ELSE @, !.touched = @ \ {s}]
    /\ UNCHANGED <<trees, crds, namespaces, foreign, argocd, outside, byHand>>

\* ArgoCD, from the revision it reads: as its own manager, with force.
ApplyArgoCD ==
    /\ On("seed-argocd", "act") /\ Acted
    /\ argo' = run.built
    /\ UNCHANGED <<trees, crds, namespaces, secrets, app, outside, byHand>>

\* A waiting Stage's Act ends once its Probe says done.
Wait ==
    /\ run.phase = "act" /\ Stage \in Waits
    /\ ~Errs(Stage) /\ Done(Stage) /\ Acted
    /\ UNCHANGED <<trees, crds, namespaces, secrets, argocd, outside, byHand>>

\* up: the Stages of db create (module DatabaseCreate).
BuildDatabase ==
    /\ On("db", "act") /\ Acted
    /\ db' = TRUE
    /\ UNCHANGED <<trees, crds, namespaces, secrets, argocd, gateway, zone, prom, byHand>>

\* The run ends with an error of its own: a Probe that errs, a Stage that
\* acted in vain, one that only a person can put right, a Secret that cannot be
\* made fresh, a conflict, a timeout.
Refused ==
    \/ run.phase \in {"probe", "check"} /\ Errs(Stage)
    \/ run.phase = "check" /\ ~Done(Stage)
    \/ run.phase = "act" /\ Stage \in Refuses
    \/ run.phase = "act" /\ Stage \in Waits /\ ~Done(Stage)
    \/ On("seed-secrets", "act") /\ rehearsal /\ run.fresh = NoFresh /\ ~CanBeFresh(Made(run.tree))
    \/ \E s \in Secrets : /\ On("seed-secrets", "act") /\ IsFirst(s, run.todo)
                          /\ rehearsal => run.fresh # NoFresh
                          /\ ~Accepted(s, Want)

Fail ==
    /\ Refused /\ run' = Idle
    /\ UNCHANGED <<trees, crds, namespaces, secrets, argocd, outside, byHand>>

-----------------------------------------------------------------------------
(* ArgoCD, the cloud, Prometheus.                                           *)

\* The branch differs from what the Application, or ArgoCD itself, runs.
Behind(a) == app[a].at # synced \/ (a = ArgoCDApp /\ argo # synced)

\* ArgoCD reads the branch from time to time; until then a status stands.
Refresh(a) ==
    /\ argo # None /\ a \in Elements[argo]
    /\ app[a].status = "inStep" /\ Behind(a)
    /\ app' = [app EXCEPT ![a].status = "outOfSync"]
    /\ UNCHANGED <<trees, crds, namespaces, secrets, argo, outside, run, byHand>>

\* A sync needs the kinds and the Namespace.  core-argocd syncs ArgoCD.
Sync(a) ==
    /\ argo # None /\ a \in Elements[argo]
    /\ app[a].status # "inStep"
    /\ crds # None /\ Home[a] \in namespaces
    /\ app' = [app EXCEPT ![a] = [at |-> synced, status |-> "inStep"]]
    /\ argo' = IF a = ArgoCDApp THEN synced ELSE argo
    /\ UNCHANGED <<trees, crds, namespaces, secrets, outside, run, byHand>>

\* The load balancer of a Gateway that has none; live's is never given twice.
GiveAddress ==
    /\ gateway = {} /\ app[GatewayApp].at # None
    /\ \E a \in Addresses : (rehearsal => a # LiveAddress) /\ gateway' = {a}
    /\ UNCHANGED <<trees, crds, namespaces, secrets, argocd, zone, prom, db, run, byHand>>

Away       == [serves |-> FALSE, targets |-> {}, firing |-> {}]
NoDatabase == [serves |-> TRUE, targets |-> {"up"}, firing |-> {"Watchdog", "CNPG"}]
Settled    == [serves |-> TRUE, targets |-> {"up"}, firing |-> {"Watchdog", "Info"}]

\* The CNPG rules fire while there is no database Cluster.
Scrape ==
    /\ rehearsal /\ argo # None
    /\ prom' = IF db THEN Settled ELSE NoDatabase
    /\ prom' # prom
    /\ UNCHANGED <<trees, crds, namespaces, secrets, argocd, gateway, zone, db, run, byHand>>

-----------------------------------------------------------------------------
(* People.                                                                  *)

ByHand == byHand < MaxByHand /\ byHand' = byHand + 1

\* A Secret is changed beside a run.
Touch(s) == run' = IF Running THEN [run EXCEPT !.touched = @ \union {s}] ELSE run

\* An interrupt, a lost connection, a command that fails: at any point.
Interrupt ==
    /\ ByHand /\ Running /\ run' = Idle
    /\ UNCHANGED <<trees, crds, namespaces, secrets, argocd, outside>>

\* A run has read the tree it was started in; the next one reads this one.
Checkout(r) ==
    /\ ByHand /\ ~Running /\ head # r /\ head' = r
    /\ UNCHANGED <<rehearsal, synced, crds, namespaces, secrets, argocd, outside, run>>

\* git push -f origin HEAD:rehearsal, and on live a merge.
Push ==
    /\ ByHand /\ synced # head /\ synced' = head
    /\ UNCHANGED <<rehearsal, head, crds, namespaces, secrets, argocd, outside, run>>

\* kubectl: another manager sets a key, a Secret is deleted or loses a key.
SetKey(k) ==
    /\ ByHand /\ Touch(In[k]) /\ Home[In[k]] \in namespaces
    /\ live' = [live EXCEPT ![k] = Fresh(k, HandDraw)]
    /\ foreign' = foreign \union {k}
    /\ UNCHANGED <<trees, crds, namespaces, argocd, outside>>

Delete(s, K) ==
    /\ ByHand /\ Touch(s) /\ \E k \in K : live[k] # NoValue
    /\ live' = [k \in Held |-> IF k \in K THEN NoValue ELSE live[k]]
    /\ foreign' = foreign \ K
    /\ UNCHANGED <<trees, crds, namespaces, argocd, outside>>

\* The Gateway is made again, or gets a second load balancer.
ChangeGateway(addresses) ==
    /\ ByHand /\ gateway # {} /\ gateway' = addresses
    /\ run' = [run EXCEPT !.moved = @ \/ (Running /\ run.got # {})]
    /\ UNCHANGED <<trees, crds, namespaces, secrets, argocd, zone, prom, db>>

\* kluster writes no record; people do.
ChangeZone(h, addresses) ==
    /\ ByHand /\ zone' = [zone EXCEPT ![h] = addresses]
    /\ UNCHANGED <<trees, crds, namespaces, secrets, argocd, gateway, prom, db, run>>

Init ==
    /\ rehearsal \in BOOLEAN
    /\ head \in Revisions /\ synced \in Revisions
    /\ crds = None /\ namespaces = {}
    /\ live = Empty /\ foreign = {}
    /\ argo = None /\ app = [a \in Apps |-> [at |-> None, status |-> "missing"]]
    /\ gateway = {} /\ zone = [h \in Hosts |-> {LiveAddress}]
    /\ prom = Away /\ db = FALSE
    /\ run = Idle /\ byHand = 0

Seed ==
    \/ \E mode \in Modes : Start(mode)
    \/ Probe \/ Check \/ Fail
    \/ ApplyCRDs \/ ApplyNamespaces \/ MakeFresh \/ ApplyArgoCD \/ Wait \/ BuildDatabase
    \/ \E s \in Secrets : ApplySecret(s)

People ==
    \/ Interrupt \/ Push
    \/ \E r \in Revisions : Checkout(r)
    \/ \E k \in Keys : SetKey(k) \/ Delete(In[k], {k})
    \/ \E s \in Secrets : Delete(s, HeldBy(s))
    \/ \E addresses \in SUBSET Addresses : ChangeGateway(addresses)
    \/ \E h \in Hosts, addresses \in SUBSET Addresses : ChangeZone(h, addresses)

Next ==
    \/ Seed \/ People
    \/ GiveAddress \/ Scrape
    \/ \E a \in Apps : Refresh(a) \/ Sync(a)

Spec == Init /\ [][Next]_vars

\* kluster runs its own steps and is started again; ArgoCD, the cloud and
\* Prometheus go on.  People owe nothing.
FairSpec == /\ Spec /\ WF_vars(Seed) /\ WF_vars(GiveAddress) /\ WF_vars(Scrape)
            /\ \A a \in Apps : WF_vars(Refresh(a)) /\ WF_vars(Sync(a))

-----------------------------------------------------------------------------
(* Properties.                                                              *)

Apart == [at : Revisions \union {None}, status : {"missing", "outOfSync", "inStep"}]

\* Every variable has its type.
TypeOK ==
    /\ rehearsal \in BOOLEAN /\ head \in Revisions /\ synced \in Revisions
    /\ crds \in Revisions \union {None} /\ argo \in Revisions \union {None}
    /\ live \in Contents /\ foreign \subseteq Held /\ app \in [Apps -> Apart]
    /\ gateway \subseteq Addresses /\ zone \in [Hosts -> SUBSET Addresses]
    /\ prom \in {Away, NoDatabase, Settled} /\ db \in BOOLEAN
    /\ run \in RunState /\ byHand \in 0..MaxByHand

\* No value of a file or of a live item reaches a rehearsal's cluster, inside
\* a copy's format neither (fresh.go Fresh, key.go ForRehearsal).
RehearsalApart ==
    rehearsal => \A k \in Held : live[k] # NoValue => live[k].draw # LiveDraw

\* A value on a rehearsal's cluster is in use: no seed changes it, though a
\* Secret may appear between the Probe and the apply, and a run may stop
\* between two Secrets (stages.go Secrets, fresh.go HasKeys).
FreshOnce ==
    [][(rehearsal /\ byHand' = byHand) =>
          \A k \in Keys : live[k] # NoValue => live'[k] = live[k]]_vars

\* ArgoCD is never told by a seed to sync an Application into a Namespace
\* the cluster does not have: it would try for ever (plan.go inNamespaces).
RoomForEach ==
    [][On("seed-argocd", "act") /\ argo' # argo =>
          \A a \in Elements[argo'] : Home[a] \in namespaces /\ crds # None]_vars

\* What a seed is asked for.
AsAsked ==
    /\ crds = run.tree /\ Makes(run.tree) \subseteq namespaces
    /\ \A k \in Keys : In[k] \in Made(run.tree) \ run.touched =>
          live[k] # NoValue /\ (~rehearsal => live[k] = FileValue(k))
    /\ \A k \in Copies : In[k] \in run.made /\ {In[k], In[From[k]]} \intersect run.touched = {} =>
          live[k] = Render(k, live[From[k]])
    /\ ~run.moved => /\ Cardinality(gateway) = 1
                     /\ \A h \in Hosts : IF rehearsal THEN zone[h] # gateway /\ Cardinality(zone[h]) = 1
                                                      ELSE zone[h] = gateway
    /\ run.mode = "up" => db

\* A run that ends well has left what it was asked for, whoever changed what
\* beside it: the working tree's CRDs and Namespaces; on live each Secret as
\* its file says; in a rehearsal a value for every key, and in every copy the
\* run made its source's value ("A copy made now must hold its source's
\* value", stages.go:131); every host at the load balancer or, in a rehearsal,
\* untouched.  It claims nothing of a Secret people changed while it ran, nor
\* of the zone when the Gateway changed after lb-address had read it
\* (stage.go Run, seed/plan.go Build).
Sound == [][(run.phase # "done" /\ run'.phase = "done") => AsAsked]_vars

\* What a seed cannot put right: it names each of these and stops.
NeedsAPerson ==
    \/ ~Buildable(head, synced)
    \/ rehearsal /\ ~CanBeFresh(Made(head)) /\ \E s \in Made(head) : ~Present(s)
    \/ rehearsal /\ \E s \in Made(head) : Partial(s)
    \/ rehearsal /\ \E k \in Copies : /\ {In[k], In[From[k]]} \subseteq Made(head)
                                      /\ ~Present(In[k]) /\ Present(In[From[k]])
    \/ ~rehearsal /\ \E s \in Made(head) : Drift(s) /\ HeldBy(s) \intersect foreign # {}
    \/ rehearsal /\ Links # {}
    \/ Cardinality(gateway) > 1
    \/ \E a \in Addresses : /\ gateway = {a}
                            /\ IF rehearsal THEN ~Untouched({a}) ELSE ~PointsAt({a})

\* Once people leave it alone, a seed that is run again and again ends well,
\* or something it names waits for a person: no order of stops, pushes and
\* changes before that leaves a cluster that only fails.
Converges == <>[]NeedsAPerson \/ []<>(run.phase = "done")

\* "The cuts are proven once core is in step, before anything goes on"
\* (plan.go:176): in step with the revision the seed was built from.
CutsProvenInStep ==
    [][(On("rehearsal-cuts", "probe") /\ synced = run.built /\ run'.at # run.at /\ run'.phase = "probe") =>
          \A a \in Elements[run.built] : app[a].at = run.built]_vars

\* "A copy made now must hold its source's value, so both are made together."
\* (stages.go:131): no seed of a rehearsal ends well beside a copy that
\* differs from its source, when nobody touched either.
CopiesMadeTogether ==
    [][(rehearsal /\ run.phase # "done" /\ run'.phase = "done") =>
          \A k \in Copies : /\ {In[k], In[From[k]]} \subseteq Made(run.tree)
                            /\ \A h \in {k, From[k]} : live[h] # NoValue /\ live[h].draw # HandDraw
                            => live[k] = Render(k, live[From[k]])]_vars

\* A seed that ends well leaves every host of live at the Gateway's address
\* (zone.go:58).
ZoneAtGateway ==
    [][(~rehearsal /\ run.phase # "done" /\ run'.phase = "done") =>
          \A h \in Hosts : zone[h] = gateway]_vars
=============================================================================
