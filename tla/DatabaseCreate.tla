---------------------------- MODULE DatabaseCreate ----------------------------
(***************************************************************************)
(* The database Cluster under `kluster db create` and the database step of *)
(* `kluster up` (--apply): the Stages that create it into an empty slot    *)
(* and prove its backups, the archive generations in the buckets, and the  *)
(* generation the repository names, which a live recovery bumps.           *)
(*                                                                         *)
(* A run stops anywhere, at an error, a timeout or an interrupt, and is    *)
(* started again; a Stage whose probe says done is skipped.  CloudNativePG *)
(* bootstraps the Cluster, archives its WAL, switches primaries and takes  *)
(* backups.  Between runs the operator deletes the Cluster, commits or     *)
(* discards changes of the repository and adds lock rules.                 *)
(*                                                                         *)
(* A path of a bucket holds the segments <<timeline, position>> and the    *)
(* timeline histories under wals/, and the base backups under base/.  What *)
(* the Cluster needs besides (operator, Secrets, stores) is there, no run  *)
(* is in Plan Mode, and one run is under way at a time.                    *)
(***************************************************************************)
EXTENDS Naturals

CONSTANTS Projects,   \* the projects it may be: TRUE is live, FALSE a rehearsal
          MaxGen,     \* bound: the last generation there can be a path for
          MaxPos,     \* bound: the last position of the WAL
          MaxTl,      \* bound: the last timeline
          MaxIds,     \* bound: Clusters ever created
          MaxStops    \* bound: stopped runs, failures and failovers

ASSUME ConstantsAssumption ==
  /\ Projects \subseteq BOOLEAN
  /\ {MaxGen, MaxPos, MaxTl, MaxIds, MaxStops} \subseteq Nat \ {0}

VARIABLES
  live,      \* whether it is the live project
  tree,      \* the generations pg-cluster.yaml and recover.json name
  head,      \* the same in the commit that is merged
  cluster,   \* the Cluster: none or one
  bucket,    \* the archive bucket: the path of each generation
  source,    \* the bucket a rehearsal recovers from (the live one)
  locked,    \* the generations whose wals/ a lock rule holds for 30 days
  backups,   \* the first backups: [of, phase]
  created,   \* Clusters created so far
  pc,        \* where the run is
  render,    \* the Cluster the run renders
  seen,      \* the newest source segment its preflight read, or 0
  finished,  \* <<id, how>>: the Clusters a run reported done, by its Stages or as built
  stops      \* stops so far

repoVars   == <<tree, head>>
project    == <<live, source>>
cloudVars  == <<project, cluster, bucket, locked, backups, created>>
runVars    == <<render, seen>>
vars == <<repoVars, cloudVars, pc, runVars, finished, stops>>

Gens      == 1..MaxGen
Ids       == 1..MaxIds
Instances == {1, 2}      \* a primary and a standby; the first one starts as primary
Fresh     == "fresh"
Recover   == "recover"

Generations == [base : 1..(MaxGen + 1), overlay : 1..(MaxGen + 1)]
Path    == [segs : SUBSET ((1..MaxTl) \X (1..MaxPos)), hist : SUBSET (1..MaxTl), base : SUBSET Nat,
            by : SUBSET Nat]  \* by: the Clusters that have written it
Render  == [mode : {Fresh, Recover}, gen : Gens, target : BOOLEAN]
Cluster == [id : Ids, render : Render, healthy : BOOLEAN, primary : Instances,
            marker : SUBSET Instances, streams : BOOLEAN, tl : 0..MaxTl, pos : 0..(MaxPos + 1)]
Phases  == {"running", "completed", "failed"}
Waits   == {"healthy", "archive", "marker", "replication", "switchProof", "backupProof"}
Steps   == {"idle", "preflight", "cluster", "switch", "backup", "bump", "bumpOverlay", "empty"} \cup Waits

Nothing == [segs |-> {}, hist |-> {}, base |-> {}, by |-> {}]
NoRender == [mode |-> Fresh, gen |-> 1, target |-> FALSE]

MaxOf(S) == CHOOSE x \in S \cup {0} : \A y \in S : y <= x
MinOf(S) == CHOOSE x \in S : \A y \in S : x <= y

(* Mutant: a recovered one archives where it read.                         *)
ArchivesInPlace(r) == r.gen

(* A fresh Cluster archives to the generation the repository names, a      *)
(* recovered one to the next.                                              *)
Archives(r) == IF r.mode = Recover THEN r.gen + 1 ELSE r.gen

Src == IF live THEN bucket ELSE source

Empty(p)    == p.segs = {} /\ p.hist = {} /\ p.base = {}
Newest(p)   == MaxOf({s[2] : s \in p.segs})
Lowest(p)   == MinOf({s[1] : s \in p.segs})          \* lowestTimeline
Latest(p)   == MaxOf({1} \cup p.hist)                \* latestTimeline
On(p, tl)   == {s[2] : s \in {x \in p.segs : x[1] = tl}}
NewestGen(b) == MaxOf({g \in Gens : ~Empty(b[g])})

-----------------------------------------------------------------------------
(* At the start there is no Cluster.  A rehearsal finds the live Cluster's *)
(* WAL and its base backup in the source.                                  *)
Init ==
  /\ live \in Projects
  /\ tree = [base |-> 1, overlay |-> 1]
  /\ head = tree
  /\ cluster = {}
  /\ bucket = [g \in Gens |-> Nothing]
  /\ source = [g \in Gens |-> IF ~live /\ g = 1
                              THEN [segs |-> {<<1, 1>>}, hist |-> {}, base |-> {0}, by |-> {0}]
                              ELSE Nothing]
  /\ locked = {}
  /\ backups = {}
  /\ created = 0
  /\ pc = "idle"
  /\ render = NoRender
  /\ seen = 0
  /\ finished = {}
  /\ stops = 0

Fault == stops < MaxStops /\ stops' = stops + 1

Go(step) == pc' = step /\ UNCHANGED runVars

End ==
  /\ pc' = "idle"
  /\ render' = NoRender
  /\ seen' = 0

(* The Stages are all done: the run reports the Cluster.                   *)
Done ==
  /\ End
  /\ finished' = finished \cup {<<c.id, "stages">> : c \in cluster}

-----------------------------------------------------------------------------
(* A run starts.                                                           *)

(* The files are those of the commit, and the overlay agrees with the base *)
(* (CheckOverlay): the render is of the generation they name.              *)
RenderOf(mode, target) == [mode |-> mode, gen |-> tree.base, target |-> target]

Clean(r) ==
  /\ tree = head
  /\ tree.overlay = tree.base
  /\ r.target => r.mode = Recover
  /\ Archives(r) \in Gens

Begin(r) ==
  /\ pc = "idle"
  /\ Clean(r)
  /\ pc' = "preflight"
  /\ render' = r
  /\ UNCHANGED <<repoVars, cloudVars, seen, finished, stops>>

(* up takes the database step as done: the Cluster is not this run's       *)
(* render, archives to the generation the repository names and is healthy. *)
Standing(r) == \E c \in cluster : Archives(c.render) = r.gen /\ c.healthy
Rendered(r) == \E c \in cluster : c.render = r
Built(r)    == Standing(r) /\ ~Rendered(r)

DbCreate(mode, target) == Begin(RenderOf(mode, target))

Up(mode, target) == ~Built(RenderOf(mode, target)) /\ Begin(RenderOf(mode, target))

(* The diff of the render that fails counts as a difference.               *)
UpBuilt(mode, target) ==
  /\ pc = "idle"
  /\ Clean(RenderOf(mode, target))
  /\ \/ Built(RenderOf(mode, target)) /\ UNCHANGED stops
     \/ Standing(RenderOf(mode, target)) /\ Rendered(RenderOf(mode, target)) /\ Fault
  /\ finished' = finished \cup {<<c.id, "built">> : c \in cluster}
  /\ UNCHANGED <<repoVars, cloudVars, pc, runVars>>

-----------------------------------------------------------------------------
(* db-preflight and db-cluster.                                            *)

(* Mutants: with a Control Plane there the buckets are not read; a locked  *)
(* path is only asked of a fresh Cluster.                                  *)
BucketsUnread(r) == TRUE

BucketsUnlocked(r) ==
  /\ Empty(bucket[Archives(r)])
  /\ r.mode = Recover => NewestGen(Src) = r.gen /\ Src[r.gen].segs # {}
  /\ r.mode = Fresh /\ live => Archives(r) \in locked

(* checkBuckets: the path is empty; a recovery's generation is the newest  *)
(* in the source and has a segment; a live recovery's path is locked.      *)
BucketsPass(r) ==
  /\ Empty(bucket[Archives(r)])
  /\ r.mode = Recover => NewestGen(Src) = r.gen /\ Src[r.gen].segs # {}
  /\ r.mode = Recover /\ live => Archives(r) \in locked

(* A Cluster that is this run's render is resumed, unread the buckets.     *)
PreflightResumes ==
  /\ pc = "preflight"
  /\ Rendered(render)
  /\ Go("cluster")
  /\ UNCHANGED <<repoVars, cloudVars, finished, stops>>

Preflight ==
  /\ pc = "preflight"
  /\ cluster = {}
  /\ BucketsPass(render)
  /\ seen' = IF render.mode = Recover THEN Newest(Src[render.gen]) ELSE 0
  /\ pc' = "cluster"
  /\ UNCHANGED <<repoVars, cloudVars, render, finished, stops>>

(* A Cluster before its first instance is there.                           *)
NewCluster ==
  [id |-> created + 1, render |-> render, healthy |-> FALSE, primary |-> 1,
   marker |-> {}, streams |-> FALSE, tl |-> 0, pos |-> 0]

(* The apply; a Cluster that is the render already is left as it is.       *)
ApplyCluster ==
  /\ pc = "cluster"
  /\ \/ Rendered(render) /\ UNCHANGED <<cluster, created>>
     \/ /\ cluster = {} /\ created < MaxIds
        /\ created' = created + 1
        /\ cluster' = {NewCluster}
  /\ Go("healthy")
  /\ UNCHANGED <<repoVars, bucket, project, locked, backups, finished, stops>>

-----------------------------------------------------------------------------
(* The Stages that wait: each goes on when its probe says done.            *)

Wait(step, next, ready) ==
  /\ pc = step
  /\ ready
  /\ Go(next)
  /\ UNCHANGED <<repoVars, cloudVars, finished, stops>>

Healthy == Wait("healthy", "archive", \E c \in cluster : c.healthy)

(* The path the run archives to, and where its recovery opened: the first  *)
(* segment of the timeline it started on.                                  *)
Own    == bucket[Archives(render)]
Opened == MinOf(On(Own, Lowest(Own)))

Archived == Own.segs # {} /\ (render.mode = Recover => Own.hist # {})

(* A recovery has to open at or after the newest segment of the source,    *)
(* unless it stops at a target or the run has not read the source.         *)
AtTheEnd == render.mode = Fresh \/ render.target \/ seen = 0 \/ Opened >= seen

ArchiveStage == Wait("archive", "marker", Archived /\ AtTheEnd)

(* Mutant: the marker of the primary is the one that counts.               *)
PrimaryMarker == Wait("marker", "replication", \E c \in cluster : c.primary \notin c.marker)

Marker == Wait("marker", "replication", \E c \in cluster : c.marker = {})

Replication ==
  Wait("replication", IF live THEN "backup" ELSE "switch", \E c \in cluster : c.streams)

(* db-switchover, a rehearsal only: a Cluster whose first instance is      *)
(* still the primary gets a new one, on the next timeline.                 *)
Switchover ==
  /\ pc = "switch"
  /\ \E c \in cluster :
       \/ c.primary # 1 /\ UNCHANGED cluster
       \/ /\ c.primary = 1 /\ c.healthy /\ c.tl < MaxTl
          /\ cluster' = {[c EXCEPT !.primary = 2, !.tl = @ + 1, !.streams = FALSE]}
  /\ Go("switchProof")
  /\ UNCHANGED <<repoVars, bucket, project, locked, backups, created, finished, stops>>

(* Mutant: a new primary is enough.                                        *)
SwitchedPrimary == \E c \in cluster : c.primary # 1 /\ c.marker = {}

Switched ==
  /\ \E c \in cluster : c.primary # 1 /\ c.marker = {}
  /\ Own.segs # {} /\ Latest(Own) > Lowest(Own)
  /\ On(Own, Latest(Own)) # {}

SwitchProof == Wait("switchProof", "backup", Switched)

(* db-first-backup counts the Backups of the Cluster that exists, creates  *)
(* one if there is none, and proves a completed one by its files.          *)

(* Mutant: a Backup of any Cluster of the name counts.                     *)
BackupsOfAny == backups

FirstBackups == {b \in backups : \E c \in cluster : b.of = c.id}
Completed(b) == b.phase = "completed"
Failed(b) == b.phase = "failed"

FirstBackup ==
  /\ pc = "backup"
  /\ cluster # {}
  /\ backups' = IF FirstBackups # {} THEN backups
                ELSE backups \cup {[of |-> c.id, phase |-> "running"] : c \in cluster}
  /\ Go("backupProof")
  /\ UNCHANGED <<repoVars, cluster, bucket, project, locked, created, finished, stops>>

(* inBucket: the files of that Backup are in the run's path.               *)
InBucket(b) == b.of \in Own.base

(* Mutant: a Backup that was made counts.                                  *)
BackupTaken == \E b \in FirstBackups : ~Failed(b)

BackupProven == \E b \in FirstBackups : Completed(b) /\ InBucket(b)

LastStage == ~(live /\ render.mode = Recover)

BackupProof ==
  /\ pc = "backupProof"
  /\ BackupProven
  /\ IF LastStage THEN Done ELSE Go("bump") /\ UNCHANGED finished
  /\ UNCHANGED <<repoVars, cloudVars, stops>>

(* db-generation: the next generation into pg-cluster.yaml, then into      *)
(* recover.json.                                                           *)
Bump ==
  /\ pc = "bump"
  /\ tree' = [tree EXCEPT !.base = @ + 1]
  /\ Go("bumpOverlay")
  /\ UNCHANGED <<head, cloudVars, finished, stops>>

BumpOverlay ==
  /\ pc = "bumpOverlay"
  /\ tree' = [tree EXCEPT !.overlay = @ + 1]
  /\ Done
  /\ UNCHANGED <<head, cloudVars, stops>>

-----------------------------------------------------------------------------
(* A run ends at a probe that refuses, or stops anywhere.                  *)

Refuses ==
  \/ pc = "preflight" /\ cluster = {} /\ ~BucketsPass(render)
  \/ pc = "preflight" /\ \E c \in cluster : c.render # render
  \/ pc = "cluster" /\ cluster = {} /\ created = MaxIds
  \/ pc = "archive" /\ Archived /\ ~AtTheEnd
  \/ pc = "backupProof" /\ \E b \in FirstBackups : Failed(b) \/ (Completed(b) /\ ~InBucket(b))

Refuse ==
  /\ Refuses
  /\ End
  /\ UNCHANGED <<repoVars, cloudVars, finished, stops>>

Stop ==
  /\ pc # "idle"
  /\ Fault
  /\ End
  /\ UNCHANGED <<repoVars, cloudVars, finished>>

-----------------------------------------------------------------------------
(* CloudNativePG and the barman-cloud plugin (external).                   *)

CloudOnly == UNCHANGED <<repoVars, project, locked, created, pc, runVars, finished>>

(* The Cluster as it opens on timeline tl at position n: every instance    *)
(* holds the recovery marker.                                              *)
Opens(c, tl, n) ==
  /\ n <= MaxPos /\ tl <= MaxTl
  /\ cluster' = {[c EXCEPT !.healthy = TRUE, !.marker = Instances, !.tl = tl, !.pos = n]}

(* A recovery needs a base backup.  It replays to its target, or to the    *)
(* end of the WAL; a missing or broken segment ends the replay before it.  *)
Bootstrap ==
  /\ \E c \in cluster :
       /\ ~c.healthy
       /\ LET from == Src[c.render.gen] IN
            \/ /\ c.render.mode = Fresh
               /\ Opens(c, 1, 1) /\ UNCHANGED stops
            \/ /\ c.render.mode = Recover /\ from.base # {}
               /\ \/ Opens(c, Latest(from) + 1, Newest(from) + 1) /\ UNCHANGED stops
                  \/ /\ c.render.target
                     /\ \E n \in 1..Newest(from) : Opens(c, Latest(from) + 1, n)
                     /\ UNCHANGED stops
                  \/ /\ Fault
                     /\ \E n \in 1..(Newest(from) - 1) : Opens(c, Latest(from) + 1, n)
  /\ CloudOnly
  /\ UNCHANGED <<bucket, backups>>

(* An instance with the marker does not archive into a path that is not    *)
(* empty; the first file it archives takes its marker away.                *)
Blocked(c) == c.primary \in c.marker /\ ~Empty(bucket[Archives(c.render)])

ArchiveWAL ==
  /\ \E c \in cluster : LET g == Archives(c.render) IN
       /\ c.healthy /\ ~Blocked(c)
       /\ \/ /\ c.tl > 1 /\ c.tl \notin bucket[g].hist
             /\ bucket' = [bucket EXCEPT ![g].hist = @ \cup {c.tl}, ![g].by = @ \cup {c.id}]
             /\ cluster' = {[c EXCEPT !.marker = @ \ {c.primary}]}
          \/ /\ c.tl > 1 => c.tl \in bucket[g].hist
             /\ c.pos <= MaxPos
             /\ bucket' = [bucket EXCEPT ![g].segs = @ \cup {<<c.tl, c.pos>>}, ![g].by = @ \cup {c.id}]
             /\ cluster' = {[c EXCEPT !.marker = @ \ {c.primary}, !.pos = @ + 1]}
  /\ CloudOnly
  /\ UNCHANGED <<backups, stops>>

StandbyReady ==
  /\ \E c \in cluster : \E i \in Instances \ {c.primary} :
       /\ c.healthy /\ (i \in c.marker \/ ~c.streams)
       /\ cluster' = {[c EXCEPT !.marker = @ \ {i}, !.streams = TRUE]}
  /\ CloudOnly
  /\ UNCHANGED <<bucket, backups, stops>>

(* The primary is lost, and the standby takes over on the next timeline.   *)
Failover ==
  /\ Fault
  /\ \E c \in cluster :
       /\ c.healthy /\ c.tl < MaxTl
       /\ cluster' = {[c EXCEPT !.primary = 3 - @, !.tl = @ + 1, !.streams = FALSE]}
  /\ CloudOnly
  /\ UNCHANGED <<bucket, backups>>

BackupEnds ==
  /\ \E c \in cluster, b \in backups :
       /\ b.of = c.id /\ b.phase = "running" /\ c.healthy
       /\ \/ /\ backups' = (backups \ {b}) \cup {[b EXCEPT !.phase = "completed"]}
             /\ bucket' = [bucket EXCEPT ![Archives(c.render)].base = @ \cup {c.id}]
             /\ UNCHANGED stops
          \/ /\ Fault
             /\ backups' = (backups \ {b}) \cup {[b EXCEPT !.phase = "failed"]}
             /\ UNCHANGED bucket
  /\ CloudOnly
  /\ UNCHANGED cluster

CloudNativePG == Bootstrap \/ ArchiveWAL \/ StandbyReady \/ Failover \/ BackupEnds

-----------------------------------------------------------------------------
(* The operator, between runs.                                             *)

ByHand == pc = "idle" /\ UNCHANGED <<project, created, pc, runVars, finished, stops>>

(* Runbook step 2, or the Cluster is lost.  Its Backups stay behind.       *)
DeleteCluster ==
  /\ ByHand
  /\ cluster # {} /\ cluster' = {}
  /\ UNCHANGED <<repoVars, bucket, locked, backups>>

(* A change is merged only if `services check` passes.                     *)
Commit ==
  /\ ByHand
  /\ tree # head /\ tree.overlay = tree.base
  /\ head' = tree
  /\ UNCHANGED <<tree, cluster, bucket, locked, backups>>

Discard ==
  /\ ByHand
  /\ tree # head /\ tree' = head
  /\ UNCHANGED <<head, cluster, bucket, locked, backups>>

(* "Commit the generation of the last recovery first."                     *)
BumpByHand ==
  /\ ByHand
  /\ tree = head /\ cluster = {} /\ NewestGen(Src) > tree.base
  /\ tree' = [base |-> NewestGen(Src), overlay |-> NewestGen(Src)]
  /\ UNCHANGED <<head, cluster, bucket, locked, backups>>

AddLockRule ==
  /\ ByHand
  /\ live
  /\ \E g \in {tree.base, tree.base + 1} \cap Gens : g \notin locked /\ locked' = locked \cup {g}
  /\ UNCHANGED <<repoVars, cluster, bucket, backups>>

DeleteBackup ==
  /\ ByHand
  /\ \E b \in backups : Failed(b) /\ backups' = backups \ {b}
  /\ UNCHANGED <<repoVars, cluster, bucket, locked>>

Operator == DeleteCluster \/ Commit \/ Discard \/ BumpByHand \/ AddLockRule \/ DeleteBackup

-----------------------------------------------------------------------------
(* `kluster down`, a rehearsal only: the project, the Cluster in it, and   *)
(* only then the bucket.                                                   *)
DownProject ==
  /\ pc = "idle" /\ ~live
  /\ cluster' = {} /\ backups' = {}
  /\ Go("empty")
  /\ UNCHANGED <<repoVars, bucket, project, locked, created, finished, stops>>

DownBucket ==
  /\ pc = "empty"
  /\ bucket' = [g \in Gens |-> Nothing]
  /\ End
  /\ UNCHANGED <<repoVars, cluster, project, locked, backups, created, finished, stops>>

-----------------------------------------------------------------------------
Start == \E mode \in {Fresh, Recover}, target \in BOOLEAN :
           DbCreate(mode, target) \/ Up(mode, target) \/ UpBuilt(mode, target)

Step ==
  \/ PreflightResumes \/ Preflight \/ ApplyCluster \/ Healthy \/ ArchiveStage \/ Marker
  \/ Replication \/ Switchover \/ SwitchProof \/ FirstBackup \/ BackupProof
  \/ Bump \/ BumpOverlay \/ DownBucket \/ Refuse

Next == Start \/ Step \/ Stop \/ CloudNativePG \/ Operator \/ DownProject

Spec == Init /\ [][Next]_vars

(* CloudNativePG goes on by itself, and so does a run.  The operator       *)
(* repeats the run that renders the Cluster, clears the way for it (what a *)
(* stopped run left in the tree, a failed Backup) and commits a bump.      *)
Rerun == \E c \in cluster : Clean(c.render) /\ c.render.gen = tree.base /\ Begin(c.render)

Fairness ==
  /\ WF_vars(Step) /\ SF_vars(Rerun)
  /\ WF_vars(Bootstrap) /\ WF_vars(ArchiveWAL) /\ WF_vars(StandbyReady) /\ WF_vars(BackupEnds)
  /\ SF_vars(Discard) /\ SF_vars(DeleteBackup)

FairSpec == Spec /\ Fairness

-----------------------------------------------------------------------------
(* Properties.                                                             *)

(* Every variable has its type.                                            *)
TypeOK ==
  /\ tree \in Generations /\ head \in Generations
  /\ cluster \subseteq Cluster /\ \A c, d \in cluster : c = d
  /\ live \in BOOLEAN
  /\ bucket \in [Gens -> Path] /\ source \in [Gens -> Path]
  /\ locked \subseteq Gens
  /\ backups \subseteq [of : Ids, phase : Phases]
  /\ created \in 0..MaxIds
  /\ pc \in Steps
  /\ render \in Render /\ seen \in 0..MaxPos
  /\ finished \subseteq Ids \X {"stages", "built"}
  /\ stops \in 0..MaxStops

(* An archive path is written by one Cluster: what the Cluster that exists *)
(* archives to was never written by another (CONTEXT.md, Archive           *)
(* Generation), over stopped runs, deleted Clusters and lost bumps.        *)
PathIsOwn == \A c \in cluster : bucket[Archives(c.render)].by \subseteq {c.id}

(* A live recovery reads the newest WAL there is: no later generation than *)
(* the one it reads was written by any Cluster but itself.                 *)
ReadsNewest ==
  live => \A c \in cluster : c.render.mode = Recover =>
            \A g \in Gens : g > c.render.gen => bucket[g].by \subseteq {c.id}

(* Nothing a live recovery archives is outside a lock (checkLock): nobody  *)
(* can delete it for the thirty days.                                      *)
LockedFirst ==
  live => \A c \in cluster : c.render.mode = Recover /\ bucket[Archives(c.render)].by # {}
                               => Archives(c.render) \in locked

(* What the Stages report done is done: the Cluster has a base backup of   *)
(* its own in its path, and no instance can stop archiving at a switchover *)
(* because it holds the recovery marker.                                   *)
Proven ==
  \A c \in cluster : <<c.id, "stages">> \in finished =>
    c.id \in bucket[Archives(c.render)].base /\ c.marker = {}

(* A rehearsal's Cluster that passed has archived a segment on a timeline  *)
(* after the one it opened on: archiving survived a switchover.            *)
SurvivesSwitchover ==
  ~live => \A c \in cluster : <<c.id, "stages">> \in finished =>
    \E s, t \in bucket[Archives(c.render)].segs : s[1] < t[1]

(* The steps of create, its reruns, CloudNativePG, the operator and down   *)
(* are steps of an archive whose every path one Cluster claims, whose      *)
(* recoveries read the newest path under a lock, and whose Clusters are    *)
(* certified by a backup of their own (checkBuckets, db-first-backup): the *)
(* Cluster holds the path it archives to.                                  *)
Holder(c) ==
  [id |-> c.id, at |-> Archives(c.render),
   from |-> IF c.render.mode = Recover THEN c.render.gen ELSE 0,
   backed |-> c.id \in bucket[Archives(c.render)].base]
Ledger == INSTANCE ArchiveLedger WITH
  Clusters <- Ids, Paths <- Gens,
  live <- live, locked <- locked,
  holder <- {Holder(c) : c \in cluster},
  writers <- [g \in Gens |-> bucket[g].by],
  certified <- {i \in Ids : <<i, "stages">> \in finished}
LedgerSpec == Ledger!Spec

(* A Cluster whose run was stopped, refused or failed is finished by later *)
(* runs, unless it is deleted, a promoted standby holds the marker, the    *)
(* Primary of a rehearsal failed over before it archived (db-switchover    *)
(* then neither switches nor meets a later timeline) or has no position    *)
(* left within the bounds, or the source cannot be recovered (no base      *)
(* backup, or past the bounds).                                            *)
Stranded(c) ==
  /\ ~live
  /\ \/ c.primary # 1 /\ \A s \in bucket[Archives(c.render)].segs : s[1] = c.tl
     \/ c.pos > MaxPos
Exists(id)  == \E c \in cluster : c.id = id
Recoverable(c) ==
  c.render.mode = Recover =>
    /\ Src[c.render.gen].base # {}
    /\ Newest(Src[c.render.gen]) < MaxPos /\ Latest(Src[c.render.gen]) < MaxTl
Resumes ==
  \A id \in Ids :
    (\E c \in cluster : c.id = id /\ Recoverable(c)) ~>
      \/ ~Exists(id) \/ \E how \in {"stages", "built"} : <<id, how>> \in finished
      \/ \E c \in cluster : Blocked(c) \/ Stranded(c)

-----------------------------------------------------------------------------
(* Statements of the repository that the code does not keep.               *)

(* db-archive "proves replay reached the end of the WAL" (stages.go:317),  *)
(* and "do not go on" when it fails (pg-recovery.md:247): the generation   *)
(* is bumped only for a recovery that lost nothing.                        *)
RecoveredToEnd ==
  [][Bump /\ ~render.target => Opened >= Newest(Src[render.gen])]_vars

(* A built Cluster is one of an earlier db create whose generation bump is *)
(* merged since (plan.go:112): its Stages have passed.                     *)
BuiltWasProven == \A id \in Ids : <<id, "built">> \in finished => <<id, "stages">> \in finished

(* db-preflight "proves what the Cluster needs is in place"                *)
(* (stages.go:130): a recovery that was let through has a base backup.     *)
PreflightProves == \A c \in cluster : c.render.mode = Recover => Src[c.render.gen].base # {}
=============================================================================
