------------------------- MODULE DatabaseCreateProofs -------------------------
(***************************************************************************)
(* Theorems about the database Cluster and its archive generations, for    *)
(* any bounds and for the live project and a rehearsal alike.              *)
(***************************************************************************)
EXTENDS DatabaseCreate, WellFoundedInduction, TLAPS

-----------------------------------------------------------------------------
(* Least and greatest numbers of a set.                                    *)

(* A set of natural numbers has a least member.                            *)
LEMMA Least ==
  ASSUME NEW S \in SUBSET Nat, S # {}
  PROVE  \E x \in S : \A y \in S : x <= y
<1> DEFINE R == OpToRel(<, Nat)
<1>1. IsWellFoundedOn(R, Nat)
  BY NatLessThanWellFounded
<1>2. PICK x \in S : \A y \in S : ~(<<y, x>> \in R)
  <2> HIDE DEF R
  <2> QED
    BY <1>1, WFMin
<1>3. \A y \in S : ~(y < x)
  BY <1>2 DEF OpToRel
<1> QED
  BY <1>3

(* A set of natural numbers under a bound has a greatest member.           *)
LEMMA Greatest ==
  ASSUME NEW n \in Nat, NEW S \in SUBSET (0..n), S # {}
  PROVE  \E x \in S : \A y \in S : y <= x
<1> DEFINE T == {k \in 0..n : n - k \in S}
<1>1. ASSUME NEW x \in S PROVE n - x \in T
  <2>1. n - x \in 0..n /\ n - (n - x) = x
    OBVIOUS
  <2>2. n - (n - x) \in S
    <3> HIDE DEF T
    <3> QED
      BY Zenon, <2>1
  <2> QED
    BY <2>1, <2>2
<1>2. T \in SUBSET Nat /\ T # {}
  <2>1. T \in SUBSET Nat
    OBVIOUS
  <2> QED
    BY <1>1, <2>1
<1>3. PICK t \in T : \A k \in T : t <= k
  <2> HIDE DEF T
  <2> QED
    BY <1>2, Least
<1>4. ASSUME NEW y \in S PROVE y <= n - t
  <2>1. t <= n - y
    BY <1>1, <1>3
  <2>2. t \in 0..n /\ y \in 0..n
    OBVIOUS
  <2> QED
    BY <2>1, <2>2
<1> QED
  BY <1>3, <1>4

(* MaxOf is the greatest member of a set, or 0.                            *)
LEMMA MaxOfIs ==
  ASSUME NEW n \in Nat, NEW S \in SUBSET (0..n)
  PROVE  MaxOf(S) \in S \cup {0} /\ MaxOf(S) \in 0..n /\ \A y \in S : y <= MaxOf(S)
<1>1. S \cup {0} \in SUBSET (0..n) /\ S \cup {0} # {}
  OBVIOUS
<1>2. \E x \in S \cup {0} : \A y \in S \cup {0} : y <= x
  BY <1>1, Greatest
<1>3. \E x \in S \cup {0} : \A y \in S : y <= x
  BY <1>2
<1>4. MaxOf(S) \in S \cup {0} /\ \A y \in S : y <= MaxOf(S)
  BY <1>3 DEF MaxOf
<1> QED
  BY <1>1, <1>4

(* MinOf is the least member of a set that has one.                        *)
LEMMA MinOfIs ==
  ASSUME NEW S \in SUBSET Nat, S # {}
  PROVE  MinOf(S) \in S /\ \A y \in S : MinOf(S) <= y
BY Least DEF MinOf

(* What the newest segment and the latest timeline of a path are.          *)
LEMMA PathEnds ==
  ASSUME NEW p \in Path
  PROVE  /\ Newest(p) \in 0..MaxPos
         /\ Latest(p) \in 1..MaxTl
<1>1. MaxTl \in Nat \ {0} /\ MaxPos \in Nat \ {0}
  BY ConstantsAssumption
<1>2. {s[2] : s \in p.segs} \in SUBSET (0..MaxPos)
  BY <1>1 DEF Path
<1>3. Newest(p) \in 0..MaxPos
  BY <1>1, <1>2, MaxOfIs DEF Newest
<1>4. {1} \cup p.hist \in SUBSET (0..MaxTl)
  BY <1>1 DEF Path
<1>5. /\ MaxOf({1} \cup p.hist) \in 0..MaxTl
      /\ \A y \in {1} \cup p.hist : y <= MaxOf({1} \cup p.hist)
  BY <1>1, <1>4, MaxOfIs
<1>6. Latest(p) \in 0..MaxTl /\ 1 <= Latest(p)
  BY <1>5 DEF Latest
<1> QED
  BY <1>1, <1>3, <1>6

(* No generation after the newest one holds anything.                      *)
LEMMA NewestGenIs ==
  ASSUME NEW b
  PROVE  /\ NewestGen(b) \in 0..MaxGen
         /\ \A g \in Gens : g > NewestGen(b) => Empty(b[g])
<1>1. MaxGen \in Nat \ {0}
  BY ConstantsAssumption
<1>2. {g \in Gens : ~Empty(b[g])} \in SUBSET (0..MaxGen)
  BY <1>1 DEF Gens
<1>3. /\ NewestGen(b) \in 0..MaxGen
      /\ \A y \in {g \in Gens : ~Empty(b[g])} : y <= NewestGen(b)
  BY <1>1, <1>2, MaxOfIs DEF NewestGen
<1> QED
  BY <1>1, <1>3 DEF Gens

-----------------------------------------------------------------------------
(* The inductive invariant.                                                *)

Proved   == {"bump", "bumpOverlay"}
Switchd  == {"backup", "backupProof"} \cup Proved
Unmarked == {"replication", "switch", "switchProof"} \cup Switchd
Opening  == {"archive", "marker"} \cup Unmarked
Running  == {"preflight", "cluster", "healthy"} \cup Opening

(* A segment on a timeline after that of another.                          *)
TwoTimelines(c) == \E s, t \in bucket[Archives(c.render)].segs : s[1] < t[1]

HasBackup(c) == c.id \in bucket[Archives(c.render)].base

(* The tree is the render's generation until the run bumps it; what a      *)
(* Stage proved stays so until the run is over.                            *)
RunInv ==
  /\ pc \in Running =>
       /\ Archives(render) \in Gens /\ tree.overlay = render.gen
       /\ pc # "bumpOverlay" => tree.base = render.gen
  /\ pc = "cluster" /\ cluster = {} => BucketsPass(render)
  /\ pc = "empty" => cluster = {} /\ ~live

StageInv(c) ==
  /\ pc \in Running \ {"preflight"} => c.render = render
  /\ pc \in Opening => c.healthy
  /\ pc \in Unmarked => c.marker = {}
  /\ pc \in Switchd => live \/ TwoTimelines(c)
  /\ pc \in Proved => HasBackup(c)

(* A Cluster alone writes its path, and what a finished run found stays.   *)
ClusterInv(c) ==
  /\ Archives(c.render) \in Gens
  /\ c.id <= created
  /\ c.healthy => c.tl >= 1 /\ c.pos >= 1
  /\ bucket[Archives(c.render)].by \subseteq {c.id}
  /\ live /\ c.render.mode = Recover =>
       /\ Archives(c.render) \in locked
       /\ \A g \in Gens : g > c.render.gen => bucket[g].by \subseteq {c.id}
  /\ <<c.id, "stages">> \in finished =>
       c.healthy /\ c.marker = {} /\ HasBackup(c) /\ (live \/ TwoTimelines(c))

(* A path somebody wrote is not empty, and only a Cluster that was created *)
(* was reported.                                                           *)
PathInv == \A g \in Gens : Empty(bucket[g]) => bucket[g].by = {}
DoneInv == \A i \in Ids : \A how \in {"stages", "built"} : <<i, how>> \in finished => i <= created

DInv ==
  /\ TypeOK
  /\ RunInv
  /\ PathInv
  /\ DoneInv
  /\ \A c \in cluster : StageInv(c) /\ ClusterInv(c)

(* The bounds are numbers, at least one.                                   *)
LEMMA Bounds ==
  /\ MaxGen \in Nat \ {0} /\ MaxPos \in Nat \ {0} /\ MaxTl \in Nat \ {0}
  /\ MaxIds \in Nat \ {0} /\ MaxStops \in Nat \ {0} /\ Projects \subseteq BOOLEAN
BY ConstantsAssumption

-----------------------------------------------------------------------------
(* Types.                                                                  *)

(* The steps of a run keep the types.                                      *)
LEMMA StepTypes == ASSUME DInv, Step PROVE TypeOK'
<1> USE Bounds DEF DInv, TypeOK, repoVars, cloudVars, project, runVars, Go, End, Steps, Waits
<1>0. NoRender \in Render /\ 0 \in 0..MaxPos
  BY DEF NoRender, Render, Gens, Fresh
<1>1. CASE PreflightResumes
  BY <1>1 DEF PreflightResumes
<1>2. CASE Preflight
  <2>1. Src \in [Gens -> Path]
    BY DEF Src
  <2>2. render.mode = Recover => render.gen \in Gens
    BY DEF Render
  <2>3. seen' \in 0..MaxPos
    <3>1. CASE render.mode = Recover
      <4>1. Src[render.gen] \in Path
        BY <2>1, <2>2, <3>1
      <4> QED
        BY <1>2, <3>1, <4>1, PathEnds DEF Preflight
    <3>2. CASE render.mode # Recover
      BY <1>2, <3>2 DEF Preflight
    <3> QED
      BY <3>1, <3>2
  <2> QED
    BY <1>2, <2>3 DEF Preflight
<1>3. CASE ApplyCluster
  <2>1. ASSUME created < MaxIds PROVE NewCluster \in Cluster
    <3>1. created + 1 \in 1..MaxIds /\ render \in Render
      BY <2>1
    <3> HIDE DEF DInv, TypeOK
    <3> QED
      BY <3>1 DEF NewCluster, Cluster, Ids, Instances
  <2>2. CASE UNCHANGED <<cluster, created>>
    BY <1>3, <2>2 DEF ApplyCluster
  <2>3. CASE created < MaxIds /\ created' = created + 1 /\ cluster' = {NewCluster}
    BY <1>3, <2>1, <2>3 DEF ApplyCluster
  <2> QED
    BY <1>3, <2>2, <2>3 DEF ApplyCluster
<1>4. CASE Healthy \/ ArchiveStage \/ Marker \/ Replication \/ SwitchProof
  BY <1>4 DEF Healthy, ArchiveStage, Marker, Replication, SwitchProof, Wait
<1>5. CASE Switchover
  <2>1. ASSUME NEW c \in cluster, c.tl < MaxTl
        PROVE  [c EXCEPT !.primary = 2, !.tl = @ + 1, !.streams = FALSE] \in Cluster
    <3>1. c \in Cluster /\ c.tl + 1 \in 0..MaxTl
      BY <2>1 DEF Cluster
    <3> HIDE DEF DInv, TypeOK
    <3> QED
      BY <3>1 DEF Cluster, Instances
  <2>2. cluster' \subseteq Cluster /\ \A c, d \in cluster' : c = d
    BY <1>5, <2>1 DEF Switchover
  <2> QED
    BY <1>5, <2>2 DEF Switchover
<1>6. CASE FirstBackup
  <2>1. \A c \in cluster : c.id \in Ids
    BY DEF Cluster
  <2>2. backups' \subseteq [of : Ids, phase : Phases]
    BY <1>6, <2>1 DEF FirstBackup, Phases
  <2> QED
    BY <1>6, <2>2 DEF FirstBackup
<1>7. CASE BackupProof
  <2>1. \A c \in cluster : c.id \in Ids
    BY DEF Cluster
  <2>2. finished' \subseteq Ids \X {"stages", "built"}
    BY <1>7, <2>1 DEF BackupProof, Done
  <2> QED
    BY <1>0, <1>7, <2>2 DEF BackupProof, Done
<1>8. CASE Bump
  <2>1. tree.base \in 1..MaxGen
    BY <1>8 DEF Bump, RunInv, Running, Opening, Unmarked, Switchd, Proved, Render, Gens
  <2>2. tree' \in Generations
    BY <1>8, <2>1 DEF Bump, Generations
  <2> QED
    BY <1>8, <2>2 DEF Bump
<1>9. CASE BumpOverlay
  <2>1. tree.overlay \in 1..MaxGen
    BY <1>9 DEF BumpOverlay, RunInv, Running, Opening, Unmarked, Switchd, Proved, Render, Gens
  <2>2. tree' \in Generations
    BY <1>9, <2>1 DEF BumpOverlay, Generations
  <2>3. \A c \in cluster : c.id \in Ids
    BY DEF Cluster
  <2>4. finished' \subseteq Ids \X {"stages", "built"}
    BY <1>9, <2>3 DEF BumpOverlay, Done
  <2> QED
    BY <1>0, <1>9, <2>2, <2>4 DEF BumpOverlay, Done
<1>10. CASE DownBucket
  <2>1. Nothing \in Path
    BY DEF Nothing, Path
  <2> QED
    BY <1>0, <1>10, <2>1 DEF DownBucket
<1>11. CASE Refuse
  BY <1>0, <1>11 DEF Refuse
<1> QED
  BY <1>1, <1>2, <1>3, <1>4, <1>5, <1>6, <1>7, <1>8, <1>9, <1>10, <1>11 DEF Step

(* So do a start, a stop, the operator and kluster down.                   *)
LEMMA OtherTypes == ASSUME DInv, Start \/ Stop \/ Operator \/ DownProject PROVE TypeOK'
<1> USE Bounds DEF DInv, TypeOK, repoVars, cloudVars, project, runVars, Go, End, Steps, Waits,
        ByHand, Fault
<1>0. NoRender \in Render /\ 0 \in 0..MaxPos
  BY DEF NoRender, Render, Gens, Fresh
<1>1. ASSUME NEW mode \in {Fresh, Recover}, NEW target \in BOOLEAN, Begin(RenderOf(mode, target))
      PROVE  TypeOK'
  <2>1. RenderOf(mode, target) \in Render
    <3>1. tree.base \in 1..(MaxGen + 1)
      BY DEF Generations
    <3>2. tree.base \in Gens
      BY <1>1, <3>1 DEF Begin, Clean, RenderOf, Archives, Gens, Fresh, Recover
    <3> HIDE DEF DInv, TypeOK
    <3> QED
      BY <3>2 DEF RenderOf, Render
  <2> QED
    BY <1>1, <2>1 DEF Begin
<1>2. ASSUME NEW mode, NEW target, UpBuilt(mode, target) PROVE TypeOK'
  <2>1. \A c \in cluster : c.id \in Ids
    BY DEF Cluster
  <2>2. finished' \subseteq Ids \X {"stages", "built"}
    BY <1>2, <2>1 DEF UpBuilt
  <2> QED
    BY <1>2, <2>2 DEF UpBuilt
<1>3. CASE Stop
  BY <1>0, <1>3 DEF Stop
<1>4. CASE DeleteCluster
  BY <1>4 DEF DeleteCluster
<1>5. CASE Commit \/ Discard
  BY <1>5 DEF Commit, Discard
<1>6. CASE BumpByHand
  <2>1. NewestGen(Src) \in 1..MaxGen
    <3>1. NewestGen(Src) \in 0..MaxGen /\ tree.base \in Nat
      BY NewestGenIs DEF Generations
    <3> QED
      BY <1>6, <3>1 DEF BumpByHand
  <2>2. tree' \in Generations
    BY <1>6, <2>1 DEF BumpByHand, Generations
  <2> QED
    BY <1>6, <2>2 DEF BumpByHand
<1>7. CASE AddLockRule
  BY <1>7 DEF AddLockRule
<1>8. CASE DeleteBackup
  BY <1>8 DEF DeleteBackup
<1>9. CASE DownProject
  BY <1>9 DEF DownProject
<1> QED
  BY <1>1, <1>2, <1>3, <1>4, <1>5, <1>6, <1>7, <1>8, <1>9 DEF Start, DbCreate, Up, Operator

(* CloudNativePG keeps the types.                                          *)
LEMMA CloudTypes == ASSUME DInv, CloudNativePG PROVE TypeOK'
<1> USE Bounds DEF TypeOK, repoVars, project, runVars, CloudOnly, Fault
<1>0. TypeOK
  BY DEF DInv
<1>a. ASSUME NEW c \in cluster
      PROVE  /\ c \in Cluster /\ c.render \in Render /\ c.id \in Ids
             /\ c.tl \in 0..MaxTl /\ c.pos \in 0..(MaxPos + 1)
             /\ c.primary \in Instances /\ c.marker \in SUBSET Instances
             /\ Archives(c.render) \in Gens /\ c.render.gen \in Gens
  BY <1>0 DEF DInv, ClusterInv, Cluster, Render
<1>1. CASE Bootstrap
  <2>1. ASSUME NEW c \in cluster, NEW tl \in Nat, NEW n \in Nat, Opens(c, tl, n)
        PROVE  cluster' \subseteq Cluster /\ \A d, e \in cluster' : d = e
    <3>1. tl \in 0..MaxTl /\ n \in 0..(MaxPos + 1)
      BY <2>1 DEF Opens
    <3>2. [c EXCEPT !.healthy = TRUE, !.marker = Instances, !.tl = tl, !.pos = n] \in Cluster
      <4> HIDE DEF TypeOK
      <4> QED
        BY <1>a, <2>1, <3>1, ZenonT(60) DEF Cluster, Instances
    <3> QED
      BY <2>1, <3>2 DEF Opens
  <2>2. PICK c \in cluster : ~c.healthy /\ LET from == Src[c.render.gen] IN
            \/ Opens(c, 1, 1) /\ UNCHANGED stops
            \/ Opens(c, Latest(from) + 1, Newest(from) + 1) /\ UNCHANGED stops
            \/ (\E n \in 1..Newest(from) : Opens(c, Latest(from) + 1, n)) /\ UNCHANGED stops
            \/ Fault /\ \E n \in 1..(Newest(from) - 1) : Opens(c, Latest(from) + 1, n)
    BY <1>1 DEF Bootstrap
  <2>3. Src[c.render.gen] \in Path
    BY <1>0, <1>a DEF Src
  <2>4. Latest(Src[c.render.gen]) \in Nat /\ Newest(Src[c.render.gen]) \in Nat
    BY <2>3, PathEnds
  <2>5. \E tl \in Nat, n \in Nat : Opens(c, tl, n)
    BY <2>2, <2>4
  <2>6. cluster' \subseteq Cluster /\ \A d, e \in cluster' : d = e
    BY <2>1, <2>5
  <2>7. stops' \in 0..MaxStops
    BY <1>0, <2>2
  <2> QED
    BY <1>0, <1>1, <2>6, <2>7 DEF Bootstrap
<1>2. CASE ArchiveWAL
  <2>1. PICK c \in cluster : LET g == Archives(c.render) IN
       /\ c.healthy /\ ~Blocked(c)
       /\ \/ /\ c.tl > 1
             /\ bucket' = [bucket EXCEPT ![g].hist = @ \cup {c.tl}, ![g].by = @ \cup {c.id}]
             /\ cluster' = {[c EXCEPT !.marker = @ \ {c.primary}]}
          \/ /\ c.pos <= MaxPos
             /\ bucket' = [bucket EXCEPT ![g].segs = @ \cup {<<c.tl, c.pos>>}, ![g].by = @ \cup {c.id}]
             /\ cluster' = {[c EXCEPT !.marker = @ \ {c.primary}, !.pos = @ + 1]}
    BY <1>2 DEF ArchiveWAL
  <2> DEFINE g == Archives(c.render)
  <2>2. c.tl \in 1..MaxTl /\ c.pos \in 1..(MaxPos + 1)
    <3>1. ClusterInv(c) /\ c.healthy
      BY <2>1 DEF DInv
    <3>2. c.tl >= 1 /\ c.pos >= 1
      BY <3>1 DEF ClusterInv
    <3> HIDE DEF TypeOK
    <3> QED
      BY <1>a, <3>2
  <2>3. bucket[g] \in Path /\ c.id \in Nat
    BY <1>0, <1>a DEF Ids
  <2>4. [c EXCEPT !.marker = @ \ {c.primary}] \in Cluster
    <3> HIDE DEF TypeOK
    <3> QED
      BY <1>a DEF Cluster, Instances
  <2>5. c.pos <= MaxPos => [c EXCEPT !.marker = @ \ {c.primary}, !.pos = @ + 1] \in Cluster
    <3> HIDE DEF TypeOK
    <3> QED
      <4>1. c.pos <= MaxPos => c.pos + 1 \in 0..(MaxPos + 1)
        BY <2>2
      <4> QED
        BY <1>a, <4>1 DEF Cluster
  <2>6. cluster' \subseteq Cluster /\ \A d, e \in cluster' : d = e
    BY <2>1, <2>4, <2>5
  <2>7. bucket' \in [Gens -> Path]
    <3> HIDE DEF g
    <3>1. [bucket[g] EXCEPT !.hist = @ \cup {c.tl}, !.by = @ \cup {c.id}] \in Path
      BY <2>2, <2>3 DEF Path
    <3>2. c.pos <= MaxPos =>
            [bucket[g] EXCEPT !.segs = @ \cup {<<c.tl, c.pos>>}, !.by = @ \cup {c.id}] \in Path
      <4>1. c.pos <= MaxPos => <<c.tl, c.pos>> \in (1..MaxTl) \X (1..MaxPos)
        BY <2>2
      <4> HIDE DEF TypeOK
      <4> QED
        BY <2>3, <4>1 DEF Path
    <3>3. \/ bucket' = [bucket EXCEPT ![g] = [bucket[g] EXCEPT !.hist = @ \cup {c.tl}, !.by = @ \cup {c.id}]]
          \/ /\ c.pos <= MaxPos
             /\ bucket' = [bucket EXCEPT ![g] =
                  [bucket[g] EXCEPT !.segs = @ \cup {<<c.tl, c.pos>>}, !.by = @ \cup {c.id}]]
      BY <2>1, <1>0, <1>a DEF g
    <3> QED
      BY <1>0, <3>1, <3>2, <3>3
  <2> QED
    BY <1>0, <1>2, <2>6, <2>7 DEF ArchiveWAL
<1>3. CASE StandbyReady
  <2>1. PICK c \in cluster, i \in Instances :
          cluster' = {[c EXCEPT !.marker = @ \ {i}, !.streams = TRUE]}
    BY <1>3 DEF StandbyReady
  <2>2. [c EXCEPT !.marker = @ \ {i}, !.streams = TRUE] \in Cluster
    <3> HIDE DEF TypeOK
    <3> QED
      BY <1>a DEF Cluster
  <2> QED
    BY <1>0, <1>3, <2>1, <2>2 DEF StandbyReady
<1>4. CASE Failover
  <2>1. PICK c \in cluster : c.tl < MaxTl /\
          cluster' = {[c EXCEPT !.primary = 3 - @, !.tl = @ + 1, !.streams = FALSE]}
    BY <1>4 DEF Failover
  <2>2. [c EXCEPT !.primary = 3 - @, !.tl = @ + 1, !.streams = FALSE] \in Cluster
    <3>1. c.tl + 1 \in 0..MaxTl /\ 3 - c.primary \in Instances
      BY <1>a, <2>1 DEF Instances
    <3> HIDE DEF TypeOK
    <3> QED
      BY <1>a, <3>1 DEF Cluster
  <2> QED
    BY <1>0, <1>4, <2>1, <2>2 DEF Failover
<1>5. CASE BackupEnds
  <2>1. PICK c \in cluster, b \in backups :
       \/ /\ backups' = (backups \ {b}) \cup {[b EXCEPT !.phase = "completed"]}
          /\ bucket' = [bucket EXCEPT ![Archives(c.render)].base = @ \cup {c.id}]
          /\ UNCHANGED stops
       \/ /\ Fault
          /\ backups' = (backups \ {b}) \cup {[b EXCEPT !.phase = "failed"]}
          /\ UNCHANGED bucket
    BY <1>5 DEF BackupEnds
  <2>2. backups' \subseteq [of : Ids, phase : Phases]
    <3>1. b \in [of : Ids, phase : Phases]
      BY <1>0
    <3>2. /\ [b EXCEPT !.phase = "completed"] \in [of : Ids, phase : Phases]
          /\ [b EXCEPT !.phase = "failed"] \in [of : Ids, phase : Phases]
      <4> HIDE DEF TypeOK
      <4> QED
        BY <3>1 DEF Phases
    <3> QED
      BY <1>0, <2>1, <3>2
  <2>3. bucket' \in [Gens -> Path]
    <3> DEFINE g == Archives(c.render)
    <3>1. g \in Gens /\ bucket[g] \in Path /\ c.id \in Nat
      BY <1>0, <1>a DEF Ids
    <3> HIDE DEF g
    <3>2. [bucket[g] EXCEPT !.base = @ \cup {c.id}] \in Path
      BY <3>1 DEF Path
    <3>3. bucket' = [bucket EXCEPT ![g] = [bucket[g] EXCEPT !.base = @ \cup {c.id}]] \/ bucket' = bucket
      BY <1>0, <2>1, <3>1 DEF g
    <3> QED
      BY <1>0, <3>1, <3>2, <3>3
  <2> QED
    BY <1>0, <1>5, <2>1, <2>2, <2>3 DEF BackupEnds
<1> QED
  BY <1>1, <1>2, <1>3, <1>4, <1>5 DEF CloudNativePG

(* Every step keeps the types.                                             *)
LEMMA TypesKept == DInv /\ [Next]_vars => TypeOK'
<1>1. DInv /\ UNCHANGED vars => TypeOK'
  BY DEF DInv, TypeOK, vars, repoVars, cloudVars, project, runVars
<1> QED
  BY <1>1, StepTypes, OtherTypes, CloudTypes DEF Next

-----------------------------------------------------------------------------
(* Steps of CloudNativePG.                                                 *)

(* The Cluster d a step makes of c, over paths to which only c adds.       *)
LEMMA Grown ==
  ASSUME NEW c, NEW d, StageInv(c), ClusterInv(c),
         d.id = c.id, d.render = c.render,
         c.healthy => d.healthy /\ (c.marker = {} => d.marker = {}),
         d.healthy => d.tl >= 1 /\ d.pos >= 1,
         \A g \in Gens : /\ bucket[g].segs \subseteq bucket'[g].segs
                        /\ bucket[g].base \subseteq bucket'[g].base
                        /\ bucket'[g].by \subseteq bucket[g].by \cup {c.id},
         UNCHANGED <<live, locked, created, finished, render>>,
         pc' = pc \/ (pc = "switch" /\ pc' = "switchProof")
  PROVE  StageInv(d)' /\ ClusterInv(d)'
<1>1. Archives(c.render) \in Gens /\ Archives(d.render) = Archives(c.render)
  BY DEF ClusterInv
<1>2. HasBackup(c) => HasBackup(d)'
  BY <1>1 DEF HasBackup
<1>3. TwoTimelines(c) => TwoTimelines(d)'
  BY <1>1 DEF TwoTimelines
<1>4. StageInv(d)'
  BY <1>2, <1>3 DEF StageInv, Running, Opening, Unmarked, Switchd, Proved
<1>5. bucket'[Archives(d.render)].by \subseteq {d.id}
  BY <1>1 DEF ClusterInv
<1>6. live' /\ d.render.mode = Recover =>
        /\ Archives(d.render) \in locked'
        /\ \A g \in Gens : g > d.render.gen => bucket'[g].by \subseteq {d.id}
  BY DEF ClusterInv
<1>7. <<d.id, "stages">> \in finished' =>
        d.healthy /\ d.marker = {} /\ HasBackup(d)' /\ (live' \/ TwoTimelines(d)')
  BY <1>2, <1>3 DEF ClusterInv
<1> QED
  BY <1>1, <1>4, <1>5, <1>6, <1>7 DEF ClusterInv

(* The parts of the invariant that are not about the Cluster itself.       *)
LEMMA CloudRest ==
  ASSUME DInv, CloudOnly, cluster # {}, cluster' # {},
         \A g \in Gens : Empty(bucket'[g]) => bucket'[g].by = {}
  PROVE  RunInv' /\ PathInv' /\ DoneInv'
<1>1. RunInv'
  BY DEF DInv, RunInv, CloudOnly, repoVars, runVars, Archives
<1>2. PathInv' /\ DoneInv'
  BY DEF DInv, PathInv, DoneInv, CloudOnly
<1> QED
  BY <1>1, <1>2

(* What a Cluster archives goes to its own path, under its name: a segment *)
(* or a timeline's history.                                                *)
WALIn(g, id) ==
  /\ \A h \in Gens \ {g} : bucket'[h] = bucket[h]
  /\ bucket'[g].segs # {} \/ bucket'[g].hist # {}
  /\ bucket[g].segs \subseteq bucket'[g].segs /\ bucket'[g].base = bucket[g].base
  /\ bucket'[g].by = bucket[g].by \cup {id}

LEMMA WALWritten ==
  ASSUME DInv, ArchiveWAL
  PROVE  \E c, d :
           /\ cluster = {c} /\ cluster' = {d} /\ c.healthy
           /\ d.id = c.id /\ d.render = c.render /\ d.healthy = c.healthy /\ d.tl = c.tl
           /\ d.pos \in {c.pos, c.pos + 1} /\ d.marker = c.marker \ {c.primary}
           /\ Archives(c.render) \in Gens
           /\ WALIn(Archives(c.render), c.id)
<1>1. PICK c \in cluster : LET g == Archives(c.render) IN
     /\ c.healthy
     /\ \/ /\ bucket' = [bucket EXCEPT ![g].hist = @ \cup {c.tl}, ![g].by = @ \cup {c.id}]
           /\ cluster' = {[c EXCEPT !.marker = @ \ {c.primary}]}
        \/ /\ bucket' = [bucket EXCEPT ![g].segs = @ \cup {<<c.tl, c.pos>>}, ![g].by = @ \cup {c.id}]
           /\ cluster' = {[c EXCEPT !.marker = @ \ {c.primary}, !.pos = @ + 1]}
  BY DEF ArchiveWAL
<1> DEFINE g == Archives(c.render)
<1>2. c \in Cluster /\ ClusterInv(c) /\ cluster = {c}
  BY DEF DInv, TypeOK
<1>3. g \in Gens /\ bucket \in [Gens -> Path]
  BY <1>2 DEF ClusterInv, DInv, TypeOK
<1>4. PICK d : /\ cluster' = {d}
               /\ d.id = c.id /\ d.render = c.render /\ d.healthy = c.healthy /\ d.tl = c.tl
               /\ d.pos \in {c.pos, c.pos + 1} /\ d.marker = c.marker \ {c.primary}
  <2>1. CASE cluster' = {[c EXCEPT !.marker = @ \ {c.primary}]}
    <3> DEFINE d == [c EXCEPT !.marker = @ \ {c.primary}]
    <3>1. /\ d.id = c.id /\ d.render = c.render /\ d.healthy = c.healthy /\ d.tl = c.tl
          /\ d.pos \in {c.pos, c.pos + 1} /\ d.marker = c.marker \ {c.primary}
      BY <1>2 DEF Cluster
    <3>2. cluster' = {d}
      BY <2>1
    <3> HIDE DEF d
    <3> QED
      BY <3>1, <3>2
  <2>2. CASE cluster' = {[c EXCEPT !.marker = @ \ {c.primary}, !.pos = @ + 1]}
    <3> DEFINE d == [c EXCEPT !.marker = @ \ {c.primary}, !.pos = @ + 1]
    <3>1. /\ d.id = c.id /\ d.render = c.render /\ d.healthy = c.healthy /\ d.tl = c.tl
          /\ d.pos \in {c.pos, c.pos + 1} /\ d.marker = c.marker \ {c.primary}
      BY <1>2 DEF Cluster
    <3>2. cluster' = {d}
      BY <2>2
    <3> HIDE DEF d
    <3> QED
      BY <3>1, <3>2
  <2> QED
    BY <1>1, <2>1, <2>2
<1>5. WALIn(g, c.id)
  <2> HIDE DEF g
  <2>1. bucket[g] \in Path
    BY <1>3
  <2>2. CASE bucket' = [bucket EXCEPT ![g].hist = @ \cup {c.tl}, ![g].by = @ \cup {c.id}]
    BY <1>3, <2>1, <2>2 DEF Path, WALIn
  <2>3. CASE bucket' = [bucket EXCEPT ![g].segs = @ \cup {<<c.tl, c.pos>>}, ![g].by = @ \cup {c.id}]
    BY <1>3, <2>1, <2>3 DEF Path, WALIn
  <2> QED
    BY <1>1, <2>2, <2>3 DEF g
<1> QED
  BY <1>1, <1>2, <1>3, <1>4, <1>5

(* A backup that ends adds at most its base backup to the Cluster's path.  *)
BaseIn(g, id) ==
  \A h \in Gens : /\ bucket'[h].segs = bucket[h].segs /\ bucket'[h].hist = bucket[h].hist
                  /\ bucket'[h].by = bucket[h].by
                  /\ bucket[h].base \subseteq bucket'[h].base
                  /\ h = g => bucket'[h].base \subseteq bucket[h].base \cup {id}

LEMMA BaseWritten ==
  ASSUME DInv, BackupEnds
  PROVE  \E c \in cluster : cluster = {c} /\ UNCHANGED cluster /\ BaseIn(Archives(c.render), c.id)
<1>1. PICK c \in cluster : UNCHANGED cluster /\
        (UNCHANGED bucket \/ bucket' = [bucket EXCEPT ![Archives(c.render)].base = @ \cup {c.id}])
  BY DEF BackupEnds
<1> DEFINE g == Archives(c.render)
<1>2. cluster = {c} /\ g \in Gens /\ bucket \in [Gens -> Path]
  BY DEF DInv, TypeOK, ClusterInv
<1>3. \A h \in Gens : bucket[h] \in Path
  BY <1>2
<1>4. BaseIn(g, c.id)
  <2> HIDE DEF g
  <2>1. CASE bucket' = [bucket EXCEPT ![g].base = @ \cup {c.id}]
    BY <1>2, <1>3, <2>1 DEF Path, BaseIn
  <2>2. CASE UNCHANGED bucket
    BY <2>2 DEF BaseIn
  <2> QED
    BY <1>1, <2>1, <2>2 DEF g
<1> QED
  BY <1>1, <1>2, <1>4

(* CloudNativePG keeps the invariant.                                      *)
LEMMA CloudStep == ASSUME DInv, CloudNativePG PROVE DInv'
<1>1. TypeOK'
  BY CloudTypes, Zenon
<1>0. UNCHANGED <<live, locked, created, finished, pc, render>>
  BY DEF CloudNativePG, Bootstrap, ArchiveWAL, StandbyReady, Failover, BackupEnds, CloudOnly,
     project, runVars
<1>a. ASSUME NEW c \in cluster
      PROVE  /\ c \in Cluster /\ c.id \in Ids /\ c.tl \in 0..MaxTl /\ c.pos \in 0..(MaxPos + 1)
             /\ c.marker \subseteq Instances /\ StageInv(c) /\ ClusterInv(c)
             /\ \A d \in cluster : d = c
  BY DEF DInv, TypeOK, Cluster
<1>b. \A g \in Gens : bucket[g] \in Path /\ (Empty(bucket[g]) => bucket[g].by = {})
  BY DEF DInv, TypeOK, PathInv
<1>2. ASSUME NEW c \in cluster, NEW d, cluster' = {d}, UNCHANGED bucket, CloudOnly,
             d.id = c.id, d.render = c.render,
             c.healthy => d.healthy /\ (c.marker = {} => d.marker = {}),
             d.healthy => d.tl >= 1 /\ d.pos >= 1
      PROVE  DInv'
  <2>1. \A g \in Gens : Empty(bucket'[g]) => bucket'[g].by = {}
    BY <1>2, <1>b
  <2>2. RunInv' /\ PathInv' /\ DoneInv'
    BY <1>2, <2>1, CloudRest
  <2>3. StageInv(d)' /\ ClusterInv(d)'
    BY <1>0, <1>2, <1>a, Grown
  <2> QED
    BY <1>1, <1>2, <2>2, <2>3 DEF DInv
<1>3. CASE Bootstrap
  <2>1. PICK c \in cluster, tl \in Nat, n \in Nat : ~c.healthy /\ Opens(c, tl, n) /\ tl >= 1 /\ n >= 1
    <3>1. PICK c \in cluster : ~c.healthy /\ LET from == Src[c.render.gen] IN
              \/ Opens(c, 1, 1)
              \/ Opens(c, Latest(from) + 1, Newest(from) + 1)
              \/ \E n \in 1..Newest(from) : Opens(c, Latest(from) + 1, n)
              \/ \E n \in 1..(Newest(from) - 1) : Opens(c, Latest(from) + 1, n)
      BY <1>3 DEF Bootstrap
    <3>2. Src[c.render.gen] \in Path
      <4>1. c.render.gen \in Gens
        BY DEF DInv, TypeOK, Cluster, Render
      <4> QED
        BY <4>1 DEF DInv, TypeOK, Src
    <3>3. Latest(Src[c.render.gen]) \in Nat /\ Newest(Src[c.render.gen]) \in Nat
      BY <3>2, PathEnds, Bounds
    <3> QED
      BY <3>1, <3>3
  <2> DEFINE d == [c EXCEPT !.healthy = TRUE, !.marker = Instances, !.tl = tl, !.pos = n]
  <2>2. cluster' = {d}
    BY <2>1 DEF Opens
  <2>3. d.id = c.id /\ d.render = c.render /\ d.healthy /\ d.tl = tl /\ d.pos = n
    BY <1>a DEF Cluster
  <2> HIDE DEF d
  <2> QED
    BY <1>2, <1>3, <2>1, <2>2, <2>3 DEF Bootstrap
<1>4. CASE StandbyReady
  <2>1. PICK c \in cluster, i \in Instances :
          c.healthy /\ cluster' = {[c EXCEPT !.marker = @ \ {i}, !.streams = TRUE]}
    BY <1>4 DEF StandbyReady
  <2> DEFINE d == [c EXCEPT !.marker = @ \ {i}, !.streams = TRUE]
  <2>2. /\ d.id = c.id /\ d.render = c.render /\ d.healthy = c.healthy /\ d.tl = c.tl
        /\ d.pos = c.pos /\ d.marker = c.marker \ {i}
    BY <1>a DEF Cluster
  <2>3. d.tl >= 1 /\ d.pos >= 1
    BY <1>a, <2>1, <2>2 DEF ClusterInv
  <2> HIDE DEF d
  <2>4. cluster' = {d}
    BY <2>1 DEF d
  <2>5. c.marker = {} => d.marker = {}
    BY <2>2
  <2>6. UNCHANGED bucket /\ CloudOnly
    BY <1>4 DEF StandbyReady
  <2> QED
    BY <1>2, <2>2, <2>3, <2>4, <2>5, <2>6
<1>5. CASE Failover
  <2>1. PICK c \in cluster : c.healthy /\
          cluster' = {[c EXCEPT !.primary = 3 - @, !.tl = @ + 1, !.streams = FALSE]}
    BY <1>5 DEF Failover
  <2> DEFINE d == [c EXCEPT !.primary = 3 - @, !.tl = @ + 1, !.streams = FALSE]
  <2>2. /\ d.id = c.id /\ d.render = c.render /\ d.healthy = c.healthy /\ d.tl = c.tl + 1
        /\ d.pos = c.pos /\ d.marker = c.marker
    BY <1>a DEF Cluster
  <2>3. d.tl >= 1 /\ d.pos >= 1
    <3>1. ClusterInv(c) /\ c.healthy
      BY <1>a, <2>1
    <3>2. c.tl >= 1 /\ c.pos >= 1
      BY <3>1 DEF ClusterInv
    <3>3. c.tl \in Nat
      BY <1>a, Bounds
    <3> HIDE DEF d
    <3> QED
      BY <2>2, <3>2, <3>3
  <2> HIDE DEF d
  <2>4. cluster' = {d}
    BY <2>1 DEF d
  <2> QED
    BY <1>2, <1>5, <2>1, <2>2, <2>3, <2>4, ZenonT(60) DEF Failover
<1>6. CASE ArchiveWAL
  <2>1. PICK c, d :
          /\ cluster = {c} /\ cluster' = {d} /\ c.healthy
          /\ d.id = c.id /\ d.render = c.render /\ d.healthy = c.healthy /\ d.tl = c.tl
          /\ d.pos \in {c.pos, c.pos + 1} /\ d.marker = c.marker \ {c.primary}
          /\ Archives(c.render) \in Gens
          /\ WALIn(Archives(c.render), c.id)
    BY <1>6, WALWritten
  <2> DEFINE g == Archives(c.render)
  <2>2. StageInv(c) /\ ClusterInv(c) /\ c.tl >= 1 /\ c.pos >= 1 /\ c.pos \in Nat
    BY <1>a, <2>1, Bounds DEF ClusterInv
  <2>4. cluster' = {d} /\ d.pos >= 1
    BY <2>1, <2>2
  <2>5. g \in Gens /\ WALIn(g, c.id)
    BY <2>1
  <2> HIDE DEF g
  <2>6. \A h \in Gens : Empty(bucket'[h]) => bucket'[h].by = {}
    BY <1>b, <2>5 DEF Empty, WALIn
  <2>7. RunInv' /\ PathInv' /\ DoneInv'
    BY <1>6, <2>4, <2>6, CloudRest DEF ArchiveWAL
  <2>8. \A h \in Gens : /\ bucket[h].segs \subseteq bucket'[h].segs
                       /\ bucket[h].base \subseteq bucket'[h].base
                       /\ bucket'[h].by \subseteq bucket[h].by \cup {c.id}
    BY <2>5 DEF WALIn
  <2>9. StageInv(d)' /\ ClusterInv(d)'
    BY <1>0, <2>1, <2>2, <2>4, <2>8, Grown
  <2> QED
    BY <1>1, <2>4, <2>7, <2>9 DEF DInv
<1>7. CASE BackupEnds
  <2>1. PICK c \in cluster : cluster = {c} /\ UNCHANGED cluster /\ BaseIn(Archives(c.render), c.id)
    BY <1>7, BaseWritten
  <2>2. /\ StageInv(c) /\ ClusterInv(c) /\ cluster' = {c}
        /\ c.healthy => c.tl >= 1 /\ c.pos >= 1
    BY <1>a, <2>1 DEF ClusterInv
  <2>4. \A h \in Gens : /\ bucket'[h].segs = bucket[h].segs /\ bucket'[h].hist = bucket[h].hist
                       /\ bucket[h].base \subseteq bucket'[h].base /\ bucket'[h].by = bucket[h].by
    BY <2>1 DEF BaseIn
  <2>5. \A h \in Gens : Empty(bucket'[h]) => bucket'[h].by = {}
    <3>1. ASSUME NEW h \in Gens, Empty(bucket'[h]) PROVE bucket'[h].by = {}
      <4>1. Empty(bucket[h])
        BY <2>4, <3>1 DEF Empty
      <4> QED
        BY <1>b, <2>4, <4>1
    <3> QED
      BY <3>1
  <2>6. RunInv' /\ PathInv' /\ DoneInv'
    BY <1>7, <2>1, <2>2, <2>5, CloudRest DEF BackupEnds
  <2>7. StageInv(c)' /\ ClusterInv(c)'
    BY <1>0, <2>2, <2>4, Grown
  <2> QED
    BY <1>1, <2>2, <2>6, <2>7 DEF DInv
<1> QED
  BY <1>3, <1>4, <1>5, <1>6, <1>7 DEF CloudNativePG

-----------------------------------------------------------------------------
(* Steps that leave the Cluster and its path alone.                        *)

(* Nothing a Cluster's invariant is about has changed.                     *)
LEMMA Untouched ==
  ASSUME DInv, UNCHANGED <<cluster, bucket, live, created, finished>>, locked \subseteq locked'
  PROVE  PathInv' /\ DoneInv' /\ \A c \in cluster' : ClusterInv(c)'
<1>1. PathInv' /\ DoneInv'
  BY DEF DInv, PathInv, DoneInv
<1>2. ASSUME NEW c \in cluster PROVE ClusterInv(c)'
  <2>1. ClusterInv(c)
    BY DEF DInv
  <2> QED
    BY <2>1 DEF ClusterInv, HasBackup, TwoTimelines
<1> QED
  BY <1>1, <1>2

(* A run that is over leaves the operator everything.                      *)
LEMMA Over ==
  ASSUME DInv, pc' = "idle", UNCHANGED <<cluster, bucket, live, created, finished>>,
         locked \subseteq locked', TypeOK'
  PROVE  DInv'
<1>1. RunInv'
  BY DEF RunInv, Running, Opening, Unmarked, Switchd, Proved
<1>2. \A c \in cluster' : StageInv(c)'
  BY DEF StageInv, Running, Opening, Unmarked, Switchd, Proved
<1> QED
  BY <1>1, <1>2, Untouched DEF DInv

(* A run that goes on to its next step, the Cluster as it is.              *)
LEMMA GoesOn ==
  ASSUME DInv, TypeOK', UNCHANGED <<cluster, bucket, live, created, finished, locked, render>>,
         RunInv', \A c \in cluster : StageInv(c)'
  PROVE  DInv'
BY Untouched DEF DInv

(* A start reads the tree.                                                 *)
LEMMA BeginStep ==
  ASSUME DInv, TypeOK', NEW mode, NEW target, Begin(RenderOf(mode, target))
  PROVE  DInv'
<1>1. UNCHANGED <<cluster, bucket, live, created, finished, locked>> /\ pc' = "preflight"
  BY DEF Begin, cloudVars, project
<1>2. RunInv'
  BY DEF Begin, Clean, RenderOf, RunInv, Archives, repoVars
<1>3. \A c \in cluster' : StageInv(c)'
  BY <1>1 DEF StageInv, Opening, Unmarked, Switchd, Proved
<1> QED
  BY <1>1, <1>2, <1>3, Untouched DEF DInv

(* The preflight: what it asks of the buckets holds at the apply as well.  *)
LEMMA PreflightStep == ASSUME DInv, TypeOK', Preflight \/ PreflightResumes PROVE DInv'
<1>1. /\ UNCHANGED <<cluster, bucket, live, source, created, finished, locked, render, tree>>
      /\ pc = "preflight" /\ pc' = "cluster"
  BY DEF Preflight, PreflightResumes, Go, repoVars, cloudVars, project, runVars
<1>2. cluster = {} => BucketsPass(render)
  BY DEF Preflight, PreflightResumes, Rendered
<1>3. RunInv'
  BY <1>1, <1>2 DEF DInv, RunInv, Running, BucketsPass, Archives, Src, NewestGen, Empty
<1>4. \A c \in cluster : c.render = render
  BY DEF DInv, TypeOK, Preflight, PreflightResumes, Rendered
<1>5. \A c \in cluster : StageInv(c)'
  BY <1>1, <1>4 DEF StageInv, Opening, Unmarked, Switchd, Proved
<1> QED
  BY <1>1, <1>3, <1>5, GoesOn

(* The Stages that wait.                                                   *)
LEMMA WaitStep ==
  ASSUME DInv, TypeOK', Healthy \/ ArchiveStage \/ Marker \/ Replication \/ SwitchProof
  PROVE  DInv'
<1>1. UNCHANGED <<cluster, bucket, live, created, finished, locked, render, tree>>
  BY DEF Healthy, ArchiveStage, Marker, Replication, SwitchProof, Wait, Go, repoVars, cloudVars,
     project, runVars
<1>2. /\ pc \in Running \ {"preflight", "cluster", "bumpOverlay"}
      /\ pc' \in Running \ {"preflight", "cluster", "bumpOverlay"}
  BY DEF Healthy, ArchiveStage, Marker, Replication, SwitchProof, Wait, Go, Running, Opening,
     Unmarked, Switchd, Proved
<1>3. RunInv'
  BY <1>1, <1>2 DEF DInv, RunInv, Archives, Running, Opening, Unmarked, Switchd, Proved
<1>4. ASSUME NEW c \in cluster PROVE StageInv(c)'
  <2>1. StageInv(c) /\ c.render = render /\ \A d \in cluster : d = c
    BY <1>2 DEF DInv, TypeOK, StageInv
  <2> USE DEF Running, Opening, Unmarked, Switchd, Proved, Wait, Go
  <2>2. CASE Healthy
    BY <1>1, <2>1, <2>2 DEF Healthy, StageInv
  <2>3. CASE ArchiveStage
    BY <1>1, <2>1, <2>3 DEF ArchiveStage, StageInv
  <2>4. CASE Marker
    BY <1>1, <2>1, <2>4 DEF Marker, StageInv
  <2>5. CASE Replication
    BY <1>1, <2>1, <2>5 DEF Replication, StageInv
  <2>6. CASE SwitchProof
    <3>1. TwoTimelines(c)
      <4> DEFINE p == bucket[Archives(c.render)]
      <4>1. p.segs # {} /\ Latest(p) > Lowest(p) /\ On(p, Latest(p)) # {} /\ p \in Path
        BY <2>1, <2>6 DEF SwitchProof, Switched, Own, DInv, ClusterInv, TypeOK
      <4> HIDE DEF p
      <4>2. PICK t \in p.segs : t[1] = Latest(p)
        BY <4>1 DEF On
      <4>3. {s[1] : s \in p.segs} \in SUBSET Nat /\ {s[1] : s \in p.segs} # {}
        BY <4>1 DEF Path
      <4>4. PICK s \in p.segs : s[1] = Lowest(p)
        BY <4>3, MinOfIs DEF Lowest
      <4>5. s[1] \in Nat /\ t[1] \in Nat
        BY <4>1 DEF Path
      <4>6. s[1] < t[1]
        BY <4>1, <4>2, <4>4, <4>5
      <4> QED
        BY <4>6 DEF TwoTimelines, p
    <3>2. TwoTimelines(c)'
      BY <1>1, <3>1 DEF TwoTimelines
    <3> QED
      BY <1>1, <2>1, <2>6, <3>2 DEF SwitchProof, StageInv
  <2> QED
    BY <2>2, <2>3, <2>4, <2>5, <2>6
<1> QED
  BY <1>1, <1>3, <1>4, GoesOn

(* The apply makes a Cluster of a new id over a path the preflight found   *)
(* empty, or leaves the render's as it is.                                 *)
LEMMA ApplyStep == ASSUME DInv, TypeOK', ApplyCluster PROVE DInv'
<1>1. /\ UNCHANGED <<bucket, live, finished, locked, render, tree>>
      /\ pc = "cluster" /\ pc' = "healthy"
  BY DEF ApplyCluster, Go, repoVars, project, runVars
<1>2. RunInv'
  BY <1>1 DEF DInv, RunInv, Archives, Running
<1>3. CASE Rendered(render) /\ UNCHANGED <<cluster, created>>
  <2>1. \A c \in cluster : c.render = render
    BY <1>3 DEF DInv, TypeOK, Rendered
  <2>2. \A c \in cluster : StageInv(c)'
    BY <1>1, <2>1 DEF StageInv, Opening, Unmarked, Switchd, Proved
  <2> QED
    BY <1>1, <1>2, <1>3, <2>2, GoesOn
<1>4. CASE cluster = {} /\ created < MaxIds /\ created' = created + 1 /\ cluster' = {NewCluster}
  <2>0. PICK d : d = NewCluster
    OBVIOUS
  <2>1. /\ d.id = created + 1 /\ d.render = render /\ ~d.healthy
        /\ created \in Nat /\ d.id \in Ids
    BY <1>4, <2>0, Bounds DEF NewCluster, DInv, TypeOK, Ids
  <2>2. Archives(render) \in Gens /\ BucketsPass(render) /\ render.gen \in Gens
    BY <1>1, <1>4 DEF DInv, RunInv, Running, TypeOK, Render
  <2>3. StageInv(d)'
    BY <1>1, <2>1 DEF StageInv, Opening, Unmarked, Switchd, Proved
  <2>4. bucket[Archives(render)].by = {}
    BY <2>2 DEF DInv, PathInv, BucketsPass
  <2>5. ASSUME live, render.mode = Recover
        PROVE  /\ Archives(render) \in locked
               /\ \A g \in Gens : g > render.gen => bucket[g].by = {}
    <3>1. NewestGen(bucket) = render.gen /\ Archives(render) \in locked
      BY <2>2, <2>5 DEF BucketsPass, Src
    <3>2. \A g \in Gens : g > render.gen => Empty(bucket[g])
      BY <3>1, NewestGenIs
    <3> QED
      BY <3>1, <3>2 DEF DInv, PathInv
  <2>6. <<d.id, "stages">> \notin finished
    <3>1. <<d.id, "stages">> \in finished => d.id <= created
      BY <2>1, Zenon DEF DInv, DoneInv
    <3> QED
      BY <2>1, <3>1
  <2>7. ClusterInv(d)'
    <3>1. Archives(d.render) = Archives(render) /\ created' = d.id /\ d.id <= d.id
      BY <1>4, <2>1, Bounds DEF Archives, Ids
    <3> QED
      BY <1>1, <2>1, <2>2, <2>4, <2>5, <2>6, <3>1 DEF ClusterInv
  <2>8. PathInv' /\ DoneInv'
    <3>1. PathInv'
      BY <1>1 DEF DInv, PathInv
    <3>2. ASSUME NEW i \in Ids, i <= created PROVE i <= created'
      BY <1>4, <2>1, <3>2, Bounds DEF Ids
    <3> QED
      BY <1>1, <3>1, <3>2 DEF DInv, DoneInv
  <2> QED
    BY <1>2, <1>4, <2>0, <2>3, <2>7, <2>8 DEF DInv
<1> QED
  BY <1>3, <1>4 DEF ApplyCluster

(* The switchover changes the primary and its timeline only.               *)
LEMMA SwitchoverStep == ASSUME DInv, TypeOK', Switchover PROVE DInv'
<1>1. /\ UNCHANGED <<bucket, live, created, finished, locked, render, tree>>
      /\ pc = "switch" /\ pc' = "switchProof"
  BY DEF Switchover, Go, repoVars, project, runVars
<1>2. PICK c \in cluster :
        \/ UNCHANGED cluster
        \/ c.healthy /\ cluster' = {[c EXCEPT !.primary = 2, !.tl = @ + 1, !.streams = FALSE]}
  BY DEF Switchover
<1>3. /\ c \in Cluster /\ c.tl \in Nat /\ StageInv(c) /\ ClusterInv(c) /\ cluster = {c}
      /\ c.healthy => c.tl >= 1 /\ c.pos >= 1
  <2>1. c \in Cluster /\ StageInv(c) /\ ClusterInv(c) /\ cluster = {c}
    BY DEF DInv, TypeOK
  <2>2. c.tl \in Nat
    BY <2>1, Bounds DEF Cluster
  <2> QED
    BY <2>1, <2>2 DEF ClusterInv
<1>4. PICK d : /\ cluster' = {d}
               /\ d.id = c.id /\ d.render = c.render /\ d.healthy = c.healthy
               /\ d.marker = c.marker /\ d.pos = c.pos /\ d.tl \in {c.tl, c.tl + 1}
  <2>1. CASE UNCHANGED cluster
    BY <1>3, <2>1
  <2>2. CASE cluster' = {[c EXCEPT !.primary = 2, !.tl = @ + 1, !.streams = FALSE]}
    <3> DEFINE d == [c EXCEPT !.primary = 2, !.tl = @ + 1, !.streams = FALSE]
    <3>1. /\ d.id = c.id /\ d.render = c.render /\ d.healthy = c.healthy
          /\ d.marker = c.marker /\ d.pos = c.pos /\ d.tl \in {c.tl, c.tl + 1}
      BY <1>3 DEF Cluster
    <3>2. cluster' = {d}
      BY <2>2
    <3> HIDE DEF d
    <3> QED
      BY <3>1, <3>2
  <2> QED
    BY <1>2, <2>1, <2>2
<1>5. d.healthy => d.tl >= 1 /\ d.pos >= 1
  BY <1>3, <1>4
<1>6. StageInv(d)' /\ ClusterInv(d)'
  BY <1>1, <1>3, <1>4, <1>5, Grown
<1>7. RunInv' /\ PathInv' /\ DoneInv'
  <2>1. RunInv'
    BY <1>1 DEF DInv, RunInv, Archives, Running, Opening, Unmarked
  <2> QED
    BY <1>1, <2>1 DEF DInv, PathInv, DoneInv
<1> QED
  BY <1>4, <1>6, <1>7 DEF DInv

(* What a run reports done: nothing but the Stages of its Cluster.         *)
LEMMA DoneStep ==
  ASSUME DInv, TypeOK', Done, pc \in Switchd, \A c \in cluster : HasBackup(c),
         UNCHANGED <<cluster, bucket, live, created, locked>>
  PROVE  DInv'
<1>1. pc' = "idle" /\ finished' = finished \cup {<<c.id, "stages">> : c \in cluster}
  BY DEF Done, End
<1>2. ASSUME NEW c \in cluster PROVE ClusterInv(c)'
  <2>1. ClusterInv(c) /\ StageInv(c) /\ HasBackup(c)
    BY DEF DInv
  <2>2. c.healthy /\ c.marker = {} /\ (live \/ TwoTimelines(c))
    BY <2>1 DEF StageInv, Opening, Unmarked, Switchd, Proved
  <2> QED
    BY <1>1, <2>1, <2>2 DEF ClusterInv, HasBackup, TwoTimelines
<1>3. DoneInv'
  <2>1. ASSUME NEW i \in Ids, NEW how \in {"stages", "built"}, <<i, how>> \in finished'
        PROVE  i <= created
    <3>1. <<i, how>> \in finished \/ \E c \in cluster : i = c.id
      BY <1>1, <2>1
    <3> QED
      BY <3>1 DEF DInv, DoneInv, ClusterInv
  <2> QED
    BY <2>1 DEF DoneInv
<1>4. RunInv' /\ PathInv' /\ \A c \in cluster : StageInv(c)'
  BY <1>1 DEF DInv, RunInv, PathInv, StageInv, Running, Opening, Unmarked, Switchd, Proved
<1> QED
  BY <1>2, <1>3, <1>4 DEF DInv

(* The first backup, its proof and the bump.                               *)
LEMMA BackupStep ==
  ASSUME DInv, TypeOK', FirstBackup \/ BackupProof \/ Bump \/ BumpOverlay
  PROVE  DInv'
<1> USE DEF Running, Opening, Unmarked, Switchd, Proved
<1>1. UNCHANGED <<cluster, bucket, live, created, locked>>
  BY DEF FirstBackup, BackupProof, Bump, BumpOverlay, cloudVars, project
<1>2. CASE FirstBackup
  <2>1. UNCHANGED <<finished, render, tree>> /\ pc = "backup" /\ pc' = "backupProof"
    BY <1>2 DEF FirstBackup, Go, repoVars, runVars
  <2>2. RunInv'
    BY <1>1, <2>1 DEF DInv, RunInv, Archives
  <2>3. \A c \in cluster : StageInv(c)'
    BY <1>1, <2>1 DEF DInv, StageInv, TwoTimelines
  <2> QED
    BY <1>1, <2>1, <2>2, <2>3, GoesOn
<1>3. CASE BackupProof
  <2>1. pc = "backupProof" /\ \A c \in cluster : HasBackup(c)
    <3>1. \A c \in cluster : c.render = render /\ \A d \in cluster : d = c
      BY <1>3 DEF BackupProof, DInv, TypeOK, StageInv
    <3> QED
      BY <1>3, <3>1 DEF BackupProof, BackupProven, FirstBackups, InBucket, Own, HasBackup
  <2>2. CASE Done
    BY <1>1, <2>1, <2>2, DoneStep
  <2>3. CASE Go("bump") /\ UNCHANGED finished
    <3>1. UNCHANGED <<finished, render, tree>> /\ pc' = "bump"
      BY <1>3, <2>3 DEF BackupProof, Go, repoVars, runVars
    <3>2. RunInv'
      BY <1>1, <2>1, <3>1 DEF DInv, RunInv, Archives
    <3>3. \A c \in cluster : StageInv(c)'
      BY <1>1, <2>1, <3>1 DEF DInv, StageInv, TwoTimelines, HasBackup
    <3> QED
      BY <1>1, <3>1, <3>2, <3>3, GoesOn
  <2> QED
    BY <1>3, <2>2, <2>3 DEF BackupProof
<1>4. CASE Bump
  <2>1. UNCHANGED <<finished, render>> /\ pc = "bump" /\ pc' = "bumpOverlay"
    BY <1>4 DEF Bump, Go, runVars
  <2>2. tree'.overlay = tree.overlay
    BY <1>4 DEF Bump, DInv, TypeOK, Generations
  <2>3. RunInv'
    BY <1>1, <2>1, <2>2 DEF DInv, RunInv, Archives
  <2>4. \A c \in cluster : StageInv(c)'
    BY <1>1, <2>1 DEF DInv, StageInv, TwoTimelines, HasBackup
  <2> QED
    BY <1>1, <2>1, <2>3, <2>4, GoesOn
<1>5. CASE BumpOverlay
  <2>1. Done /\ pc = "bumpOverlay" /\ \A c \in cluster : HasBackup(c)
    BY <1>5 DEF BumpOverlay, DInv, StageInv
  <2> QED
    BY <1>1, <2>1, DoneStep
<1> QED
  BY <1>2, <1>3, <1>4, <1>5

(* A run that refuses or stops leaves everything.                          *)
LEMMA EndStep == ASSUME DInv, TypeOK', Refuse \/ Stop PROVE DInv'
BY Over DEF Refuse, Stop, End, cloudVars, project

(* up reports a Cluster it did not build.                                  *)
LEMMA BuiltStep ==
  ASSUME DInv, TypeOK', NEW mode, NEW target, UpBuilt(mode, target)
  PROVE  DInv'
<1>1. /\ UNCHANGED <<cluster, bucket, live, created, locked, pc, render, tree>> /\ pc = "idle"
      /\ finished' = finished \cup {<<c.id, "built">> : c \in cluster}
  BY DEF UpBuilt, repoVars, cloudVars, project, runVars
<1>2. ASSUME NEW c \in cluster PROVE StageInv(c)' /\ ClusterInv(c)'
  <2>1. ClusterInv(c) /\ StageInv(c)
    BY DEF DInv
  <2>2. <<c.id, "stages">> \in finished' => <<c.id, "stages">> \in finished
    BY <1>1
  <2> QED
    BY <1>1, <2>1, <2>2 DEF StageInv, ClusterInv, HasBackup, TwoTimelines, Running, Opening,
       Unmarked, Switchd, Proved
<1>3. DoneInv'
  <2>1. ASSUME NEW i \in Ids, NEW how \in {"stages", "built"}, <<i, how>> \in finished'
        PROVE  i <= created
    <3>1. <<i, how>> \in finished \/ \E c \in cluster : i = c.id
      BY <1>1, <2>1
    <3> QED
      BY <3>1 DEF DInv, DoneInv, ClusterInv
  <2> QED
    BY <1>1, <2>1 DEF DoneInv
<1>4. RunInv' /\ PathInv'
  BY <1>1 DEF DInv, RunInv, PathInv, Running, Opening, Unmarked, Switchd, Proved
<1> QED
  BY <1>1, <1>2, <1>3, <1>4 DEF DInv

(* The operator adds to the locks and never to a path; without a Cluster   *)
(* there is nothing to keep.                                               *)
LEMMA OperatorStep == ASSUME DInv, TypeOK', Operator \/ DownProject \/ DownBucket PROVE DInv'
<1>1. CASE DeleteCluster \/ DownProject \/ DownBucket
  <2>1. /\ cluster' = {} /\ UNCHANGED <<created, finished>> /\ pc' \notin Running
        /\ pc' = "empty" => ~live'
    BY <1>1 DEF DeleteCluster, ByHand, DownProject, DownBucket, Go, End, DInv, RunInv, Running,
       project, Opening, Unmarked, Switchd, Proved
  <2>2. RunInv' /\ DoneInv'
    BY <2>1 DEF DInv, RunInv, DoneInv, Running
  <2>3. PathInv'
    <3>1. CASE UNCHANGED bucket
      BY <3>1 DEF DInv, PathInv
    <3>2. CASE bucket' = [g \in Gens |-> Nothing]
      BY <3>2 DEF PathInv, Nothing
    <3> QED
      BY <1>1, <3>1, <3>2 DEF DeleteCluster, DownProject, DownBucket
  <2> QED
    BY <2>1, <2>2, <2>3 DEF DInv
<1>2. CASE Commit \/ Discard \/ BumpByHand \/ AddLockRule \/ DeleteBackup
  <2>1. /\ pc' = "idle" /\ UNCHANGED <<cluster, bucket, live, created, finished>>
        /\ locked \subseteq locked'
    BY <1>2 DEF Commit, Discard, BumpByHand, AddLockRule, DeleteBackup, ByHand, project
  <2> QED
    BY <2>1, Over
<1> QED
  BY <1>1, <1>2 DEF Operator

-----------------------------------------------------------------------------
(* The invariant is inductive.                                             *)

(* It holds at the start: there is no Cluster and no run.                  *)
LEMMA Initial == Init => DInv
<1> SUFFICES ASSUME Init PROVE DInv
  OBVIOUS
<1>1. tree \in Generations
  BY Bounds DEF Init, Generations
<1>2. Nothing \in Path
  BY DEF Nothing, Path
<1>3. [segs |-> {<<1, 1>>}, hist |-> {}, base |-> {0}, by |-> {0}] \in Path
  <2>1. <<1, 1>> \in (1..MaxTl) \X (1..MaxPos)
    BY Bounds
  <2> QED
    BY <2>1 DEF Path
<1>4. source \in [Gens -> Path] /\ bucket \in [Gens -> Path]
  BY <1>2, <1>3 DEF Init
<1>5. NoRender \in Render
  BY Bounds DEF NoRender, Render, Gens, Fresh
<1>6. TypeOK
  BY <1>1, <1>4, <1>5, Bounds DEF Init, TypeOK, Steps
<1>7. RunInv /\ PathInv /\ DoneInv
  BY DEF Init, RunInv, PathInv, DoneInv, Running, Opening, Unmarked, Switchd, Proved, Nothing
<1> QED
  BY <1>6, <1>7 DEF Init, DInv

(* Every step keeps it.                                                    *)
LEMMA Inductive == DInv /\ [Next]_vars => DInv'
<1> SUFFICES ASSUME DInv, [Next]_vars PROVE DInv'
  OBVIOUS
<1>1. TypeOK'
  BY TypesKept
<1>2. CASE UNCHANGED vars
  <2>1. UNCHANGED <<cluster, bucket, live, created, finished, locked, render, pc, tree, source>>
    BY <1>2 DEF vars, repoVars, cloudVars, project, runVars
  <2>2. RunInv'
    BY <2>1 DEF DInv, RunInv, BucketsPass, Archives, Src, NewestGen, Empty
  <2>3. \A c \in cluster : StageInv(c)'
    BY <2>1 DEF DInv, StageInv, TwoTimelines, HasBackup
  <2> QED
    BY <1>1, <2>1, <2>2, <2>3, GoesOn
<1>3. CASE Start
  BY <1>1, <1>3, BeginStep, BuiltStep DEF Start, DbCreate, Up
<1>4. CASE Step
  BY <1>1, <1>4, PreflightStep, ApplyStep, WaitStep, SwitchoverStep, BackupStep, OperatorStep,
     EndStep DEF Step
<1>5. CASE Stop
  BY <1>1, <1>5, EndStep
<1>6. CASE CloudNativePG
  BY <1>6, CloudStep
<1>7. CASE Operator \/ DownProject
  BY <1>1, <1>7, OperatorStep
<1> QED
  BY <1>2, <1>3, <1>4, <1>5, <1>6, <1>7 DEF Next

-----------------------------------------------------------------------------
(* The refinement of ArchiveLedger.                                        *)

Holders   == {Holder(c) : c \in cluster}
Writers   == [g \in Gens |-> bucket[g].by]
Certified == {i \in Ids : <<i, "stages">> \in finished}

(* Only Clusters that were created wrote a path, and a segment has a       *)
(* writer: what makes a new Cluster's name new, and a source somebody's.   *)
WriterInv ==
  \A g \in Gens : /\ bucket[g].by \subseteq 1..created
                  /\ bucket[g].segs # {} => bucket[g].by # {}

(* A step that keeps the buckets, and the Cluster but for what the ledger  *)
(* does not see of it, is no step of the ledger.                           *)
LEMMA Unseen ==
  ASSUME UNCHANGED <<live, locked>>, Holders' = Holders, Writers' = Writers,
         Certified' = Certified
  PROVE  UNCHANGED Ledger!vars
BY DEF Ledger!vars, Holders, Writers, Certified

(* The one Cluster is the one holder.                                      *)
LEMMA HolderOf ==
  ASSUME NEW c, cluster = {c} PROVE Holders = {Holder(c)}
BY DEF Holders

(* The bucket's writers are those that were created, after every step.     *)
LEMMA WritersKept == ASSUME DInv, WriterInv, [Next]_vars PROVE WriterInv'
<1>1. created \in Nat /\ created' \in Nat /\ created <= created'
  <2>1. created' = created \/ created' = created + 1
    BY DEF Next, vars, Start, DbCreate, Up, UpBuilt, Begin, Step, Stop, CloudNativePG, Operator,
       DownProject, PreflightResumes, Preflight, ApplyCluster, Healthy, ArchiveStage, Marker,
       Replication, Wait, Switchover, SwitchProof, FirstBackup, BackupProof, Bump, BumpOverlay,
       DownBucket, Refuse, Bootstrap, ArchiveWAL, StandbyReady, Failover, BackupEnds, CloudOnly,
       DeleteCluster, Commit, Discard, BumpByHand, AddLockRule, DeleteBackup, ByHand, cloudVars
  <2>2. created \in Nat
    BY Bounds DEF DInv, TypeOK
  <2> QED
    BY <2>1, <2>2
<1>2. 1..created \subseteq 1..created'
  BY <1>1
<1>3. CASE UNCHANGED bucket
  BY <1>2, <1>3 DEF WriterInv
<1>4. CASE DownBucket
  BY <1>4 DEF DownBucket, WriterInv, Nothing
<1>5. CASE ArchiveWAL
  <2>1. PICK c \in cluster : Archives(c.render) \in Gens /\ WALIn(Archives(c.render), c.id)
    BY <1>5, WALWritten
  <2>2. c.id \in Ids /\ ClusterInv(c)
    BY DEF DInv, TypeOK, Cluster
  <2>3. c.id \in 1..created
    <3>1. c.id <= created
      BY <2>2 DEF ClusterInv
    <3>2. c.id \in 1..MaxIds
      BY <2>2 DEF Ids
    <3> QED
      BY <1>1, <3>1, <3>2, Bounds
  <2>4. ASSUME NEW g \in Gens
        PROVE  /\ bucket'[g].by \subseteq 1..created'
               /\ bucket'[g].segs # {} => bucket'[g].by # {}
    BY <1>2, <2>1, <2>3, <2>4 DEF WriterInv, WALIn
  <2> QED
    BY <2>4 DEF WriterInv
<1>6. CASE BackupEnds
  BY <1>2, <1>6, BaseWritten DEF WriterInv, BaseIn
<1> QED
  BY <1>3, <1>4, <1>5, <1>6, ZenonT(60) DEF Next, vars, Start, DbCreate, Up, UpBuilt, Begin, Step, Stop,
     CloudNativePG, Operator, DownProject, PreflightResumes, Preflight, ApplyCluster, Healthy,
     ArchiveStage, Marker, Replication, Wait, Switchover, SwitchProof, FirstBackup, BackupProof,
     Bump, BumpOverlay, Refuse, Bootstrap, StandbyReady, Failover, DeleteCluster, Commit,
     Discard, BumpByHand, AddLockRule, DeleteBackup, cloudVars

(* The apply claims the path for the new Cluster.                          *)
LEMMA ApplyClaims ==
  ASSUME DInv, WriterInv, ApplyCluster
  PROVE  [Ledger!Next]_(Ledger!vars)
<1>1. UNCHANGED <<bucket, live, finished, locked, render>> /\ pc = "cluster"
  BY DEF ApplyCluster, Go, project, runVars
<1>2. CASE UNCHANGED cluster
  <2>1. Holders' = Holders /\ Writers' = Writers /\ Certified' = Certified
    BY <1>1, <1>2 DEF Holders, Holder, Writers, Certified
  <2> QED
    BY <1>1, <2>1, Unseen
<1>3. CASE cluster = {} /\ created < MaxIds /\ cluster' = {NewCluster}
  <2> DEFINE p == Archives(render)
             from == IF render.mode = Recover THEN render.gen ELSE 0
  <2>1. /\ created \in Nat /\ created + 1 \in Ids /\ render.gen \in Gens /\ p \in Gens
        /\ BucketsPass(render)
    BY <1>1, <1>3, Bounds DEF DInv, RunInv, Running, TypeOK, Render, Ids
  <2>2. Ledger!IsNew(created + 1)
    <3>1. created + 1 \notin Certified
      <4>1. <<created + 1, "stages">> \in finished => created + 1 <= created
        BY <2>1, Zenon DEF DInv, DoneInv
      <4> QED
        BY <2>1, <4>1 DEF Certified
    <3>2. ASSUME NEW g \in Gens PROVE created + 1 \notin bucket[g].by
      BY <2>1 DEF WriterInv
    <3> QED
      BY <3>1, <3>2 DEF Ledger!IsNew, Certified
  <2>3. bucket[p].by = {} /\ bucket[p].base = {}
    BY <2>1 DEF DInv, PathInv, BucketsPass, Empty
  <2>4. ASSUME render.mode = Recover, live PROVE Ledger!Continues(render.gen, p)
    <3>1. NewestGen(bucket) = render.gen /\ p \in locked /\ bucket[render.gen].segs # {}
      BY <2>1, <2>4 DEF BucketsPass, Src
    <3>2. \A g \in Gens : g > render.gen => bucket[g].by = {}
      BY <3>1, NewestGenIs DEF DInv, PathInv
    <3> QED
      BY <2>1, <3>1, <3>2 DEF Ledger!Continues, WriterInv
  <2>5. Holders' = {[id |-> created + 1, at |-> p, from |-> from, backed |-> FALSE]}
    <3>1. PICK d : d = NewCluster
      OBVIOUS
    <3>2. cluster' = {d} /\ d.id = created + 1 /\ d.render = render
      BY <1>3, <3>1 DEF NewCluster
    <3>3. Holders' = {[id |-> d.id, at |-> Archives(d.render),
                      from |-> IF d.render.mode = Recover THEN d.render.gen ELSE 0,
                      backed |-> d.id \in bucket'[Archives(d.render)].base]}
      BY <3>2 DEF Holders, Holder
    <3>4. Archives(d.render) = p
      BY <3>2
    <3>5. (d.id \in bucket'[Archives(d.render)].base) = FALSE
      BY <1>1, <2>3, <3>4
    <3> HIDE DEF p
    <3> QED
      BY <3>2, <3>3, <3>4, <3>5, Zenon
  <2>6. from # 0 => p = from + 1
    BY DEF Archives
  <2>7. from \in Gens \cup {0} /\ (from # 0 => render.mode = Recover /\ from = render.gen)
    BY <2>1
  <2>8. Ledger!Claim(created + 1, p, from)
    <3>1. Holders = {}
      BY <1>3 DEF Holders
    <3> HIDE DEF p, from
    <3> QED
      BY <1>1, <2>1, <2>2, <2>3, <2>4, <2>5, <2>6, <2>7, <3>1
      DEF Ledger!Claim, Ledger!NoSource, Holders, Holder
  <2> QED
    BY <2>1, <2>7, <2>8 DEF Ledger!Next, Ledger!NoSource
<1> QED
  BY <1>2, <1>3 DEF ApplyCluster

(* A step that makes d of the one Cluster c keeps its hold on the path.    *)
LEMMA Held ==
  ASSUME NEW c, NEW d, cluster = {c}, cluster' = {d},
         d.id = c.id, d.render = c.render,
         bucket'[Archives(c.render)].base = bucket[Archives(c.render)].base
  PROVE  Holders' = Holders
<1>1. Archives(d.render) = Archives(c.render)
  OBVIOUS
<1>2. Holder(d)' = Holder(c)
  BY <1>1 DEF Holder
<1>3. Holders' = {Holder(d)'}
  BY DEF Holders
<1> QED
  BY <1>2, <1>3, HolderOf

(* The archive is written by the holder of its path.                       *)
LEMMA ArchiveWrites ==
  ASSUME DInv, ArchiveWAL
  PROVE  [Ledger!Next]_(Ledger!vars)
<1>1. PICK c, d : /\ cluster = {c} /\ cluster' = {d}
                  /\ d.id = c.id /\ d.render = c.render
                  /\ Archives(c.render) \in Gens
                  /\ WALIn(Archives(c.render), c.id)
  BY WALWritten
<1>2. Holders' = Holders
  BY <1>1, Held DEF WALIn
<1>3. UNCHANGED <<live, locked, finished>>
  BY DEF ArchiveWAL, CloudOnly, project
<1>4. PICK h : h = Holder(c)
  OBVIOUS
<1>5. h \in Holders /\ h.at = Archives(c.render) /\ h.id = c.id
  BY <1>1, <1>4, HolderOf DEF Holder
<1>6. Writers' = [Writers EXCEPT ![h.at] = @ \cup {h.id}]
  <2>1. ASSUME NEW g \in Gens
        PROVE  bucket'[g].by = IF g = h.at THEN bucket[g].by \cup {h.id} ELSE bucket[g].by
    BY <1>1, <1>5 DEF WALIn
  <2> QED
    BY <2>1 DEF Writers
<1>7. Ledger!Write(h)
  BY <1>2, <1>3, <1>6 DEF Ledger!Write, Holders, Writers
<1> QED
  BY <1>5, <1>7 DEF Ledger!Next, Holders

(* A backup that completes is the holder's; one that fails is not seen.    *)
LEMMA BackupBacksUp ==
  ASSUME DInv, BackupEnds
  PROVE  [Ledger!Next]_(Ledger!vars)
<1>1. PICK c \in cluster : cluster = {c} /\ UNCHANGED cluster /\ BaseIn(Archives(c.render), c.id)
  BY BaseWritten
<1>2. UNCHANGED <<live, locked, finished>>
  BY DEF BackupEnds, CloudOnly, project
<1>3. Writers' = Writers
  BY <1>1 DEF Writers, BaseIn
<1>4. c.id \in bucket'[Archives(c.render)].base \/ UNCHANGED bucket
  <2>1. c \in Cluster /\ Archives(c.render) \in Gens /\ bucket \in [Gens -> Path]
    BY DEF DInv, TypeOK, ClusterInv
  <2> QED
    BY <1>1, <2>1 DEF BackupEnds, Path
<1>5. CASE UNCHANGED bucket
  <2>1. Holders' = Holders
    BY <1>1, <1>5 DEF Holders, Holder
  <2> QED
    BY <1>2, <1>3, <2>1, Unseen DEF Certified
<1>6. CASE c.id \in bucket'[Archives(c.render)].base
  <2>1. PICK h : h = Holder(c)
    OBVIOUS
  <2>2. h \in Holders
    BY <1>1, <2>1, HolderOf
  <2>3. Holders' = {[h EXCEPT !.backed = TRUE]}
    <3>1. PICK yes : yes = TRUE
      OBVIOUS
    <3>2. Holder(c)' = [id |-> c.id, at |-> Archives(c.render),
                        from |-> IF c.render.mode = Recover THEN c.render.gen ELSE 0,
                        backed |-> yes]
      BY <1>6, <3>1, Zenon DEF Holder
    <3>3. PICK b : h = [id |-> c.id, at |-> Archives(c.render),
                        from |-> IF c.render.mode = Recover THEN c.render.gen ELSE 0,
                        backed |-> b]
      BY <2>1, Zenon DEF Holder
    <3>4. Holder(c)' = [h EXCEPT !.backed = yes]
      BY <3>2, <3>3
    <3>5. Holders' = {[h EXCEPT !.backed = yes]}
      BY <1>1, <3>4 DEF Holders
    <3> QED
      BY <3>1, <3>5, Zenon
  <2>4. Ledger!BackUp(h)
    BY <1>2, <1>3, <2>3 DEF Ledger!BackUp, Holders, Writers
  <2> QED
    BY <2>2, <2>4 DEF Ledger!Next, Holders
<1> QED
  BY <1>4, <1>5, <1>6

(* A run reports the Cluster only with its backup.                         *)
LEMMA DoneCertifies ==
  ASSUME DInv, BackupProof \/ BumpOverlay
  PROVE  [Ledger!Next]_(Ledger!vars)
<1>1. UNCHANGED <<cluster, bucket, live, locked>>
  BY DEF BackupProof, BumpOverlay, cloudVars, project
<1>2. Holders' = Holders /\ Writers' = Writers
  BY <1>1 DEF Holders, Holder, Writers
<1>3. CASE UNCHANGED finished
  BY <1>1, <1>2, <1>3, Unseen DEF Certified
<1>4. CASE Done
  <2>1. CASE cluster = {}
    <3>1. UNCHANGED finished
      BY <1>4, <2>1 DEF Done
    <3> QED
      BY <1>3, <3>1
  <2>2. CASE cluster # {}
    <3>1. PICK c \in cluster : cluster = {c} /\ c.id \in Ids
      BY <2>2 DEF DInv, TypeOK, Cluster
    <3>2. c.id \in bucket[Archives(c.render)].base
      <4>1. CASE BackupProof
        <5>1. c.render = render
          BY <4>1 DEF BackupProof, DInv, StageInv, Running, Opening, Unmarked, Switchd
        <5> QED
          BY <3>1, <4>1, <5>1 DEF BackupProof, BackupProven, FirstBackups, InBucket, Own
      <4>2. CASE BumpOverlay
        BY <4>2 DEF BumpOverlay, DInv, StageInv, Proved, HasBackup
      <4> QED
        BY <4>1, <4>2
    <3>3. PICK h : h = Holder(c)
      OBVIOUS
    <3>4. h \in Holders /\ h.id = c.id /\ h.backed
      BY <3>1, <3>2, <3>3, HolderOf DEF Holder
    <3>5. Certified' = Certified \cup {c.id}
      <4>1. finished' = finished \cup {<<c.id, "stages">>}
        BY <1>4, <3>1 DEF Done
      <4> QED
        BY <3>1, <4>1 DEF Certified
    <3>6. Ledger!Certify(h)
      BY <1>1, <1>2, <3>4, <3>5 DEF Ledger!Certify, Holders, Writers, Certified
    <3> QED
      BY <3>4, <3>6 DEF Ledger!Next, Holders
  <2> QED
    BY <2>1, <2>2
<1> QED
  BY <1>3, <1>4 DEF BackupProof, BumpOverlay

(* Steps that change neither the buckets nor the hold of the Cluster: the  *)
(* Stages that wait, the switch of primaries, the bootstrap, the tree.     *)
LEMMA NotSeen ==
  ASSUME DInv,
         \/ Start \/ Stop \/ Bootstrap \/ StandbyReady \/ Failover
         \/ PreflightResumes \/ Preflight \/ Healthy \/ ArchiveStage \/ Marker \/ Replication
         \/ Switchover \/ SwitchProof \/ FirstBackup \/ Bump \/ Refuse
         \/ Commit \/ Discard \/ BumpByHand \/ DeleteBackup
  PROVE  UNCHANGED Ledger!vars
<1>1. UNCHANGED <<bucket, live, locked>>
  BY DEF Start, DbCreate, Up, UpBuilt, Begin, Stop, Bootstrap, StandbyReady, Failover, CloudOnly,
     PreflightResumes, Preflight, Healthy, ArchiveStage, Marker, Replication, Wait, Switchover,
     SwitchProof, FirstBackup, Bump, Refuse, Commit, Discard, BumpByHand, DeleteBackup, ByHand,
     cloudVars, project
<1>2. Writers' = Writers
  BY <1>1 DEF Writers
<1>3. Certified' = Certified
  <2>1. finished' \in {finished, finished \cup {<<c.id, "built">> : c \in cluster}}
    BY DEF Start, DbCreate, Up, UpBuilt, Begin, Stop, Bootstrap, StandbyReady, Failover, CloudOnly,
       PreflightResumes, Preflight, Healthy, ArchiveStage, Marker, Replication, Wait, Switchover,
       SwitchProof, FirstBackup, Bump, Refuse, Commit, Discard, BumpByHand, DeleteBackup, ByHand
  <2> QED
    BY <2>1 DEF Certified
<1>4. Holders' = Holders
  <2>1. CASE UNCHANGED cluster
    BY <1>1, <2>1 DEF Holders, Holder
  <2>2. ASSUME NEW c \in cluster, NEW d, cluster' = {d}, d.id = c.id, d.render = c.render
        PROVE  Holders' = Holders
    BY <1>1, <2>2, Held DEF DInv, TypeOK
  <2>a. ASSUME NEW c \in cluster PROVE c \in Cluster
    BY DEF DInv, TypeOK
  <2>3. CASE Switchover
    <3>1. PICK c \in cluster :
            \/ UNCHANGED cluster
            \/ cluster' = {[c EXCEPT !.primary = 2, !.tl = @ + 1, !.streams = FALSE]}
      BY <2>3 DEF Switchover
    <3>2. PICK d : d = [c EXCEPT !.primary = 2, !.tl = @ + 1, !.streams = FALSE]
      OBVIOUS
    <3>3. d.id = c.id /\ d.render = c.render
      BY <2>a, <3>2 DEF Cluster
    <3> QED
      BY <2>1, <2>2, <3>1, <3>2, <3>3
  <2>4. CASE StandbyReady
    <3>1. PICK c \in cluster, i \in Instances :
            cluster' = {[c EXCEPT !.marker = @ \ {i}, !.streams = TRUE]}
      BY <2>4 DEF StandbyReady
    <3>2. PICK d : d = [c EXCEPT !.marker = @ \ {i}, !.streams = TRUE]
      OBVIOUS
    <3>3. d.id = c.id /\ d.render = c.render
      BY <2>a, <3>2 DEF Cluster
    <3> QED
      BY <2>2, <3>1, <3>2, <3>3
  <2>5. CASE Failover
    <3>1. PICK c \in cluster :
            cluster' = {[c EXCEPT !.primary = 3 - @, !.tl = @ + 1, !.streams = FALSE]}
      BY <2>5 DEF Failover
    <3>2. PICK d : d = [c EXCEPT !.primary = 3 - @, !.tl = @ + 1, !.streams = FALSE]
      OBVIOUS
    <3>3. d.id = c.id /\ d.render = c.render
      BY <2>a, <3>2 DEF Cluster
    <3> QED
      BY <2>2, <3>1, <3>2, <3>3
  <2>6. CASE Bootstrap
    <3>1. PICK c \in cluster : \E tl, n : Opens(c, tl, n)
      BY <2>6 DEF Bootstrap
    <3>2. PICK tl, n : Opens(c, tl, n)
      BY <3>1
    <3>3. PICK d : d = [c EXCEPT !.healthy = TRUE, !.marker = Instances, !.tl = tl, !.pos = n]
      OBVIOUS
    <3>4. d.id = c.id /\ d.render = c.render
      BY <2>a, <3>3 DEF Cluster
    <3> QED
      BY <2>2, <3>2, <3>3, <3>4 DEF Opens
  <2> QED
    BY <2>1, <2>3, <2>4, <2>5, <2>6
    DEF Start, DbCreate, Up, UpBuilt, Begin, Stop, PreflightResumes, Preflight, Healthy,
        ArchiveStage, Marker, Replication, Wait, SwitchProof, FirstBackup, Bump, Refuse, Commit,
        Discard, BumpByHand, DeleteBackup, cloudVars
<1> QED
  BY <1>1, <1>2, <1>3, <1>4, Unseen

(* The operator and kluster down release the path, lock one, or clear the  *)
(* archive of a rehearsal.                                                 *)
LEMMA OperatorReleases ==
  ASSUME DInv, DeleteCluster \/ AddLockRule \/ DownProject \/ DownBucket
  PROVE  Ledger!Next
<1>1. UNCHANGED <<live, finished>>
  BY DEF DeleteCluster, AddLockRule, DownProject, DownBucket, ByHand, project
<1>2. CASE DeleteCluster \/ DownProject
  <2>1. cluster' = {} /\ UNCHANGED <<bucket, locked>>
    BY <1>2 DEF DeleteCluster, DownProject
  <2>2. Ledger!Release
    BY <1>1, <2>1 DEF Ledger!Release
  <2> QED
    BY <2>2 DEF Ledger!Next
<1>3. CASE AddLockRule
  <2>1. PICK g \in Gens : locked' = locked \cup {g}
    BY <1>3 DEF AddLockRule
  <2>2. UNCHANGED <<cluster, bucket>>
    BY <1>3 DEF AddLockRule
  <2>3. Holders' = Holders
    BY <2>2 DEF Holders, Holder
  <2>4. Ledger!Lock(g)
    BY <1>1, <2>1, <2>2, <2>3 DEF Ledger!Lock, Holders
  <2> QED
    BY <2>1, <2>4 DEF Ledger!Next
<1>4. CASE DownBucket
  <2>1. cluster = {} /\ cluster' = {} /\ UNCHANGED locked
    BY <1>4 DEF DownBucket, DInv, RunInv
  <2>a. ~live
    BY <1>4 DEF DownBucket, DInv, RunInv
  <2>2. [g \in Gens |-> bucket'[g].by] = [g \in Gens |-> {}]
    BY <1>4 DEF DownBucket, Nothing
  <2> QED
    BY <1>1, <2>1, <2>a, <2>2 DEF Ledger!Clear, Ledger!Next
<1> QED
  BY <1>2, <1>3, <1>4

(* Every step is a step of the ledger, or not seen there.                  *)
LEMMA LedgerStep == ASSUME DInv, WriterInv, [Next]_vars PROVE [Ledger!Next]_(Ledger!vars)
<1>1. CASE UNCHANGED vars
  <2>1. UNCHANGED <<cluster, bucket, live, locked, finished>>
    BY <1>1 DEF vars, cloudVars, project
  <2>2. Holders' = Holders /\ Writers' = Writers /\ Certified' = Certified
    BY <2>1 DEF Holders, Holder, Writers, Certified
  <2> QED
    BY <2>1, <2>2, Unseen
<1>2. CASE Next
  BY <1>2, NotSeen, ApplyClaims, ArchiveWrites, BackupBacksUp, DoneCertifies, OperatorReleases
  DEF Next, Step, CloudNativePG, Operator
<1> QED
  BY <1>1, <1>2

-----------------------------------------------------------------------------
(* The theorems.                                                           *)

(* The invariant holds in every state of every behaviour.                  *)
LEMMA Always == Spec => []DInv
<1>1. DInv /\ [Next]_vars => DInv'
  BY Inductive
<1> QED
  BY <1>1, Initial, PTL DEF Spec

(* Every variable has its type, for any bounds.                            *)
THEOREM CreateTypes == Spec => []TypeOK
<1>1. DInv => TypeOK
  BY DEF DInv
<1> QED
  BY <1>1, Always, PTL

(* Two Clusters never share an archive path: nobody else ever wrote to the *)
(* path of the Cluster there is, whatever runs stopped, whatever Clusters  *)
(* and bumps were lost (checkBuckets, RenderFor).                          *)
THEOREM OneClusterPerPath == Spec => []PathIsOwn
<1>1. DInv => PathIsOwn
  BY DEF DInv, ClusterInv, PathIsOwn
<1> QED
  BY <1>1, Always, PTL

(* A live recovery never reads an older archive than the newest one a      *)
(* Cluster wrote (checkBuckets).                                           *)
THEOREM RecoveryReadsNewest == Spec => []ReadsNewest
<1>1. DInv => ReadsNewest
  BY DEF DInv, ClusterInv, ReadsNewest
<1> QED
  BY <1>1, Always, PTL

(* What a live recovery archives is under a lock rule (checkLock).         *)
THEOREM LockBeforeWAL == Spec => []LockedFirst
<1>1. DInv => LockedFirst
  BY DEF DInv, ClusterInv, LockedFirst
<1> QED
  BY <1>1, Always, PTL

(* A Cluster a run reported done has its base backup in its own path and   *)
(* no instance with the recovery marker, then and ever after.              *)
THEOREM DoneIsProven == Spec => []Proven
<1>1. DInv => Proven
  BY DEF DInv, ClusterInv, HasBackup, Proven
<1> QED
  BY <1>1, Always, PTL

(* A rehearsal's Cluster that passed has archived on two timelines.        *)
THEOREM RehearsalSwitched == Spec => []SurvivesSwitchover
<1>1. DInv => SurvivesSwitchover
  BY DEF DInv, ClusterInv, TwoTimelines, SurvivesSwitchover
<1> QED
  BY <1>1, Always, PTL

(* The steps of create, its reruns, CloudNativePG, the operator and down   *)
(* are steps of an archive ledger: each path is claimed by one Cluster and *)
(* written by it alone, a live recovery claims the next path after the     *)
(* newest one written, under a lock, and what is reported is backed up.    *)
THEOREM ImplementsLedger == Spec => LedgerSpec
<1>1. Init => Ledger!Init
  <2> SUFFICES ASSUME Init PROVE Ledger!Init
    OBVIOUS
  <2>1. [g \in Gens |-> bucket[g].by] = [g \in Gens |-> {}]
    BY DEF Init, Nothing
  <2>2. live \in BOOLEAN
    BY Initial DEF DInv, TypeOK
  <2> QED
    BY <2>1, <2>2 DEF Init, Ledger!Init
<1>2. Init => WriterInv
  BY DEF Init, WriterInv, Nothing
<1>3. DInv /\ WriterInv /\ [Next]_vars => WriterInv'
  BY WritersKept
<1>4. DInv /\ WriterInv /\ [Next]_vars => [Ledger!Next]_(Ledger!vars)
  BY LedgerStep
<1> QED
  BY <1>1, <1>2, <1>3, <1>4, Always, PTL DEF Spec, LedgerSpec, Ledger!Spec
=============================================================================
