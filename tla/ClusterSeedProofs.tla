-------------------------- MODULE ClusterSeedProofs --------------------------
(***************************************************************************)
(* Theorems about the seed of the cluster, live and in a rehearsal, for    *)
(* any commits, Applications, Secrets and hosts, and any number of changes *)
(* by people.                                                              *)
(***************************************************************************)
EXTENDS ClusterSeed, FiniteSetTheorems, TLAPS

-----------------------------------------------------------------------------
(* The Stages.                                                             *)

(* Where lb-address stands.                                                *)
LbAt == IF rehearsal THEN 7 ELSE 6

(* How many Stages there are.                                              *)
LEMMA PlanLength ==
  ASSUME rehearsal \in BOOLEAN, NEW mode \in Modes
  PROVE  /\ Len(Plan(mode)) \in 1..10 /\ Len(Plan(mode)) > LbAt /\ LbAt \in 6..7
         /\ mode = "up" => Len(Plan(mode)) > LbAt + 1
<1>1. CASE rehearsal /\ mode = "seed"
  BY <1>1 DEF LbAt, Plan
<1>2. CASE rehearsal /\ mode = "up"
  BY <1>2 DEF LbAt, Plan
<1>3. CASE ~rehearsal /\ mode = "seed"
  BY <1>3 DEF LbAt, Plan
<1>4. CASE ~rehearsal /\ mode = "up"
  BY <1>4 DEF LbAt, Plan
<1> QED
  BY <1>1, <1>2, <1>3, <1>4 DEF Modes

(* Which Stage stands where.                                               *)
LEMMA StagesAt ==
  ASSUME rehearsal \in BOOLEAN, NEW mode \in Modes, NEW i \in 1..10, i <= Len(Plan(mode))
  PROVE  /\ Plan(mode)[i] = "seed-crds" <=> i = 1
         /\ Plan(mode)[i] = "seed-namespaces" <=> i = 2
         /\ Plan(mode)[i] = "seed-secrets" <=> i = 3
         /\ Plan(mode)[i] = "seed-argocd" <=> i = 4
         /\ Plan(mode)[i] = "lb-address" <=> i = LbAt
         /\ Plan(mode)[i] = "db" <=> i = LbAt + 1 /\ mode = "up"
         /\ Plan(mode)[i] = "zone" <=> i = Len(Plan(mode))
<1>1. CASE rehearsal /\ mode = "seed"
  BY <1>1 DEF LbAt, Plan
<1>2. CASE rehearsal /\ mode = "up"
  BY <1>2 DEF LbAt, Plan
<1>3. CASE ~rehearsal /\ mode = "seed"
  BY <1>3 DEF LbAt, Plan
<1>4. CASE ~rehearsal /\ mode = "up"
  BY <1>4 DEF LbAt, Plan
<1> QED
  BY <1>1, <1>2, <1>3, <1>4 DEF Modes

-----------------------------------------------------------------------------
(* Values.                                                                 *)

(* What the catalog says of its keys.                                      *)
LEMMA KindsDivide ==
  /\ Copies \subseteq Keys /\ Literals \subseteq Keys
  /\ Generated \subseteq Keys /\ Issued \subseteq Keys
  /\ Keys = Copies \union Literals \union Generated \union Issued
  /\ Keys \intersect Extras = {}
  /\ \A k \in Copies : From[k] \in Generated \union Issued /\ From[k] \in Held
BY CatalogIsValid DEF CatalogValid, Copies, Literals, Generated, Issued, OfKind, Held

LEMMA InSecrets == \A k \in Held : In[k] \in Secrets
BY CatalogIsValid DEF CatalogValid

LEMMA FreshIsValue == ASSUME NEW k \in Held, NEW d \in Drawn PROVE Fresh(k, d) \in Value
BY DEF Fresh, Value

LEMMA LiteralIsValue == ASSUME NEW k \in Held PROVE LiteralValue(k) \in Value
BY FreshIsValue DEF LiteralValue, Drawn

LEMMA RenderIsValue == ASSUME NEW k \in Copies, NEW v \in Value PROVE Render(k, v) \in Value
BY DEF Render, Value

LEMMA NamedDraws == /\ LiveDraw \in Draws /\ ItemDraw \in Draws /\ HandDraw \in Draws
                    /\ LiveDraw # ItemDraw /\ LiveDraw # HandDraw /\ "literal" \notin Draws
BY SeedConstants, ValuesDiffer

LEMMA FileIsValue == ASSUME NEW k \in Keys PROVE FileValue(k) \in Value
<1>1. k \in Held
  BY DEF Held
<1>2. \A h \in Held : Fresh(h, LiveDraw) \in Value
  BY FreshIsValue, NamedDraws DEF Drawn
<1>3. CASE k \in Literals
  BY <1>1, <1>3, LiteralIsValue DEF FileValue
<1>4. CASE k \in Copies /\ k \notin Literals
  <2>1. Render(k, Fresh(From[k], LiveDraw)) \in Value
    BY <1>2, <1>4, RenderIsValue, KindsDivide
  <2> QED
    BY <1>4, <2>1 DEF FileValue
<1>5. CASE k \notin Copies /\ k \notin Literals
  BY <1>1, <1>2, <1>5 DEF FileValue
<1> QED
  BY <1>3, <1>4, <1>5

(* A fresh value is a value, of a draw that is not one of live's.          *)
LEMMA FreshSourceApart ==
  ASSUME NEW k \in Held, NEW draw, \A g \in Generated : draw[g] \in Spare
  PROVE  FreshSource(k, draw) \in Value /\ FreshSource(k, draw).draw # LiveDraw
<1>1. CASE k \in Generated
  <2>1. draw[k] \in Drawn /\ draw[k] # LiveDraw
    BY <1>1 DEF Spare, Drawn
  <2>2. FreshSource(k, draw) = Fresh(k, draw[k])
    BY <1>1 DEF FreshSource
  <2> QED
    BY <2>1, <2>2, FreshIsValue DEF Fresh
<1>2. CASE k \notin Generated
  <2>1. ItemDraw \in Drawn /\ ItemDraw # LiveDraw
    BY NamedDraws DEF Drawn
  <2>2. FreshSource(k, draw) = Fresh(k, ItemDraw)
    BY <1>2 DEF FreshSource
  <2> QED
    BY <2>1, <2>2, FreshIsValue DEF Fresh
<1> QED
  BY <1>1, <1>2

LEMMA FreshApart ==
  ASSUME NEW k \in Keys, NEW draw, \A g \in Generated : draw[g] \in Spare
  PROVE  FreshValue(k, draw) \in Value /\ FreshValue(k, draw).draw # LiveDraw
<1>1. k \in Held
  BY DEF Held
<1>2. CASE k \in Literals
  BY <1>1, <1>2, LiteralIsValue, NamedDraws DEF FreshValue, LiteralValue, Fresh
<1>3. CASE k \in Copies /\ k \notin Literals
  <2>1. FreshSource(From[k], draw) \in Value /\ FreshSource(From[k], draw).draw # LiveDraw
    BY <1>3, KindsDivide, FreshSourceApart
  <2>2. FreshValue(k, draw) = Render(k, FreshSource(From[k], draw))
    BY <1>3 DEF FreshValue
  <2>3. Render(k, FreshSource(From[k], draw)) \in Value
    BY <1>3, <2>1, RenderIsValue
  <2>4. Render(k, FreshSource(From[k], draw)).draw = FreshSource(From[k], draw).draw
    BY <2>1 DEF Render, Value
  <2> QED
    BY <2>1, <2>2, <2>3, <2>4
<1>4. CASE k \notin Copies /\ k \notin Literals
  BY <1>1, <1>4, FreshSourceApart DEF FreshValue
<1> QED
  BY <1>2, <1>3, <1>4

(* The values MakeFresh makes.                                             *)
LEMMA MadeFresh ==
  ASSUME run \in RunState, MakeFresh
  PROVE  /\ run'.fresh \in [Keys -> Maybe]
         /\ \A k \in Keys : run'.fresh[k] # NoValue => run'.fresh[k].draw # LiveDraw
<1> DEFINE draw == [g \in Generated |-> Draw(g)]
           fresh == [k \in Keys |-> IF In[k] \notin Made(run.tree) THEN NoValue
                                    ELSE FreshValue(k, draw)]
<1>1. \A g \in Generated : draw[g] \in Spare
  <2> SUFFICES ASSUME NEW g \in Generated PROVE Draw(g) \in Spare
    OBVIOUS
  <2>1. \E d \in Spare : Unused(g, d)
    BY DEF MakeFresh
  <2> QED
    BY <2>1 DEF Draw
<1> HIDE DEF draw
<1>2. \A k \in Keys : FreshValue(k, draw) \in Value /\ FreshValue(k, draw).draw # LiveDraw
  BY <1>1, FreshApart
<1>3. fresh \in [Keys -> Maybe] /\ \A k \in Keys : fresh[k] # NoValue => fresh[k].draw # LiveDraw
  BY <1>2 DEF Maybe
<1>4. run'.fresh = fresh
  BY DEF MakeFresh, RunState, draw
<1> QED
  BY <1>3, <1>4

-----------------------------------------------------------------------------
(* Types.                                                                  *)

(* The types, and that a run stands at one of its Stages.                  *)
TypeInv == TypeOK /\ run.at <= Len(Plan(run.mode))

LEMMA IdleTypes == /\ Idle \in RunState /\ Idle.at = 1
                   /\ rehearsal \in BOOLEAN => Idle.at <= Len(Plan(Idle.mode))
<1>0. NoFresh \in [Keys -> Maybe]
  BY DEF NoFresh, Maybe
<1>1. Idle \in RunState /\ Idle.at = 1 /\ Idle.mode \in Modes
  BY <1>0 DEF Idle, RunState, Phases, Modes
<1>2. rehearsal \in BOOLEAN => 1 <= Len(Plan(Idle.mode))
  BY <1>1, PlanLength
<1> QED
  BY <1>1, <1>2

(* A Stage that passes leads to the next one, or to the end.               *)
LEMMA PassedTypes ==
  ASSUME TypeInv
  PROVE  /\ Passed \in RunState /\ Passed.mode = run.mode
         /\ Passed.at <= Len(Plan(Passed.mode))
<1>1. run \in RunState /\ run.mode \in Modes /\ run.at \in 1..10 /\ run.at <= Len(Plan(run.mode))
      /\ gateway \subseteq Addresses /\ rehearsal \in BOOLEAN
  BY DEF TypeInv, TypeOK, RunState
<1>2. Len(Plan(run.mode)) \in 1..10
  BY <1>1, PlanLength
<1>3. NoFresh \in [Keys -> Maybe]
  BY DEF NoFresh, Maybe
<1>4. CASE run.at = Len(Plan(run.mode))
  <2>1. Passed = [run EXCEPT !.phase = "done"]
    BY <1>4 DEF Passed
  <2> QED
    BY <1>1, <2>1 DEF RunState, Phases
<1>5. CASE run.at # Len(Plan(run.mode))
  <2>1. run.at + 1 \in 1..10 /\ run.at + 1 <= Len(Plan(run.mode))
    <3> DEFINE n == Len(Plan(run.mode))
               i == run.at
    <3>1. i \in 1..10 /\ n \in 1..10 /\ i <= n /\ i # n
      BY <1>1, <1>2, <1>5
    <3> HIDE DEF n, i
    <3>2. i + 1 \in 1..10 /\ i + 1 <= n
      BY <3>1
    <3> QED
      BY <3>2 DEF n, i
  <2> DEFINE got == IF Stage = "lb-address" THEN gateway ELSE run.got
  <2>2. got \in SUBSET Addresses
    BY <1>1 DEF RunState
  <2>3. Passed = [run EXCEPT !.phase = "probe", !.at = @ + 1, !.todo = {}, !.fresh = NoFresh,
                             !.got = got]
    BY <1>5 DEF Passed
  <2> HIDE DEF got
  <2> QED
    BY <1>1, <1>3, <2>1, <2>2, <2>3 DEF RunState, Phases
<1> QED
  BY <1>4, <1>5

(* A step of the run that changes nothing beside it.                       *)
Alone == UNCHANGED <<trees, crds, namespaces, secrets, argocd, outside, byHand>>

LEMMA RunStep ==
  ASSUME TypeInv, Alone, run' \in RunState, run'.at <= Len(Plan(run'.mode))
  PROVE  TypeInv'
<1>1. TypeOK'
  BY DEF Alone, trees, secrets, argocd, outside, TypeInv, TypeOK
<1>2. (run.at <= Len(Plan(run.mode)))'
  BY DEF Alone, trees, Plan
<1> QED
  BY <1>1, <1>2 DEF TypeInv

(* A step that leaves the run at its Stage.                                *)
LEMMA SameStage ==
  ASSUME TypeInv, TypeOK', run'.mode = run.mode, run'.at = run.at, rehearsal' = rehearsal
  PROVE  TypeInv'
BY DEF TypeInv, Plan

LEMMA TypeStep == TypeInv /\ [Next]_vars => TypeInv'
<1> SUFFICES ASSUME TypeInv, [Next]_vars PROVE TypeInv'
  OBVIOUS
<1>t. TypeOK /\ run \in RunState /\ run.at <= Len(Plan(run.mode)) /\ rehearsal \in BOOLEAN
  BY DEF TypeInv, TypeOK
<1>d. Draws \subseteq Drawn /\ HandDraw \in Drawn
  BY NamedDraws DEF Drawn
<1>h. Keys \subseteq Held
  BY DEF Held
<1>1. ASSUME NEW mode \in Modes, Start(mode) PROVE TypeInv'
  <2>0. run' = [Idle EXCEPT !.phase = "probe", !.mode = mode, !.tree = head, !.built = synced]
        /\ head \in Revisions /\ synced \in Revisions
    BY <1>1, <1>t DEF Start, TypeOK
  <2>1. run' \in RunState /\ run'.at = 1 /\ run'.mode = mode
    BY <2>0, IdleTypes DEF RunState, Phases
  <2>2. 1 <= Len(Plan(mode))
    BY <1>t, PlanLength
  <2> QED
    BY <1>1, <2>1, <2>2, RunStep DEF Start, Alone
<1>2. CASE Probe
  <2>1. CASE Done(Stage)
    BY <1>2, <2>1, PassedTypes, RunStep DEF Probe, Alone
  <2>2. CASE ~Done(Stage)
    <3>1. ToMake \in SUBSET Secrets
      BY DEF ToMake, Absent, Made
    <3>2. run' \in RunState /\ run'.at = run.at /\ run'.mode = run.mode
      BY <1>2, <1>t, <2>2, <3>1 DEF Probe, RunState, Phases
    <3> QED
      BY <1>2, <1>t, <3>2, RunStep DEF Probe, Alone
  <2> QED
    BY <2>1, <2>2
<1>3. CASE Check
  BY <1>3, PassedTypes, RunStep DEF Check, Alone
<1>4. CASE Fail
  BY <1>4, <1>t, IdleTypes, RunStep DEF Fail, Alone
<1>5. CASE ApplyCRDs \/ ApplyNamespaces \/ ApplyArgoCD \/ Wait \/ BuildDatabase
  <2>1. run' \in RunState /\ run'.mode = run.mode /\ run'.at = run.at
    BY <1>5, <1>t DEF ApplyCRDs, ApplyNamespaces, ApplyArgoCD, Wait, BuildDatabase, Acted, RunState, Phases
  <2>2. TypeOK' /\ rehearsal' = rehearsal
    BY <1>5, <1>t, <2>1 DEF ApplyCRDs, ApplyNamespaces, ApplyArgoCD, Wait, BuildDatabase,
       TypeOK, trees, secrets, argocd, outside, RunState
  <2> QED
    BY <2>1, <2>2, SameStage
<1>6. CASE MakeFresh
  <2>1. run'.fresh \in [Keys -> Maybe]
    BY <1>6, <1>t, MadeFresh
  <2>2. run' \in RunState /\ run'.at = run.at /\ run'.mode = run.mode
    BY <1>6, <1>t, <2>1 DEF MakeFresh, RunState
  <2> QED
    BY <1>6, <1>t, <2>2, RunStep DEF MakeFresh, Alone
<1>7. ASSUME NEW s \in Secrets, ApplySecret(s) PROVE TypeInv'
  <2>1. Want \in [Keys -> Maybe]
    BY <1>t, FileIsValue DEF Want, RunState, Maybe
  <2>2. live' \in Contents
    BY <1>7, <1>t, <2>1 DEF ApplySecret, KeyNames, Contents, TypeOK, Maybe
  <2>3. run' \in RunState /\ run'.at = run.at /\ run'.mode = run.mode
    BY <1>7, <1>t DEF ApplySecret, RunState, Phases
  <2>4. TypeOK' /\ rehearsal' = rehearsal
    BY <1>7, <1>t, <2>2, <2>3 DEF ApplySecret, TypeOK, trees, argocd, outside
  <2> QED
    BY <2>3, <2>4, SameStage
<1>8. CASE Interrupt
  <2>1. TypeOK' /\ rehearsal' = rehearsal /\ run' = Idle
    BY <1>8, <1>t, IdleTypes, SeedConstants DEF Interrupt, ByHand, TypeOK, trees, secrets, argocd, outside
  <2>2. Idle.at <= Len(Plan(Idle.mode))
    BY <1>t, IdleTypes
  <2> QED
    BY <2>1, <2>2 DEF TypeInv, Plan
<1>s. ASSUME NEW s \in Secrets, Touch(s)
      PROVE  run' \in RunState /\ run'.at = run.at /\ run'.mode = run.mode
  BY <1>s, <1>t DEF Touch, RunState
<1>9. CASE Push
  <2>1. TypeOK' /\ rehearsal' = rehearsal /\ run' = run
    BY <1>9, <1>t, SeedConstants DEF Push, ByHand, TypeOK, secrets, argocd, outside
  <2> QED
    BY <2>1, SameStage
<1>10. ASSUME NEW r \in Revisions, Checkout(r) PROVE TypeInv'
  <2>1. TypeOK' /\ rehearsal' = rehearsal /\ run' = run
    BY <1>10, <1>t, SeedConstants DEF Checkout, ByHand, TypeOK, secrets, argocd, outside
  <2> QED
    BY <2>1, SameStage
<1>11. ASSUME NEW k \in Keys, SetKey(k) PROVE TypeInv'
  <2>1. Fresh(k, HandDraw) \in Maybe
    BY <1>d, <1>h, FreshIsValue DEF Maybe
  <2>2. live' \in Contents /\ foreign' \subseteq Held
    BY <1>11, <1>h, <1>t, <2>1 DEF SetKey, Contents, TypeOK
  <2>3. run' \in RunState /\ run'.at = run.at /\ run'.mode = run.mode
    <3>1. In[k] \in Secrets /\ Touch(In[k])
      BY <1>h, <1>11, InSecrets DEF SetKey
    <3> QED
      BY <1>s, <3>1
  <2>4. TypeOK' /\ rehearsal' = rehearsal
    BY <1>11, <1>t, <2>2, <2>3, SeedConstants DEF SetKey, ByHand, TypeOK, trees, argocd, outside
  <2> QED
    BY <2>3, <2>4, SameStage
<1>12. ASSUME NEW s \in Secrets, NEW K, Delete(s, K) PROVE TypeInv'
  <2>1. live' \in Contents /\ foreign' \subseteq Held
    BY <1>12, <1>t DEF Delete, Contents, TypeOK, Maybe
  <2>2. run' \in RunState /\ run'.at = run.at /\ run'.mode = run.mode
    BY <1>12, <1>s DEF Delete
  <2>3. TypeOK' /\ rehearsal' = rehearsal
    BY <1>12, <1>t, <2>1, <2>2, SeedConstants DEF Delete, ByHand, TypeOK, trees, argocd, outside
  <2> QED
    BY <2>2, <2>3, SameStage
<1>13. ASSUME NEW addresses \in SUBSET Addresses, ChangeGateway(addresses) PROVE TypeInv'
  <2>1. run' \in RunState /\ run'.at = run.at /\ run'.mode = run.mode
    BY <1>13, <1>t DEF ChangeGateway, RunState, Running
  <2>2. TypeOK' /\ rehearsal' = rehearsal
    BY <1>13, <1>t, <2>1, SeedConstants DEF ChangeGateway, ByHand, TypeOK, trees, secrets, argocd
  <2> QED
    BY <2>1, <2>2, SameStage
<1>14. ASSUME NEW h \in Hosts, NEW addresses \in SUBSET Addresses, ChangeZone(h, addresses) PROVE TypeInv'
  <2>1. TypeOK' /\ rehearsal' = rehearsal /\ run' = run
    BY <1>14, <1>t, SeedConstants DEF ChangeZone, ByHand, TypeOK, trees, secrets, argocd
  <2> QED
    BY <2>1, SameStage
<1>15. CASE GiveAddress \/ Scrape
  <2>1. TypeOK' /\ rehearsal' = rehearsal /\ run' = run
    BY <1>15, <1>t DEF GiveAddress, Scrape, TypeOK, trees, secrets, argocd
  <2> QED
    BY <2>1, SameStage
<1>16. ASSUME NEW a \in Apps, Refresh(a) \/ Sync(a) PROVE TypeInv'
  <2>1. app' \in [Apps -> Apart]
    BY <1>16, <1>t DEF Refresh, Sync, TypeOK, Apart
  <2>2. TypeOK' /\ rehearsal' = rehearsal /\ run' = run
    BY <1>16, <1>t, <2>1 DEF Refresh, Sync, TypeOK, trees, secrets, outside
  <2> QED
    BY <2>2, SameStage
<1>17. CASE UNCHANGED vars
  BY <1>17 DEF vars, TypeInv, TypeOK, Plan
<1>18. ASSUME NEW k \in Keys, Delete(In[k], {k}) PROVE TypeInv'
  <2>1. In[k] \in Secrets
    BY <1>h, InSecrets
  <2> QED
    BY <1>12, <1>18, <2>1
<1> QED
  BY <1>1, <1>2, <1>3, <1>4, <1>5, <1>6, <1>7, <1>8, <1>9, <1>10, <1>11, <1>12, <1>13, <1>14,
     <1>15, <1>16, <1>17, <1>18 DEF Next, Seed, People

LEMMA TypeInit == Init => TypeInv
<1> SUFFICES ASSUME Init PROVE TypeInv
  OBVIOUS
<1>1. live \in Contents /\ app \in [Apps -> Apart]
  BY DEF Init, Empty, Contents, Maybe, Apart
<1>2. zone \in [Hosts -> SUBSET Addresses] /\ byHand \in 0..MaxByHand
  BY SeedConstants DEF Init
<1>3. TypeOK
  BY <1>1, <1>2, IdleTypes DEF Init, TypeOK
<1> QED
  BY <1>3, IdleTypes DEF Init, TypeInv, TypeOK

(* Every variable keeps its type.                                          *)
THEOREM SeedTypes == Spec => []TypeOK
<1>1. TypeInv => TypeOK
  BY DEF TypeInv
<1> QED
  BY <1>1, TypeInit, TypeStep, PTL DEF Spec

-----------------------------------------------------------------------------
(* What moves the run, and what everyone else leaves of it.                *)

Acts == \/ ApplyCRDs \/ ApplyNamespaces \/ ApplyArgoCD \/ Wait \/ BuildDatabase

(* ArgoCD, the cloud, Prometheus and people while no run is interrupted.   *)
Others ==
    \/ Push \/ GiveAddress \/ Scrape
    \/ \E r \in Revisions : Checkout(r)
    \/ \E k \in Keys : SetKey(k)
    \/ \E s \in Secrets : \E K \in SUBSET HeldBy(s) : Delete(s, K)
    \/ \E addresses \in SUBSET Addresses : ChangeGateway(addresses)
    \/ \E h \in Hosts, addresses \in SUBSET Addresses : ChangeZone(h, addresses)
    \/ \E a \in Apps : Refresh(a) \/ Sync(a)

(* The run as it was, but for what is noted of people.                     *)
RunKept ==
    /\ run'.phase = run.phase /\ run'.at = run.at /\ run'.mode = run.mode
    /\ run'.tree = run.tree /\ run'.built = run.built
    /\ run'.todo = run.todo /\ run'.fresh = run.fresh /\ run'.got = run.got
    /\ run'.made = run.made /\ run.touched \subseteq run'.touched
    /\ run.moved => run'.moved

LEMMA NextIs ==
  ASSUME [Next]_vars
  PROVE  \/ \E mode \in Modes : Start(mode)
         \/ Probe \/ Check \/ Fail \/ Interrupt \/ Acts \/ MakeFresh
         \/ \E s \in Secrets : ApplySecret(s)
         \/ Others \/ UNCHANGED vars
<1>1. ASSUME NEW k \in Keys, Delete(In[k], {k}) PROVE Others
  <2>1. In[k] \in Secrets /\ {k} \in SUBSET HeldBy(In[k])
    BY InSecrets DEF HeldBy, Held
  <2> QED
    BY <1>1, <2>1 DEF Others
<1>2. ASSUME NEW s \in Secrets, Delete(s, HeldBy(s)) PROVE Others
  BY <1>2 DEF Others
<1> QED
  BY <1>1, <1>2 DEF Next, Seed, People, Acts, Others

LEMMA OthersKeep ==
  ASSUME run \in RunState, Others
  PROVE  /\ RunKept /\ rehearsal' = rehearsal
         /\ crds' = crds /\ namespaces' = namespaces /\ db' = db
<1>1. \A s : Touch(s) => RunKept
  BY DEF Touch, RunKept, RunState
<1>2. /\ run' = run => RunKept
      /\ \A addresses : ChangeGateway(addresses) => RunKept
  BY DEF ChangeGateway, RunKept, RunState
<1>3. \/ run' = run \/ \E s : Touch(s)
      \/ \E addresses : ChangeGateway(addresses)
  BY DEF Others, Push, GiveAddress, Scrape, Checkout, SetKey, Delete,
         ChangeZone, Refresh, Sync
<1>4. rehearsal' = rehearsal /\ crds' = crds /\ namespaces' = namespaces /\ db' = db
  BY DEF Others, Push, GiveAddress, Scrape, Checkout, SetKey, Delete, ChangeGateway,
         ChangeZone, Refresh, Sync, trees, outside
<1> QED
  BY <1>1, <1>2, <1>3, <1>4

(* The run's own steps: nothing but what they are for.                     *)
LEMMA ActsKeep ==
  ASSUME run \in RunState, Acts
  PROVE  /\ run' = [run EXCEPT !.phase = "check"] /\ UNCHANGED <<trees, secrets>>
         /\ gateway' = gateway /\ zone' = zone /\ byHand' = byHand /\ app' = app
BY DEF Acts, ApplyCRDs, ApplyNamespaces, ApplyArgoCD, Wait, BuildDatabase, Acted, argocd, outside

LEMMA PassedFields ==
  ASSUME run \in RunState
  PROVE  /\ Passed.tree = run.tree /\ Passed.built = run.built /\ Passed.mode = run.mode
         /\ Passed.todo \in {{}, run.todo} /\ Passed.fresh \in {NoFresh, run.fresh}
         /\ Passed.made = run.made /\ Passed.touched = run.touched /\ Passed.moved = run.moved
         /\ Passed.phase = "probe" => Passed.fresh = NoFresh
         /\ \/ Passed.phase = "done" /\ run.at = Len(Plan(run.mode)) /\ Passed.at = run.at
            \/ Passed.phase = "probe" /\ Passed.at = run.at + 1 /\ run.at # Len(Plan(run.mode))
         /\ Passed.phase = "probe" =>
               Passed.got = IF Stage = "lb-address" THEN gateway ELSE run.got
<1>1. CASE run.at = Len(Plan(run.mode))
  <2>1. Passed = [run EXCEPT !.phase = "done"]
    BY <1>1 DEF Passed
  <2> QED
    BY <1>1, <2>1 DEF RunState
<1>2. CASE run.at # Len(Plan(run.mode))
  <2>1. Passed = [run EXCEPT !.phase = "probe", !.at = @ + 1, !.todo = {}, !.fresh = NoFresh,
                             !.got = IF Stage = "lb-address" THEN gateway ELSE run.got]
    BY <1>2 DEF Passed
  <2> QED
    BY <1>2, <2>1 DEF RunState
<1> QED
  BY <1>1, <1>2

-----------------------------------------------------------------------------
(* No value of live reaches a rehearsal.                                   *)

(* The same of the values a run has made and not yet applied.              *)
ApartInv == rehearsal =>
    /\ \A k \in Held : live[k] # NoValue => live[k].draw # LiveDraw
    /\ \A k \in Keys : run.fresh[k] # NoValue => run.fresh[k].draw # LiveDraw

LEMMA NoFreshIsEmpty == \A k \in Keys : NoFresh[k] = NoValue
BY DEF NoFresh

LEMMA ApartStep == TypeInv /\ ApartInv /\ [Next]_vars => ApartInv'
<1> SUFFICES ASSUME TypeInv, ApartInv, [Next]_vars PROVE ApartInv'
  OBVIOUS
<1>t. TypeOK /\ run \in RunState
  BY DEF TypeInv, TypeOK
<1>1. ASSUME rehearsal' = rehearsal, secrets' = secrets, run'.fresh \in {NoFresh, run.fresh}
      PROVE  ApartInv'
  BY <1>1, NoFreshIsEmpty DEF ApartInv, secrets
<1>2. ASSUME NEW mode \in Modes, Start(mode) PROVE ApartInv'
  <2>1. run'.fresh = NoFresh
    BY <1>2 DEF Start, Idle
  <2> QED
    BY <1>1, <1>2, <2>1 DEF Start, trees
<1>3. CASE Probe \/ Check
  <2>1. run'.fresh \in {NoFresh, run.fresh}
    BY <1>3, <1>t, PassedFields DEF Probe, Check, RunState
  <2> QED
    BY <1>1, <1>3, <2>1 DEF Probe, Check, trees
<1>4. CASE Fail \/ Interrupt
  <2>1. run'.fresh = NoFresh
    BY <1>4 DEF Fail, Interrupt, Idle
  <2> QED
    BY <1>1, <1>4, <2>1 DEF Fail, Interrupt, trees
<1>5. CASE Acts
  <2>1. run'.fresh = run.fresh
    BY <1>5, <1>t, ActsKeep DEF RunState
  <2> QED
    BY <1>1, <1>5, <1>t, <2>1, ActsKeep DEF trees
<1>6. CASE MakeFresh
  BY <1>6, <1>t, MadeFresh DEF ApartInv, MakeFresh, trees, secrets
<1>7. ASSUME NEW s \in Secrets, ApplySecret(s) PROVE ApartInv'
  <2>1. run'.fresh = run.fresh /\ rehearsal' = rehearsal
    BY <1>7, <1>t DEF ApplySecret, RunState, trees
  <2>2. ASSUME rehearsal, NEW k \in Held, live'[k] # NoValue PROVE live'[k].draw # LiveDraw
    <3>1. live'[k] = IF k \in KeyNames(s) THEN Want[k]
                     ELSE IF k \in HeldBy(s) /\ k \notin foreign THEN NoValue ELSE live[k]
      BY <1>7 DEF ApplySecret
    <3>2. CASE k \in KeyNames(s)
      <4>1. live'[k] = run.fresh[k] /\ k \in Keys
        BY <2>2, <3>1, <3>2 DEF KeyNames, Want
      <4> QED
        BY <2>2, <4>1 DEF ApartInv
    <3>3. CASE k \notin KeyNames(s)
      BY <2>2, <3>1, <3>3 DEF ApartInv
    <3> QED
      BY <3>2, <3>3
  <2> QED
    BY <2>1, <2>2 DEF ApartInv
<1>8. CASE Others
  <2>1. run'.fresh = run.fresh /\ rehearsal' = rehearsal
    BY <1>8, <1>t, OthersKeep DEF RunKept
  <2>2. ASSUME NEW k \in Keys, SetKey(k) PROVE ApartInv'
    <3>1. Fresh(k, HandDraw).draw # LiveDraw
      BY NamedDraws DEF Fresh
    <3> QED
      BY <2>1, <2>2, <3>1, <1>t DEF SetKey, ApartInv, TypeOK, Contents
  <2>3. ASSUME NEW s \in Secrets, NEW K, Delete(s, K) PROVE ApartInv'
    BY <2>1, <2>3 DEF Delete, ApartInv
  <2>4. CASE secrets' = secrets
    BY <1>1, <2>1, <2>4
  <2> QED
    BY <1>8, <2>2, <2>3, <2>4 DEF Others, Push, GiveAddress, Scrape, Checkout, ChangeGateway,
       ChangeZone, Refresh, Sync
<1>9. CASE UNCHANGED vars
  BY <1>1, <1>9 DEF vars, secrets
<1> QED
  BY <1>2, <1>3, <1>4, <1>5, <1>6, <1>7, <1>8, <1>9, NextIs

(* No value of a file or of a live item reaches a rehearsal's cluster,     *)
(* inside a copy's format neither (fresh.go Fresh, key.go ForRehearsal).   *)
THEOREM RehearsalHasNoLiveValue == Spec => []RehearsalApart
<1>1. Init => ApartInv
  BY NoFreshIsEmpty DEF Init, ApartInv, Empty, Idle
<1>2. ApartInv => RehearsalApart
  BY DEF ApartInv, RehearsalApart
<1> QED
  BY <1>1, <1>2, TypeInit, TypeStep, ApartStep, PTL DEF Spec

-----------------------------------------------------------------------------
(* A value in use stays.                                                   *)

(* A Secret a run is about to make holds nothing but what someone set      *)
(* since the Probe, which another manager owns.                            *)
TodoInv == rehearsal =>
    \A s \in run.todo : \A k \in HeldBy(s) : live[k] # NoValue => k \in foreign

LEMMA TodoStep == TypeInv /\ TodoInv /\ [Next]_vars => TodoInv'
<1> SUFFICES ASSUME TypeInv, TodoInv, [Next]_vars PROVE TodoInv'
  OBVIOUS
<1>t. TypeOK /\ run \in RunState
  BY DEF TypeInv, TypeOK
<1>1. ASSUME rehearsal' = rehearsal, secrets' = secrets, run'.todo \in {{}, run.todo}
      PROVE  TodoInv'
  BY <1>1 DEF TodoInv, secrets, HeldBy
<1>2. ASSUME NEW mode \in Modes, Start(mode) PROVE TodoInv'
  <2>1. run'.todo = {}
    BY <1>2 DEF Start, Idle
  <2> QED
    BY <1>1, <1>2, <2>1 DEF Start, trees
<1>3. CASE Probe \/ Check
  <2>0. rehearsal' = rehearsal /\ secrets' = secrets
    BY <1>3 DEF Probe, Check, trees
  <2>1. CASE run' = Passed
    BY <1>1, <1>t, <2>0, <2>1, PassedFields
  <2>2. CASE run' = [run EXCEPT !.phase = "act",
                                !.todo = IF Stage = "seed-secrets" THEN ToMake ELSE {}]
    <3>1. run'.todo \in {{}, ToMake}
      BY <1>t, <2>2 DEF RunState
    <3>2. rehearsal => \A s \in ToMake : \A k \in HeldBy(s) : live[k] = NoValue
      BY DEF ToMake, Absent, Present
    <3> QED
      BY <2>0, <3>1, <3>2 DEF TodoInv, secrets, HeldBy
  <2> QED
    BY <1>3, <2>1, <2>2 DEF Probe, Check
<1>4. CASE Fail \/ Interrupt
  <2>1. run'.todo = {}
    BY <1>4 DEF Fail, Interrupt, Idle
  <2> QED
    BY <1>1, <1>4, <2>1 DEF Fail, Interrupt, trees
<1>5. CASE Acts \/ MakeFresh
  <2>1. run'.todo = run.todo
    BY <1>5, <1>t, ActsKeep DEF RunState, MakeFresh
  <2> QED
    BY <1>1, <1>5, <1>t, <2>1, ActsKeep DEF trees, MakeFresh
<1>6. ASSUME NEW s \in Secrets, ApplySecret(s) PROVE TodoInv'
  <2>1. run'.todo = run.todo \ {s} /\ rehearsal' = rehearsal /\ foreign' = foreign
    BY <1>6, <1>t DEF ApplySecret, RunState, trees
  <2>2. \A other \in run.todo \ {s} : \A k \in HeldBy(other) : live'[k] = live[k]
    <3> SUFFICES ASSUME NEW other \in run.todo \ {s}, NEW k \in HeldBy(other)
                 PROVE  live'[k] = live[k]
      OBVIOUS
    <3>1. k \in Held /\ k \notin HeldBy(s) /\ k \notin KeyNames(s)
      BY DEF HeldBy, KeyNames
    <3> QED
      BY <1>6, <3>1 DEF ApplySecret
  <2> QED
    BY <2>1, <2>2 DEF TodoInv, HeldBy
<1>7. CASE Others
  <2>1. run'.todo = run.todo /\ rehearsal' = rehearsal
    BY <1>7, <1>t, OthersKeep DEF RunKept
  <2>2. ASSUME NEW k \in Keys, SetKey(k) PROVE TodoInv'
    BY <1>t, <2>1, <2>2 DEF SetKey, TodoInv, TypeOK, Contents, HeldBy
  <2>3. ASSUME NEW s \in Secrets, NEW K, Delete(s, K) PROVE TodoInv'
    BY <2>1, <2>3 DEF Delete, TodoInv, HeldBy
  <2>4. CASE secrets' = secrets
    BY <1>1, <2>1, <2>4
  <2> QED
    BY <1>7, <2>2, <2>3, <2>4 DEF Others, Push, GiveAddress, Scrape, Checkout, ChangeGateway,
       ChangeZone, Refresh, Sync
<1>8. CASE UNCHANGED vars
  BY <1>1, <1>8 DEF vars, secrets
<1> QED
  BY <1>2, <1>3, <1>4, <1>5, <1>6, <1>7, <1>8, NextIs

(* An apply over what it finds: refused, or nothing new.                   *)
LEMMA OnceStep ==
  ASSUME TypeInv, TodoInv, [Next]_vars, rehearsal, byHand' = byHand,
         NEW k \in Keys, live[k] # NoValue
  PROVE  live'[k] = live[k]
<1>t. byHand \in Nat /\ k \in Held
  BY SeedConstants DEF TypeInv, TypeOK, Held
<1>1. ASSUME NEW s \in Secrets, ApplySecret(s) PROVE live'[k] = live[k]
  <2>1. CASE k \in KeyNames(s)
    <3>1. k \in HeldBy(s) /\ s \in run.todo
      BY <1>1, <1>t, <2>1 DEF KeyNames, HeldBy, ApplySecret, IsFirst
    <3>2. k \in foreign
      BY <3>1 DEF TodoInv
    <3> QED
      BY <1>1, <1>t, <2>1, <3>2 DEF ApplySecret, Accepted
  <2>2. CASE k \notin KeyNames(s)
    BY <1>1, <1>t, <2>2 DEF ApplySecret, KeyNames, HeldBy
  <2> QED
    BY <2>1, <2>2
<1>2. CASE Others
  <2>1. ~ByHand
    BY <1>t DEF ByHand
  <2> QED
    BY <1>2, <2>1 DEF Others, Push, GiveAddress, Scrape, Checkout, SetKey, Delete, ChangeGateway,
       ChangeZone, Refresh, Sync, secrets
<1>3. CASE (\E mode \in Modes : Start(mode)) \/ Probe \/ Check \/ Fail \/ Interrupt \/ MakeFresh
  BY <1>3 DEF Start, Probe, Check, Fail, Interrupt, MakeFresh, secrets
<1>4. CASE Acts
  BY <1>4, ActsKeep DEF TypeInv, TypeOK, secrets
<1>5. CASE UNCHANGED vars
  BY <1>5 DEF vars
<1> QED
  BY <1>1, <1>2, <1>3, <1>4, <1>5, NextIs

(* A value on a rehearsal's cluster is in use: no seed changes it, though  *)
(* a Secret may appear between the Probe and the apply, and a run may stop *)
(* between two Secrets (stages.go Secrets, fresh.go HasKeys).              *)
THEOREM ValuesInUseStay == Spec => FreshOnce
<1>1. Init => TodoInv
  BY DEF Init, Idle, TodoInv
<1>2. TypeInv /\ TodoInv /\ [Next]_vars =>
        [(rehearsal /\ byHand' = byHand) =>
            \A k \in Keys : live[k] # NoValue => live'[k] = live[k]]_vars
  BY OnceStep
<1> QED
  BY <1>1, <1>2, TypeInit, TypeStep, TodoStep, PTL DEF Spec, FreshOnce

-----------------------------------------------------------------------------
(* A place for each Application.                                           *)

(* What a run has read stays what it was built from, and what its Stages   *)
(* have made stays on the cluster.                                         *)
PlaceInv == Running =>
    /\ run.tree = head /\ run.tree \in Revisions /\ run.built \in Revisions
    /\ synced \in {run.built, run.tree}
    /\ Buildable(run.tree, run.built)
    /\ run.at >= 2 => crds # None
    /\ run.at >= 3 => Makes(run.tree) \subseteq namespaces

(* The first two Stages pass when they have done what they are for.        *)
LEMMA FirstStages ==
  ASSUME TypeInv, Done(Stage)
  PROVE  /\ run.at = 1 => crds = run.tree
         /\ run.at = 2 => Makes(run.tree) \subseteq namespaces
<1>1. run.at \in 1..10 /\ run.mode \in Modes /\ run.at <= Len(Plan(run.mode)) /\ rehearsal \in BOOLEAN
  BY DEF TypeInv, TypeOK, RunState
<1>2. run.at = 1 => Stage = "seed-crds"
  BY <1>1, StagesAt DEF Stage
<1>3. run.at = 2 => Stage = "seed-namespaces"
  BY <1>1, StagesAt DEF Stage
<1> QED
  BY <1>2, <1>3 DEF Done

LEMMA PlaceStep == TypeInv /\ PlaceInv /\ [Next]_vars => PlaceInv'
<1> SUFFICES ASSUME TypeInv, PlaceInv, [Next]_vars PROVE PlaceInv'
  OBVIOUS
<1>t. TypeOK /\ run \in RunState /\ run.at \in 1..10 /\ None \notin Revisions
  BY SeedConstants DEF TypeInv, TypeOK, RunState
<1>1. ASSUME NEW mode \in Modes, Start(mode) PROVE PlaceInv'
  <2>1. run'.tree = head /\ run'.built = synced /\ run'.at = 1
    BY <1>1 DEF Start, Idle
  <2>2. head' = head /\ synced' = synced /\ Buildable(head, synced)' = Buildable(head, synced)
    BY <1>1 DEF Start, trees, Buildable, Makes
  <2> QED
    BY <1>1, <1>t, <2>1, <2>2 DEF PlaceInv, Start, TypeOK, Buildable, Makes
<1>2. CASE Probe \/ Check
  <2>0. Running /\ Alone
    BY <1>2 DEF Probe, Check, Running, Alone
  <2>1. CASE run' = Passed
    <3>1. Done(Stage)
      <4>1. CASE Probe /\ ~Done(Stage)
        <5>1. run'.phase = "act"
          BY <1>t, <4>1 DEF Probe, RunState
        <5> QED
          BY <1>t, <2>1, <5>1, PassedFields
      <4> QED
        BY <1>2, <4>1 DEF Check
    <3>2. (run.at = 1 => crds # None) /\ (run.at = 2 => Makes(run.tree) \subseteq namespaces)
      BY <1>t, <2>0, <3>1, FirstStages DEF PlaceInv
    <3>3. run'.tree = run.tree /\ run'.built = run.built /\ run'.at \in {run.at, run.at + 1}
      BY <1>t, <2>1, PassedFields
    <3>4. (run'.at >= 2 => crds # None) /\ (run'.at >= 3 => Makes(run.tree) \subseteq namespaces)
      <4> DEFINE i == run.at
                 j == run'.at
      <4>1. i \in 1..10 /\ j \in {i, i + 1}
        BY <1>t, <3>3
      <4>2. /\ i = 1 \/ i >= 2 => crds # None
            /\ i = 2 \/ i >= 3 => Makes(run.tree) \subseteq namespaces
        BY <2>0, <3>2 DEF PlaceInv
      <4> HIDE DEF i, j
      <4>3. (j >= 2 => crds # None) /\ (j >= 3 => Makes(run.tree) \subseteq namespaces)
        BY <4>1, <4>2
      <4> QED
        BY <4>3 DEF j
    <3> QED
      BY <2>0, <3>3, <3>4 DEF PlaceInv, Alone, trees, Buildable, Makes
  <2>2. CASE run' = [run EXCEPT !.phase = "act",
                                !.todo = IF Stage = "seed-secrets" THEN ToMake ELSE {}]
    <3>1. run'.tree = run.tree /\ run'.built = run.built /\ run'.at = run.at
      BY <1>t, <2>2 DEF RunState
    <3> QED
      BY <2>0, <3>1 DEF PlaceInv, Alone, trees, Buildable, Makes
  <2> QED
    BY <1>2, <2>1, <2>2 DEF Probe, Check
<1>3. CASE Fail \/ Interrupt
  BY <1>3 DEF Fail, Interrupt, PlaceInv, Running, Idle
<1>4. CASE Acts
  <2>1. run'.tree = run.tree /\ run'.built = run.built /\ run'.at = run.at
        /\ UNCHANGED <<rehearsal, head, synced>>
    BY <1>4, <1>t, ActsKeep DEF RunState, trees
  <2>2. Running
    BY <1>4 DEF Acts, ApplyCRDs, ApplyNamespaces, ApplyArgoCD, Wait, BuildDatabase, On, Running
  <2>3. crds' \in {crds, run.tree} /\ namespaces \subseteq namespaces'
    BY <1>4 DEF Acts, ApplyCRDs, ApplyNamespaces, ApplyArgoCD, Wait, BuildDatabase
  <2> QED
    BY <1>t, <2>1, <2>2, <2>3 DEF PlaceInv, Buildable, Makes
<1>5. CASE MakeFresh \/ \E s \in Secrets : ApplySecret(s)
  <2>1. run'.tree = run.tree /\ run'.built = run.built /\ run'.at = run.at
        /\ UNCHANGED <<rehearsal, head, synced, crds, namespaces>>
    BY <1>5, <1>t DEF MakeFresh, ApplySecret, RunState, trees
  <2>2. Running
    BY <1>5 DEF MakeFresh, ApplySecret, On, Running
  <2> QED
    BY <2>1, <2>2 DEF PlaceInv, Buildable, Makes
<1>6. CASE Others
  <2>1. RunKept /\ rehearsal' = rehearsal /\ crds' = crds /\ namespaces' = namespaces
    BY <1>6, <1>t, OthersKeep
  <2>2. Running' => Running
    BY <2>1 DEF RunKept, Running
  <2>3. Running => head' = head /\ synced' \in {synced, head}
    BY <1>6 DEF Others, Push, GiveAddress, Scrape, Checkout, SetKey, Delete, ChangeGateway,
         ChangeZone, Refresh, Sync, trees
  <2> QED
    BY <2>1, <2>2, <2>3 DEF PlaceInv, RunKept, Buildable, Makes
<1>7. CASE UNCHANGED vars
  BY <1>7 DEF vars, PlaceInv, Running, Buildable, Makes
<1> QED
  BY <1>1, <1>2, <1>3, <1>4, <1>5, <1>6, <1>7, NextIs

(* What ArgoCD is told, it can do.                                         *)
LEMMA RoomStep ==
  ASSUME TypeInv, PlaceInv, [Next]_vars, On("seed-argocd", "act"), argo' # argo,
         NEW a \in Elements[argo']
  PROVE  Home[a] \in namespaces /\ crds # None
<1>t. run \in RunState /\ run.at \in 1..10 /\ run.mode \in Modes /\ run.at <= Len(Plan(run.mode))
      /\ rehearsal \in BOOLEAN
  BY DEF TypeInv, TypeOK, RunState
<1>1. Running /\ run.at = 4
  BY <1>t, StagesAt DEF On, Running, Stage
<1>2. /\ crds # None /\ Makes(run.tree) \subseteq namespaces
      /\ Buildable(run.tree, run.built) /\ synced \in {run.built, run.tree}
  BY <1>1 DEF PlaceInv
<1>3. argo' \in {run.built, synced}
  <2>1. CASE Others
    BY <2>1 DEF Others, Push, GiveAddress, Scrape, Checkout, SetKey, Delete, ChangeGateway,
       ChangeZone, Refresh, Sync, argocd
  <2>2. CASE Acts
    BY <2>2 DEF Acts, ApplyCRDs, ApplyNamespaces, ApplyArgoCD, Wait, BuildDatabase, argocd
  <2>3. CASE Probe \/ Check \/ Fail \/ Interrupt \/ MakeFresh \/ (\E s \in Secrets : ApplySecret(s))
             \/ (\E mode \in Modes : Start(mode)) \/ UNCHANGED vars
    BY <2>3 DEF Probe, Check, Fail, Interrupt, MakeFresh, ApplySecret, Start, argocd, vars
  <2> QED
    BY <2>1, <2>2, <2>3, NextIs
<1> QED
  BY <1>2, <1>3 DEF Buildable

(* ArgoCD is never told by a seed to sync an Application into a Namespace  *)
(* the cluster does not have: it would try for ever (plan.go inNamespaces).*)
THEOREM EachHasRoom == Spec => RoomForEach
<1>1. Init => PlaceInv
  BY DEF Init, Idle, PlaceInv, Running
<1>2. TypeInv /\ PlaceInv /\ [Next]_vars =>
        [On("seed-argocd", "act") /\ argo' # argo =>
           \A a \in Elements[argo'] : Home[a] \in namespaces /\ crds # None]_vars
  BY RoomStep
<1> QED
  BY <1>1, <1>2, TypeInit, TypeStep, PlaceStep, PTL DEF Spec, RoomForEach

-----------------------------------------------------------------------------
(* A copy made with its source holds the source's value.                   *)

(* What the fresh values of a run are to each other.                       *)
FreshAgree == \A k \in Copies : In[k] \in Made(run.tree) =>
    In[From[k]] \in Made(run.tree) /\ run.fresh[k] = Render(k, run.fresh[From[k]])

(* The copies whose source is in S with them.                              *)
ClosedIn(S) == \A k \in Copies : In[k] \in S =>
    In[From[k]] \in S \/ In[From[k]] \notin Made(run.tree)

(* Every copy the run made beside its source, both untouched since.        *)
CopiesRight == \A k \in Copies :
    In[k] \in run.made /\ {In[k], In[From[k]]} \intersect run.touched = {} =>
        live[k] = Render(k, live[From[k]])

(* While seed-secrets acts: what it has made and has yet to make, and that *)
(* what it has made and nobody touched is what it drew.                    *)
AtWork ==
    /\ run.phase = "check" => run.todo = {}
    /\ run.made \union run.todo \subseteq Made(run.tree)
    /\ run.made # {} => rehearsal /\ run.fresh # NoFresh
    /\ rehearsal => ClosedIn(run.made \union run.todo)
    /\ run.fresh # NoFresh => FreshAgree
    /\ \A k \in Keys : In[k] \in run.made \ run.touched => live[k] = run.fresh[k]

MakingInv == Running =>
    /\ run.phase = "probe" => run.fresh = NoFresh
    /\ run.at < 3 \/ (run.at = 3 /\ run.phase = "probe") => run.made = {}
    /\ run.at = 3 /\ run.phase # "probe" => AtWork
    /\ run.at > 3 => CopiesRight

LEMMA MadeAgree ==
  ASSUME run \in RunState, MakeFresh
  PROVE  \A k \in Copies : In[k] \in Made(run.tree) =>
           In[From[k]] \in Made(run.tree) /\ run'.fresh[k] = Render(k, run'.fresh[From[k]])
<1> DEFINE draw == [g \in Generated |-> Draw(g)]
           fresh == [k \in Keys |-> IF In[k] \notin Made(run.tree) THEN NoValue
                                    ELSE FreshValue(k, draw)]
<1>1. run'.fresh = fresh
  BY DEF MakeFresh, RunState
<1> HIDE DEF draw
<1> SUFFICES ASSUME NEW k \in Copies, In[k] \in Made(run.tree)
             PROVE  In[From[k]] \in Made(run.tree) /\ fresh[k] = Render(k, fresh[From[k]])
  BY <1>1
<1>2. In[From[k]] \in Made(run.tree)
  BY KindsDivide DEF MakeFresh, CanBeFresh
<1>3. /\ k \in Keys /\ k \notin Literals
      /\ From[k] \in Keys /\ From[k] \notin Literals /\ From[k] \notin Copies
  BY KindsDivide DEF Copies, Literals, Generated, Issued, OfKind
<1>4. FreshValue(k, draw) = Render(k, FreshSource(From[k], draw))
  BY <1>3 DEF FreshValue
<1>5. FreshValue(From[k], draw) = FreshSource(From[k], draw)
  BY <1>3 DEF FreshValue
<1> QED
  BY <1>2, <1>3, <1>4, <1>5

(* The Probe finds a copy absent only beside an absent source.             *)
LEMMA AbsentTogether ==
  ASSUME rehearsal, ~ApartFromSource
  PROVE  /\ ToMake \subseteq Made(run.tree)
         /\ ClosedIn(ToMake)
<1>1. ToMake = Absent
  BY DEF ToMake
<1>2. ASSUME NEW k \in Copies, In[k] \in Absent, In[From[k]] \in Made(run.tree)
      PROVE  In[From[k]] \in Absent
  BY <1>2 DEF ApartFromSource, Absent
<1> QED
  BY <1>1, <1>2 DEF ClosedIn, Absent

(* What was made is right once all of it is.                               *)
LEMMA WorkDone ==
  ASSUME AtWork, run.todo = {}
  PROVE  CopiesRight
<1> SUFFICES ASSUME NEW k \in Copies, In[k] \in run.made,
                    {In[k], In[From[k]]} \intersect run.touched = {}
             PROVE  live[k] = Render(k, live[From[k]])
  BY DEF CopiesRight
<1>1. rehearsal /\ FreshAgree /\ In[k] \in Made(run.tree)
  BY DEF AtWork
<1>2. In[From[k]] \in run.made
  BY <1>1 DEF AtWork, ClosedIn, FreshAgree
<1>3. k \in Keys /\ From[k] \in Keys
  BY KindsDivide DEF Copies, Generated, Issued, OfKind
<1>4. live[k] = run.fresh[k] /\ live[From[k]] = run.fresh[From[k]]
  BY <1>2, <1>3 DEF AtWork
<1> QED
  BY <1>1, <1>4 DEF FreshAgree

(* What a person changes, they touch.                                      *)
LEMMA OthersTouch ==
  ASSUME TypeInv, Others, Running, NEW k \in Held, In[k] \notin run'.touched
  PROVE  live'[k] = live[k] /\ In[k] \notin run.touched
<1>t. run \in RunState /\ live \in Contents
  BY DEF TypeInv, TypeOK
<1>1. In[k] \notin run.touched
  BY <1>t, OthersKeep DEF RunKept
<1>2. ASSUME NEW h \in Keys, SetKey(h) PROVE live'[k] = live[k]
  <2>1. In[h] \in run'.touched
    BY <1>t, <1>2 DEF SetKey, Touch, RunState
  <2>2. h # k
    BY <2>1
  <2> QED
    BY <1>t, <1>2, <2>2 DEF SetKey, Contents
<1>3. ASSUME NEW s \in Secrets, NEW K \in SUBSET HeldBy(s), Delete(s, K) PROVE live'[k] = live[k]
  <2>1. s \in run'.touched
    BY <1>t, <1>3 DEF Delete, Touch, RunState
  <2>2. k \notin K
    BY <2>1 DEF HeldBy
  <2>3. live' = [h \in Held |-> IF h \in K THEN NoValue ELSE live[h]]
    BY <1>3 DEF Delete
  <2> QED
    BY <2>2, <2>3
<1>4. CASE secrets' = secrets
  BY <1>1, <1>4 DEF secrets
<1> QED
  BY <1>1, <1>2, <1>3, <1>4 DEF Others, Push, GiveAddress, Scrape, Checkout, ChangeGateway,
     ChangeZone, Refresh, Sync

(* Nothing that reads the catalog or the tree alone changes in a step.     *)
LEMMA TreeKept ==
  ASSUME rehearsal' = rehearsal, run'.tree = run.tree
  PROVE  Made(run.tree)' = Made(run.tree)
BY DEF Made, Makes

LEMMA CopiesStay ==
  ASSUME CopiesRight, run'.made = run.made, run.touched \subseteq run'.touched,
         \A k \in Held : In[k] \notin run'.touched => live'[k] = live[k]
  PROVE  CopiesRight'
<1> SUFFICES ASSUME NEW k \in Copies, In[k] \in run.made,
                    {In[k], In[From[k]]} \intersect run'.touched = {}
             PROVE  live'[k] = Render(k, live'[From[k]])
  BY DEF CopiesRight
<1>1. k \in Held /\ From[k] \in Held
  BY KindsDivide DEF Held
<1>2. live'[k] = live[k] /\ live'[From[k]] = live[From[k]]
  BY <1>1
<1> QED
  BY <1>2 DEF CopiesRight

LEMMA WorkStays ==
  ASSUME AtWork, rehearsal' = rehearsal, run'.tree = run.tree, run'.phase = run.phase,
         run'.made = run.made, run'.todo = run.todo, run'.fresh = run.fresh,
         run.touched \subseteq run'.touched,
         \A k \in Held : In[k] \notin run'.touched => live'[k] = live[k]
  PROVE  AtWork'
<1>1. Made(run.tree)' = Made(run.tree)
  BY TreeKept
<1>2. FreshAgree' <=> FreshAgree
  BY <1>1 DEF FreshAgree
<1>3. ClosedIn(run.made \union run.todo)' <=> ClosedIn(run.made \union run.todo)
  BY <1>1 DEF ClosedIn
<1>4. \A k \in Keys : In[k] \in run.made \ run'.touched => live'[k] = run.fresh[k]
  BY DEF AtWork, Held
<1> QED
  BY <1>1, <1>2, <1>3, <1>4 DEF AtWork

(* One Secret more.                                                        *)
LEMMA OneMore ==
  ASSUME TypeInv, AtWork, NEW s \in Secrets, ApplySecret(s)
  PROVE  AtWork'
<1>t. run \in RunState
  BY DEF TypeInv, TypeOK
<1>1. /\ s \in run.todo /\ run.phase = "act" /\ rehearsal' = rehearsal
      /\ rehearsal => run.fresh # NoFresh
  BY DEF ApplySecret, IsFirst, On, trees
<1>2. /\ run'.todo = run.todo \ {s} /\ run'.tree = run.tree /\ run'.fresh = run.fresh
      /\ run'.phase = IF run.todo = {s} THEN "check" ELSE run.phase
      /\ run'.made = (IF rehearsal THEN run.made \union {s} ELSE run.made)
      /\ run'.touched = run.touched \ {s}
  BY <1>t DEF ApplySecret, RunState
<1>3. Made(run.tree)' = Made(run.tree)
  BY <1>1, <1>2, TreeKept
<1>4. rehearsal => run'.made \union run'.todo = run.made \union run.todo
  BY <1>1, <1>2
<1>5. rehearsal => ClosedIn(run'.made \union run'.todo)
  BY <1>4 DEF AtWork
<1>6. rehearsal' => ClosedIn(run.made \union run.todo)'
  BY <1>1, <1>3, <1>5 DEF ClosedIn
<1>7. run'.fresh # NoFresh => FreshAgree'
  BY <1>2, <1>3 DEF AtWork, FreshAgree
<1>8. ASSUME NEW k \in Keys, In[k] \in run'.made \ run'.touched PROVE live'[k] = run'.fresh[k]
  <2>1. rehearsal
    BY <1>2, <1>8 DEF AtWork
  <2>2. k \in Held
    BY DEF Held
  <2>3. CASE In[k] = s
    <3>1. k \in KeyNames(s)
      BY <2>3 DEF KeyNames
    <3>2. live'[k] = Want[k]
      BY <2>2, <3>1 DEF ApplySecret
    <3> QED
      BY <1>2, <2>1, <3>2 DEF Want
  <2>4. CASE In[k] # s
    <3>1. k \notin KeyNames(s) /\ k \notin HeldBy(s)
      BY <2>4 DEF KeyNames, HeldBy
    <3>2. live'[k] = live[k]
      BY <2>2, <3>1 DEF ApplySecret
    <3>3. In[k] \in run.made \ run.touched
      BY <1>2, <1>8, <2>4
    <3> QED
      BY <1>2, <3>2, <3>3 DEF AtWork
  <2> QED
    BY <2>3, <2>4
<1>9. run'.made \union run'.todo \subseteq Made(run.tree)
  BY <1>1, <1>2 DEF AtWork
<1>10. run'.made # {} => rehearsal /\ run'.fresh # NoFresh
  BY <1>1, <1>2 DEF AtWork
<1>11. run'.phase = "check" => run'.todo = {}
  BY <1>1, <1>2
<1> QED
  BY <1>1, <1>3, <1>6, <1>7, <1>8, <1>9, <1>10, <1>11 DEF AtWork

LEMMA MakingStep == TypeInv /\ MakingInv /\ [Next]_vars => MakingInv'
<1> SUFFICES ASSUME TypeInv, MakingInv, [Next]_vars PROVE MakingInv'
  OBVIOUS
<1>t. TypeOK /\ run \in RunState /\ run.at \in 1..10 /\ run.mode \in Modes
      /\ run.at <= Len(Plan(run.mode)) /\ rehearsal \in BOOLEAN
  BY DEF TypeInv, TypeOK, RunState
<1>1. ASSUME NEW mode \in Modes, Start(mode) PROVE MakingInv'
  <2>1. run'.at = 1 /\ run'.made = {} /\ run'.fresh = NoFresh
    BY <1>1 DEF Start, Idle
  <2>2. ~(run'.at > 3) /\ ~(run'.at = 3)
    BY <2>1
  <2> QED
    BY <2>1, <2>2 DEF MakingInv
<1>2. CASE Probe \/ Check
  <2>0. Running /\ Alone /\ ~Errs(Stage)
    BY <1>2 DEF Probe, Check, Running, Alone
  <2>a. rehearsal' = rehearsal /\ live' = live
    BY <2>0 DEF Alone, trees, secrets
  <2>1. CASE run' = Passed
    <3>1. SUFFICES ASSUME Running' PROVE MakingInv'
      BY DEF MakingInv
    <3>2. /\ run'.phase = "probe" /\ run'.at = run.at + 1 /\ run'.fresh = NoFresh
          /\ run'.made = run.made /\ run'.touched = run.touched
      BY <1>t, <2>1, <3>1, PassedFields DEF Running
    <3>3. /\ run'.at <= 3 => run.at < 3
          /\ run'.at > 3 => run.at = 3 \/ run.at > 3
          /\ run.at < 3 /\ run'.at > 3 => FALSE
      <4> DEFINE i == run.at
                 j == run'.at
      <4>1. i \in 1..10 /\ j = i + 1
        BY <1>t, <3>2
      <4> HIDE DEF i, j
      <4>2. /\ j <= 3 => i < 3
            /\ j > 3 => i = 3 \/ i > 3
            /\ i < 3 /\ j > 3 => FALSE
        BY <4>1
      <4> QED
        BY <4>2 DEF i, j
    <3>4. run'.at < 3 \/ run'.at = 3 => run.made = {}
      BY <1>t, <2>0, <3>2, <3>3 DEF MakingInv
    <3>5. run'.at > 3 => CopiesRight
      <4>1. CASE run.at = 3 /\ run.phase = "probe"
        BY <2>0, <4>1 DEF MakingInv, CopiesRight
      <4>2. CASE run.at = 3 /\ run.phase # "probe"
        <5>1. AtWork /\ Check
          BY <1>2, <2>0, <4>2 DEF MakingInv, Probe
        <5>2. run.todo = {}
          BY <5>1 DEF AtWork, Check
        <5> QED
          BY <5>1, <5>2, WorkDone
      <4>3. CASE run.at > 3
        BY <2>0, <4>3 DEF MakingInv
      <4> QED
        BY <3>3, <4>1, <4>2, <4>3
    <3>6. CopiesRight => CopiesRight'
      BY <2>a, <3>2 DEF CopiesRight
    <3> QED
      BY <3>2, <3>4, <3>5, <3>6 DEF MakingInv
  <2>2. CASE Probe /\ run' = [run EXCEPT !.phase = "act",
                                !.todo = IF Stage = "seed-secrets" THEN ToMake ELSE {}]
    <3>1. /\ run'.phase = "act" /\ run'.at = run.at /\ run'.tree = run.tree
          /\ run'.made = run.made /\ run'.touched = run.touched /\ run'.fresh = run.fresh
          /\ run'.todo = IF Stage = "seed-secrets" THEN ToMake ELSE {}
          /\ run.phase = "probe"
      BY <1>t, <2>2 DEF RunState, Probe
    <3>2. CopiesRight => CopiesRight'
      BY <2>a, <3>1 DEF CopiesRight
    <3>3. ASSUME run.at = 3 PROVE AtWork'
      <4>1. Stage = "seed-secrets"
        BY <1>t, <3>3, StagesAt DEF Stage
      <4>2. run'.made = {} /\ run'.todo = ToMake /\ run'.fresh = NoFresh
        BY <2>0, <3>1, <3>3, <4>1 DEF MakingInv
      <4>3. Made(run.tree)' = Made(run.tree)
        BY <2>a, <3>1, TreeKept
      <4>4. rehearsal => ClosedIn(ToMake)
        BY <2>0, <4>1, AbsentTogether DEF Errs
      <4>5. rehearsal => ClosedIn(run.made \union run.todo)'
        BY <4>2, <4>3, <4>4 DEF ClosedIn
      <4>6. ToMake \subseteq Made(run.tree)
        BY DEF ToMake, Absent
      <4> QED
        BY <2>a, <3>1, <4>2, <4>3, <4>5, <4>6 DEF AtWork
    <3>4. run'.at < 3 => run'.made = {}
      BY <2>0, <3>1 DEF MakingInv
    <3> QED
      BY <2>0, <3>1, <3>2, <3>3, <3>4 DEF MakingInv
  <2> QED
    BY <1>2, <2>1, <2>2 DEF Probe, Check
<1>3. CASE Fail \/ Interrupt
  BY <1>3 DEF Fail, Interrupt, MakingInv, Running, Idle
<1>4. CASE Acts
  <2>1. /\ run'.phase = "check" /\ run'.at = run.at /\ run'.made = run.made
        /\ run'.touched = run.touched /\ live' = live
    BY <1>4, <1>t, ActsKeep DEF RunState, secrets
  <2>2. Running /\ run.phase = "act" /\ Stage # "seed-secrets"
    BY <1>4 DEF Acts, ApplyCRDs, ApplyNamespaces, ApplyArgoCD, Wait, Waits, BuildDatabase, On, Running
  <2>3. run.at # 3
    BY <1>t, <2>2, StagesAt DEF Stage
  <2>4. CopiesRight => CopiesRight'
    BY <2>1 DEF CopiesRight
  <2> QED
    BY <2>1, <2>2, <2>3, <2>4 DEF MakingInv
<1>5. CASE MakeFresh
  <2>1. /\ run'.phase = run.phase /\ run'.at = run.at /\ run'.made = run.made /\ run'.tree = run.tree
        /\ run'.todo = run.todo /\ run'.touched = run.touched
        /\ live' = live /\ rehearsal' = rehearsal
    BY <1>5, <1>t DEF MakeFresh, RunState, secrets, trees
  <2>2. Running /\ run.phase = "act" /\ Stage = "seed-secrets" /\ run.fresh = NoFresh
    BY <1>5 DEF MakeFresh, On, Running
  <2>3. run.at = 3
    BY <1>t, <2>2, StagesAt DEF Stage
  <2>4. AtWork /\ run.made = {}
    BY <2>2, <2>3 DEF MakingInv, AtWork
  <2>5. Made(run.tree)' = Made(run.tree)
    BY <2>1, TreeKept
  <2>6. FreshAgree'
    BY <1>5, <1>t, <2>1, <2>5, MadeAgree DEF FreshAgree
  <2>7. rehearsal => ClosedIn(run.made \union run.todo)'
    BY <2>1, <2>4, <2>5 DEF AtWork, ClosedIn
  <2>8. AtWork'
    BY <2>1, <2>2, <2>4, <2>5, <2>6, <2>7 DEF AtWork
  <2> QED
    BY <2>1, <2>2, <2>3, <2>8 DEF MakingInv
<1>6. ASSUME NEW s \in Secrets, ApplySecret(s) PROVE MakingInv'
  <2>1. Running /\ run.phase = "act" /\ Stage = "seed-secrets"
    BY <1>6 DEF ApplySecret, On, Running
  <2>2. run.at = 3
    BY <1>t, <2>1, StagesAt DEF Stage
  <2>3. run'.at = run.at /\ run'.phase \in {"act", "check"}
    BY <1>6, <1>t, <2>1 DEF ApplySecret, RunState
  <2>4. AtWork'
    BY <1>6, <2>1, <2>2, OneMore DEF MakingInv
  <2> QED
    BY <2>2, <2>3, <2>4 DEF MakingInv
<1>7. CASE Others
  <2>1. SUFFICES ASSUME Running' PROVE MakingInv'
    BY DEF MakingInv
  <2>2. RunKept /\ rehearsal' = rehearsal
    BY <1>7, <1>t, OthersKeep
  <2>3. Running
    BY <2>1, <2>2 DEF RunKept, Running
  <2>4. \A k \in Held : In[k] \notin run'.touched => live'[k] = live[k]
    BY <1>7, <2>3, OthersTouch
  <2>5. CopiesRight => CopiesRight'
    BY <2>2, <2>4, CopiesStay DEF RunKept
  <2>6. AtWork => AtWork'
    BY <2>2, <2>4, WorkStays DEF RunKept
  <2> QED
    BY <2>2, <2>3, <2>5, <2>6 DEF MakingInv, RunKept
<1>8. CASE UNCHANGED vars
  <2>1. UNCHANGED <<rehearsal, live, run>>
    BY <1>8 DEF vars
  <2>2. AtWork => AtWork'
    BY <2>1, WorkStays
  <2>3. CopiesRight => CopiesRight'
    BY <2>1, CopiesStay
  <2> QED
    BY <2>1, <2>2, <2>3 DEF MakingInv, Running
<1> QED
  BY <1>1, <1>2, <1>3, <1>4, <1>5, <1>6, <1>7, <1>8, NextIs

-----------------------------------------------------------------------------
(* A run that ends well has left what it was asked for.                    *)

(* What the passed Stages left, but for the Secrets people touched since,  *)
(* and the address while the Gateway stays.                                *)
SecretsRight == \A k \in Keys : In[k] \in Made(run.tree) \ run.touched =>
                   live[k] # NoValue /\ (~rehearsal => live[k] = FileValue(k))
SoundInv == Running =>
    /\ run.at >= 2 => crds = run.tree
    /\ run.at >= 4 => SecretsRight
    /\ run.at > LbAt => run.got # {} /\ (~run.moved => Cardinality(gateway) = 1 /\ run.got = gateway)
    /\ run.mode = "up" /\ run.at > LbAt + 1 => db

(* Secrets a Probe finds nothing to do about.                              *)
LEMMA SecretsDone ==
  ASSUME ToMake = {}, ~(rehearsal /\ \E s \in Made(run.tree) : Partial(s))
  PROVE  SecretsRight
<1> SUFFICES ASSUME NEW k \in Keys, In[k] \in Made(run.tree)
             PROVE  live[k] # NoValue /\ (~rehearsal => live[k] = FileValue(k))
  BY DEF SecretsRight
<1>0. In[k] \in Secrets /\ k \in HeldBy(In[k]) /\ k \in KeyNames(In[k])
  BY DEF Made, HeldBy, KeyNames, Held
<1>1. CASE rehearsal
  <2>1. Present(In[k]) /\ ~Partial(In[k])
    BY <1>1 DEF ToMake, Absent
  <2> QED
    BY <1>0, <1>1, <2>1 DEF Partial
<1>2. CASE ~rehearsal
  <2>1. ~Drift(In[k])
    BY <1>2 DEF ToMake
  <2>2. live[k] = FileValue(k) /\ FileValue(k) # NoValue
    BY <1>0, <2>1, FileIsValue, ValuesDiffer DEF Drift
  <2> QED
    BY <2>2
<1> QED
  BY <1>1, <1>2

(* The Stages that are done, by where they stand.                          *)
LEMMA DoneAt ==
  ASSUME TypeInv, Done(Stage), ~Errs(Stage)
  PROVE  /\ run.at = 1 => crds = run.tree
         /\ run.at = 3 => SecretsRight
         /\ run.at = LbAt => Stage = "lb-address" /\ Cardinality(gateway) = 1 /\ gateway # {}
         /\ run.at > LbAt => Stage # "lb-address"
         /\ run.at = LbAt + 1 /\ run.mode = "up" => db
         /\ run.at = Len(Plan(run.mode)) => run.got # {} /\ ZoneRight
<1>1. run.at \in 1..10 /\ run.mode \in Modes /\ run.at <= Len(Plan(run.mode)) /\ rehearsal \in BOOLEAN
      /\ LbAt \in 6..7
  BY PlanLength DEF TypeInv, TypeOK, RunState
<1>2. run.at = 3 => Stage = "seed-secrets"
  BY <1>1, StagesAt DEF Stage
<1>3. (run.at = LbAt <=> Stage = "lb-address") /\ (run.at > LbAt => run.at # LbAt)
  BY <1>1, StagesAt DEF Stage
<1>4. run.at = LbAt + 1 /\ run.mode = "up" => Stage = "db"
  BY <1>1, StagesAt DEF Stage
<1>5. Stage = "zone" <=> run.at = Len(Plan(run.mode))
  BY <1>1, StagesAt DEF Stage
<1>6. run.at = 3 => SecretsRight
  BY <1>2, SecretsDone DEF Done, Errs
<1>7. Cardinality(gateway) = 1 => gateway # {}
  BY FS_EmptySet
<1> QED
  BY <1>3, <1>4, <1>5, <1>6, <1>7, FirstStages DEF Done

(* The arithmetic of one Stage passed.                                     *)
LEMMA OneOn ==
  ASSUME NEW i \in 1..10, NEW lb \in 6..7, NEW j, j \in {i, i + 1}
  PROVE  /\ j >= 2 => i = 1 \/ i >= 2
         /\ j >= 4 => i = 3 \/ i >= 4
         /\ j > lb => i = lb \/ i > lb
         /\ j > lb + 1 => i = lb + 1 \/ i > lb + 1
OBVIOUS

LEMMA SoundStep == TypeInv /\ SoundInv /\ [Next]_vars => SoundInv'
<1> SUFFICES ASSUME TypeInv, SoundInv, [Next]_vars PROVE SoundInv'
  OBVIOUS
<1>t. TypeOK /\ run \in RunState /\ run.at \in 1..10 /\ run.mode \in Modes
      /\ run.at <= Len(Plan(run.mode)) /\ rehearsal \in BOOLEAN /\ LbAt \in 6..7
  BY PlanLength DEF TypeInv, TypeOK, RunState
<1>1. ASSUME NEW mode \in Modes, Start(mode) PROVE SoundInv'
  <2>1. run'.at = 1 /\ LbAt' \in 6..7
    BY <1>1, <1>t DEF Start, Idle, LbAt, trees
  <2>2. ~(run'.at >= 2) /\ ~(run'.at >= 4) /\ ~(run'.at > LbAt') /\ ~(run'.at > LbAt' + 1)
    <3> DEFINE i == run'.at
               j == LbAt'
    <3>1. i = 1 /\ j \in 6..7
      BY <2>1
    <3> HIDE DEF i, j
    <3>2. ~(i >= 2) /\ ~(i >= 4) /\ ~(i > j) /\ ~(i > j + 1)
      BY <3>1
    <3> QED
      BY <3>2 DEF i, j
  <2> QED
    BY <2>2 DEF SoundInv
<1>2. CASE Probe \/ Check
  <2>0. Running /\ Alone /\ ~Errs(Stage)
    BY <1>2 DEF Probe, Check, Running, Alone
  <2>k. /\ crds' = crds /\ gateway' = gateway /\ db' = db /\ LbAt' = LbAt
        /\ run'.tree = run.tree /\ run'.touched = run.touched => SecretsRight' = SecretsRight
    <3>1. live' = live /\ rehearsal' = rehearsal
      BY <2>0 DEF Alone, trees, secrets
    <3>2. run'.tree = run.tree => Made(run.tree)' = Made(run.tree)
      BY <3>1 DEF Made, Makes
    <3>3. \A k \in Keys : FileValue(k)' = FileValue(k)
      BY DEF FileValue
    <3> QED
      BY <2>0, <3>1, <3>2, <3>3 DEF Alone, outside, LbAt, SecretsRight
  <2>1. CASE run' = Passed
    <3>1. Done(Stage)
      <4>1. CASE Probe /\ ~Done(Stage)
        <5>1. run'.phase = "act"
          BY <1>t, <4>1 DEF Probe, RunState
        <5> QED
          BY <1>t, <2>1, <5>1, PassedFields
      <4> QED
        BY <1>2, <4>1 DEF Check
    <3>2. SUFFICES ASSUME Running' PROVE SoundInv'
      BY DEF SoundInv
    <3>3. /\ run'.phase = "probe" /\ run'.at = run.at + 1 /\ run'.tree = run.tree
          /\ run'.mode = run.mode /\ run'.touched = run.touched /\ run'.moved = run.moved
          /\ run'.got = IF Stage = "lb-address" THEN gateway ELSE run.got
      BY <1>t, <2>1, <3>2, PassedFields DEF Running
    <3>4. /\ run'.at >= 2 => run.at = 1 \/ run.at >= 2
          /\ run'.at >= 4 => run.at = 3 \/ run.at >= 4
          /\ run'.at > LbAt => run.at = LbAt \/ run.at > LbAt
          /\ run'.at > LbAt + 1 => run.at = LbAt + 1 \/ run.at > LbAt + 1
      BY <1>t, <3>3, OneOn
    <3>5. run'.at >= 2 => crds = run.tree
      BY <2>0, <3>1, <3>3, <3>4, DoneAt DEF SoundInv
    <3>6. run'.at >= 4 => SecretsRight
      BY <2>0, <3>1, <3>3, <3>4, DoneAt DEF SoundInv
    <3>7. run'.at > LbAt => run'.got # {} /\ (~run'.moved => Cardinality(gateway) = 1 /\ run'.got = gateway)
      BY <2>0, <3>1, <3>3, <3>4, DoneAt DEF SoundInv
    <3>8. run'.mode = "up" /\ run'.at > LbAt + 1 => db
      BY <2>0, <3>1, <3>3, <3>4, DoneAt DEF SoundInv
    <3> QED
      BY <2>k, <3>3, <3>5, <3>6, <3>7, <3>8 DEF SoundInv
  <2>2. CASE run' = [run EXCEPT !.phase = "act",
                                !.todo = IF Stage = "seed-secrets" THEN ToMake ELSE {}]
    <3>1. run'.tree = run.tree /\ run'.at = run.at /\ run'.mode = run.mode
          /\ run'.got = run.got /\ run'.touched = run.touched /\ run'.moved = run.moved
      BY <1>t, <2>2 DEF RunState
    <3> QED
      BY <2>0, <2>k, <3>1 DEF SoundInv
  <2> QED
    BY <1>2, <2>1, <2>2 DEF Probe, Check
<1>3. CASE Fail \/ Interrupt
  BY <1>3 DEF Fail, Interrupt, SoundInv, Running, Idle
<1>4. CASE Acts
  <2>1. /\ run'.tree = run.tree /\ run'.at = run.at /\ run'.mode = run.mode
        /\ run'.got = run.got /\ run'.touched = run.touched /\ run'.moved = run.moved
        /\ UNCHANGED <<rehearsal, live, gateway>>
    BY <1>4, <1>t, ActsKeep DEF RunState, trees, secrets
  <2>2. Running
    BY <1>4 DEF Acts, ApplyCRDs, ApplyNamespaces, ApplyArgoCD, Wait, BuildDatabase, On, Running
  <2>3. crds' \in {crds, run.tree} /\ (db => db')
    BY <1>4 DEF Acts, ApplyCRDs, ApplyNamespaces, ApplyArgoCD, Wait, BuildDatabase, outside
  <2>4. SecretsRight' = SecretsRight /\ LbAt' = LbAt
    BY <2>1 DEF SecretsRight, LbAt, Made, Makes, FileValue
  <2> QED
    BY <2>1, <2>2, <2>3, <2>4 DEF SoundInv
<1>5. CASE MakeFresh \/ \E s \in Secrets : ApplySecret(s)
  <2>1. /\ run'.tree = run.tree /\ run'.at = run.at /\ run'.mode = run.mode
        /\ run'.got = run.got /\ run'.moved = run.moved
        /\ UNCHANGED <<rehearsal, crds, gateway, db>>
    BY <1>5, <1>t DEF MakeFresh, ApplySecret, RunState, trees, outside
  <2>2. Running /\ Stage = "seed-secrets"
    BY <1>5 DEF MakeFresh, ApplySecret, On, Running
  <2>3. run.at = 3
    BY <1>t, <2>2, StagesAt DEF Stage
  <2> QED
    BY <2>1, <2>2, <2>3 DEF SoundInv, LbAt
<1>6. CASE Others
  <2>1. SUFFICES ASSUME Running' PROVE SoundInv'
    BY DEF SoundInv
  <2>2. RunKept /\ rehearsal' = rehearsal /\ crds' = crds /\ db' = db
    BY <1>6, <1>t, OthersKeep
  <2>3. Running
    BY <2>1, <2>2 DEF RunKept, Running
  <2>4. SecretsRight => SecretsRight'
    <3>1. \A k \in Keys : In[k] \notin run'.touched => live'[k] = live[k] /\ In[k] \notin run.touched
      BY <1>6, <2>3, OthersTouch DEF Held
    <3>2. Made(run.tree)' = Made(run.tree)
      BY <2>2, TreeKept DEF RunKept
    <3>3. \A k \in Keys : FileValue(k)' = FileValue(k)
      BY DEF FileValue
    <3> QED
      BY <2>2, <3>1, <3>2, <3>3 DEF SecretsRight
  <2>5. run.got # {} /\ ~run'.moved => gateway' = gateway \/ gateway = {}
    <3>1. ASSUME NEW addresses, ChangeGateway(addresses) PROVE run.got # {} => run'.moved
      BY <1>t, <2>3, <3>1 DEF ChangeGateway, RunState
    <3> QED
      BY <1>6, <3>1 DEF Others, Push, GiveAddress, Scrape, Checkout, SetKey, Delete,
         ChangeZone, Refresh, Sync, outside
  <2>6. Cardinality(gateway) = 1 => gateway # {}
    BY FS_EmptySet
  <2>7. LbAt' = LbAt
    BY <2>2 DEF LbAt
  <2> QED
    BY <2>2, <2>3, <2>4, <2>5, <2>6, <2>7 DEF SoundInv, RunKept
<1>7. CASE UNCHANGED vars
  BY <1>7 DEF vars, SoundInv, Running, SecretsRight, LbAt, Made, Makes, FileValue
<1> QED
  BY <1>1, <1>2, <1>3, <1>4, <1>5, <1>6, <1>7, NextIs

(* The step on which a run ends well.                                      *)
LEMMA EndStep ==
  ASSUME TypeInv, PlaceInv, MakingInv, SoundInv, [Next]_vars,
         run.phase # "done", run'.phase = "done"
  PROVE  AsAsked
<1>t. /\ TypeOK /\ run \in RunState /\ run.at \in 1..10 /\ run.mode \in Modes
      /\ run.at <= Len(Plan(run.mode)) /\ rehearsal \in BOOLEAN /\ LbAt \in 6..7
      /\ Len(Plan(run.mode)) > LbAt
      /\ run.mode = "up" => Len(Plan(run.mode)) > LbAt + 1
  BY PlanLength DEF TypeInv, TypeOK, RunState
<1>1. Probe \/ Check
  <2>0. Idle.phase = "idle"
    BY DEF Idle
  <2>1. ASSUME NEW mode \in Modes, Start(mode) PROVE FALSE
    <3>1. run'.phase = "probe"
      BY <2>1 DEF Start, Idle
    <3> QED
      BY <3>1
  <2>f. ~Fail /\ ~Interrupt
    BY <2>0 DEF Fail, Interrupt
  <2>2. ~MakeFresh
    <3>1. MakeFresh => run'.phase = run.phase
      BY <1>t DEF MakeFresh, RunState
    <3> QED
      BY <3>1
  <2>3. ASSUME NEW s \in Secrets, ApplySecret(s) PROVE FALSE
    <3>1. run'.phase \in {"check", run.phase}
      BY <1>t, <2>3 DEF ApplySecret, RunState
    <3> QED
      BY <3>1
  <2>4. ~Acts
    BY <1>t, ActsKeep DEF RunState
  <2>5. ~Others
    BY <1>t, OthersKeep DEF RunKept
  <2> QED
    BY <2>1, <2>f, <2>2, <2>3, <2>4, <2>5, NextIs DEF vars
<1>2. Running /\ ~Errs(Stage) /\ Done(Stage) /\ run' = Passed
  <2>1. ASSUME Probe PROVE Done(Stage)
    <3>1. ~Done(Stage) => run'.phase = "act"
      BY <1>t, <2>1 DEF Probe, RunState
    <3> QED
      BY <3>1
  <2> QED
    BY <1>1, <2>1 DEF Probe, Check, Running
<1>3. run.at = Len(Plan(run.mode))
  BY <1>t, <1>2, PassedFields
<1>4. /\ run.at >= 2 /\ run.at >= 3 /\ run.at >= 4 /\ run.at > 3 /\ run.at > LbAt
      /\ run.mode = "up" => run.at > LbAt + 1
  BY <1>t, <1>3
<1>5. /\ crds = run.tree /\ Makes(run.tree) \subseteq namespaces
      /\ SecretsRight /\ CopiesRight
      /\ run.mode = "up" => db
  BY <1>2, <1>4 DEF SoundInv, PlaceInv, MakingInv
<1>6. ~run.moved => gateway # {} /\ Cardinality(gateway) = 1 /\ run.got = gateway /\ ZoneRight
  BY <1>2, <1>3, <1>4, DoneAt DEF SoundInv
<1>7. ASSUME NEW h \in Hosts, ~run.moved
      PROVE IF rehearsal THEN zone[h] # gateway /\ Cardinality(zone[h]) = 1 ELSE zone[h] = gateway
  <2>1. CASE rehearsal
    <3>1. Cardinality(zone[h]) = 1 /\ zone[h] \intersect gateway = {}
      BY <1>6, <1>7, <2>1 DEF ZoneRight, Untouched
    <3> QED
      BY <1>6, <1>7, <2>1, <3>1
  <2>2. CASE ~rehearsal
    BY <1>6, <1>7, <2>2 DEF ZoneRight, PointsAt
  <2> QED
    BY <2>1, <2>2
<1> QED
  BY <1>5, <1>6, <1>7 DEF AsAsked, SecretsRight, CopiesRight

(* A run that ends well has left what it was asked for, whoever changed    *)
(* what beside it: CRDs, Namespaces, Secrets, in a rehearsal its source's  *)
(* value in every copy it made, and a zone at the load balancer or         *)
(* untouched.  Only the Secrets people touched are left out, and the zone  *)
(* when the Gateway changed after lb-address (stage.go Run, seed/plan.go   *)
(* Build, stages.go Secrets).                                              *)
THEOREM EndsAsAsked == Spec => Sound
<1>1. Init => PlaceInv /\ MakingInv /\ SoundInv
  BY DEF Init, Idle, PlaceInv, MakingInv, SoundInv, Running
<1>2. TypeInv /\ PlaceInv /\ MakingInv /\ SoundInv /\ [Next]_vars =>
        [(run.phase # "done" /\ run'.phase = "done") => AsAsked]_vars
  BY EndStep
<1> QED
  BY <1>1, <1>2, TypeInit, TypeStep, PlaceStep, MakingStep, SoundStep, PTL DEF Spec, Sound
=============================================================================
