-------------------------- MODULE SecretFilesProofs --------------------------
(***************************************************************************)
(* Theorems about the files of the Secret Catalog, for any catalog Parse   *)
(* accepts, any values and any bound on the changes made by hand.          *)
(***************************************************************************)
EXTENDS SecretFiles, TLAPS

(* The four kinds divide the keys the catalog lists.                       *)
LEMMA KindsDivide ==
  /\ Copies \subseteq Keys /\ Literals \subseteq Keys
  /\ Generated \subseteq Keys /\ Issued \subseteq Keys
  /\ Keys = Copies \union Literals \union Generated \union Issued
  /\ Copies \intersect Literals = {} /\ Copies \intersect Generated = {}
  /\ Copies \intersect Issued = {} /\ Literals \intersect Generated = {}
  /\ Literals \intersect Issued = {} /\ Generated \intersect Issued = {}
  /\ Keys \intersect Extras = {}
  /\ \A k \in Copies : From[k] \in Generated \union Issued
BY CatalogIsValid DEF CatalogValid, Copies, Literals, Generated, Issued, OfKind

(* Every key belongs to a Secret of the catalog.                           *)
LEMMA HeldSomewhere == ASSUME NEW k \in Held PROVE In[k] \in Secrets /\ k \in HeldBy(In[k])
BY CatalogIsValid DEF CatalogValid, HeldBy

(* What is drawn, what a literal writes and what a copy holds are values.  *)
LEMMA FreshIsValue == ASSUME NEW k \in Held, NEW d \in Drawn PROVE Fresh(k, d) \in Value
BY DEF Fresh, Value

LEMMA LiteralIsValue == ASSUME NEW k \in Held PROVE LiteralValue(k) \in Value
BY FreshIsValue DEF LiteralValue, Drawn

LEMMA RenderIsValue == ASSUME NEW k \in Copies, NEW v \in Value PROVE Render(k, v) \in Value
BY DEF Render, Value

-----------------------------------------------------------------------------
(* What the planner builds.                                                *)

(* Updates are values for keys whose value has a source of its own.        *)
Updates(ups) == \A k \in DOMAIN ups : ups[k] \in Maybe

LEMMA SourceIsMaybe ==
  ASSUME NEW cur \in Contents, NEW ups, Updates(ups), NEW k \in Keys
  PROVE  SourceValue(cur, ups, k) \in Maybe
BY DEF SourceValue, Updates, Contents, Maybe, Held

LEMMA BuildTypes ==
  ASSUME NEW cur \in Contents, NEW ups, Updates(ups)
  PROVE  Build(cur, ups) \in Contents
<1> SUFFICES ASSUME NEW k \in Held PROVE Build(cur, ups)[k] \in Maybe
  BY DEF Build, Contents
<1>1. CASE k \in Extras \/ k \in Literals
  BY <1>1, LiteralIsValue DEF Build, Maybe
<1>2. CASE k \in Keys \ (Literals \union Copies)
  BY <1>2, SourceIsMaybe, KindsDivide DEF Build
<1>3. CASE k \in Copies
  <2>1. From[k] \in Keys
    BY <1>3, KindsDivide
  <2>2. SourceValue(cur, ups, From[k]) \in Maybe /\ cur[k] \in Maybe
    BY <2>1, SourceIsMaybe DEF Contents
  <2>3. Build(cur, ups)[k] = IF SourceValue(cur, ups, From[k]) = NoValue THEN cur[k]
                             ELSE Render(k, SourceValue(cur, ups, From[k]))
    BY <1>3, KindsDivide DEF Build
  <2> QED
    BY <1>3, <2>2, <2>3, RenderIsValue DEF Maybe
<1> QED
  BY <1>1, <1>2, <1>3 DEF Held

(* The contents a plan writes agree with the catalog.                      *)
Follows(c) ==
    /\ \A k \in Extras : c[k] = NoValue
    /\ \A k \in Literals : c[k] = LiteralValue(k)
    /\ \A k \in Copies : c[From[k]] # NoValue => c[k] = Render(k, c[From[k]])

(* The copies are built from the sources of the same plan.                 *)
LEMMA BuildFollows == ASSUME NEW cur, NEW ups PROVE Follows(Build(cur, ups))
<1> DEFINE next == Build(cur, ups)
<1>1. \A k \in Extras : next[k] = NoValue
  BY DEF Build, Held
<1>2. \A k \in Literals : next[k] = LiteralValue(k)
  BY KindsDivide DEF Build, Held
<1>3. ASSUME NEW k \in Copies, next[From[k]] # NoValue PROVE next[k] = Render(k, next[From[k]])
  <2>1. /\ From[k] \in Held /\ From[k] \notin Extras /\ From[k] \notin Literals
        /\ From[k] \notin Copies
    BY KindsDivide DEF Held
  <2>2. next[From[k]] = SourceValue(cur, ups, From[k])
    BY <2>1 DEF Build
  <2>3. next[k] = Render(k, SourceValue(cur, ups, From[k]))
    BY <1>3, <2>2, KindsDivide DEF Build, Held
  <2> QED
    BY <2>2, <2>3
<1> QED
  BY <1>1, <1>2, <1>3 DEF Follows

(* A key the updates do not name and that has its own value keeps it.      *)
LEMMA BuildKeeps ==
  ASSUME NEW cur, NEW ups, NEW k \in Generated \union Issued, k \notin DOMAIN ups
  PROVE  Build(cur, ups)[k] = cur[k]
BY KindsDivide DEF Build, SourceValue, Held

-----------------------------------------------------------------------------
(* Types.                                                                  *)

LEMMA EmptyTypes == Empty \in Contents /\ Idle \in RunState
BY DEF Empty, Contents, Maybe, Idle, RunState, Steps

(* A change by hand leaves the run well typed, and its step at rest or as  *)
(* it was.                                                                 *)
LEMMA TouchTypes ==
  ASSUME run \in RunState, NEW s \in Secrets, NEW steps, Touch(s, steps)
  PROVE  /\ run' \in RunState
         /\ \/ run' = Idle
            \/ /\ ~Resting /\ run'.step = run.step /\ run'.next = run.next /\ run'.todo = run.todo
               /\ run'.selected = run.selected /\ run'.drifts = run.drifts
               /\ run'.touched = IF run.step \in steps THEN run.touched \union {s} ELSE run.touched
<1>1. CASE Resting
  BY <1>1, EmptyTypes DEF Touch
<1>2. CASE ~Resting /\ run.step \in steps
  BY <1>2 DEF Touch, RunState
<1>3. CASE ~Resting /\ run.step \notin steps
  BY <1>3 DEF Touch
<1> QED
  BY <1>1, <1>2, <1>3

(* A plan changes the run alone, and leaves it well typed.                 *)
LEMMA PlanTypes ==
  ASSUME TypeOK, NEW ups, Updates(ups), Plan(ups)
  PROVE  TypeOK'
<1>1. Build(file, ups) \in Contents
  BY BuildTypes DEF TypeOK
<1>2. Changed(Build(file, ups)) \in SUBSET Secrets
  BY DEF Changed
<1>3. run' \in RunState
  BY <1>1, <1>2, EmptyTypes DEF Plan, Idle, RunState, Steps
<1> QED
  BY <1>3 DEF Plan, TypeOK

(* Values drawn for a set of keys are updates.                             *)
LEMMA DrawnTypes ==
  ASSUME TypeOK, NEW K \in SUBSET Keys, PlanDrawn(K)
  PROVE  TypeOK'
<1>1. PICK draw \in [K -> Draws] : Plan([k \in K |-> Fresh(k, draw[k])])
  BY DEF PlanDrawn
<1>2. Updates([k \in K |-> Fresh(k, draw[k])])
  BY FreshIsValue DEF Updates, Maybe, Drawn, Held
<1> QED
  BY <1>1, <1>2, PlanTypes

LEMMA TypeStep == TypeOK /\ [Next]_vars => TypeOK'
<1> SUFFICES ASSUME TypeOK, [Next]_vars PROVE TypeOK'
  OBVIOUS
<1>k. Generated \subseteq Keys /\ Issued \subseteq Keys
  BY KindsDivide
<1>1. CASE Generate
  BY <1>1, <1>k, DrawnTypes DEF Generate, WithoutValue
<1>2. CASE Rotate
  BY <1>2, <1>k, DrawnTypes DEF Rotate
<1>3. CASE Pull
  <2>1. PICK named \in SUBSET Issued : Plan([k \in named |-> vault[k]])
    BY <1>3 DEF Pull
  <2>2. Updates([k \in named |-> vault[k]])
    BY <1>k DEF Updates, TypeOK, Contents, Held
  <2> QED
    BY <2>1, <2>2, PlanTypes
<1>4. CASE Set
  BY <1>4, <1>k, DrawnTypes DEF Set
<1>r. /\ run \in RunState /\ run.todo \subseteq Secrets /\ run.selected \subseteq Secrets
      /\ run.drifts \subseteq Secrets /\ run.touched \subseteq Secrets
  BY DEF TypeOK, RunState
<1>5. CASE Written \/ Stop
  <2>1. run' \in RunState
    BY <1>5, <1>r, EmptyTypes DEF Written, Stop, Idle, RunState, Steps
  <2> QED
    BY <1>5, <2>1 DEF Written, Stop, TypeOK
<1>6. CASE Apply
  <2>1. PICK S \in SUBSET Secrets, forced \in BOOLEAN :
          run' = [Idle EXCEPT !.step = "diffing", !.selected = S, !.todo = S, !.force = forced]
    BY <1>6 DEF Apply
  <2>2. run' \in RunState
    BY <2>1, EmptyTypes DEF Idle, RunState, Steps
  <2> QED
    BY <1>6, <2>2 DEF Apply, TypeOK
<1>7. CASE NoDrift \/ StartApply \/ StartReadback \/ Applied
  <2>1. run' \in RunState
    <3>1. CASE NoDrift \/ Applied
      BY <3>1, <1>r, EmptyTypes DEF NoDrift, Applied, Idle, RunState, Steps
    <3>2. CASE StartApply \/ StartReadback
      BY <3>2, <1>r DEF StartApply, StartReadback, ToReadBack, RunState, Steps
    <3> QED
      BY <1>7, <3>1, <3>2
  <2> QED
    BY <1>7, <2>1 DEF NoDrift, StartApply, StartReadback, Applied, TypeOK
<1>15. ASSUME NEW s \in Secrets, Compare(s) \/ ReadBack(s) PROVE TypeOK'
  <2>1. run' \in RunState
    <3>1. CASE Compare(s) /\ Drift(s)
      BY <3>1, <1>r DEF Compare, RunState
    <3>2. CASE Compare(s) /\ ~Drift(s)
      BY <3>2, <1>r DEF Compare, RunState
    <3>3. CASE ReadBack(s)
      BY <3>3, <1>r DEF ReadBack, RunState
    <3> QED
      BY <1>15, <3>1, <3>2, <3>3
  <2> QED
    BY <1>15, <2>1 DEF Compare, ReadBack, TypeOK
<1>8. ASSUME NEW s \in Secrets, WriteFile(s) PROVE TypeOK'
  <2>1. run.next \in Contents /\ run.todo \ {s} \in SUBSET Secrets
        /\ run.touched \ {s} \in SUBSET Secrets
    BY DEF TypeOK, RunState
  <2>2. file' \in Contents
    BY <1>8, <2>1 DEF WriteFile, TypeOK, Contents
  <2>3. shape' \in [Secrets -> Shapes]
    BY <1>8 DEF WriteFile, TypeOK, Shapes
  <2>4. run' \in RunState
    BY <1>8, <2>1 DEF WriteFile, TypeOK, RunState
  <2> QED
    BY <1>8, <2>2, <2>3, <2>4 DEF WriteFile, TypeOK
<1>9. ASSUME NEW s \in Secrets, ApplySecret(s) PROVE TypeOK'
  <2>1. run.todo \ {s} \in SUBSET Secrets
    BY DEF TypeOK, RunState
  <2>2. live' \in Contents
    BY <1>9 DEF ApplySecret, TypeOK, Contents
  <2>3. object' \in [Secrets -> Objects]
    BY <1>9 DEF ApplySecret, TypeOK, Objects
  <2>4. run' \in RunState
    BY <1>9, <2>1 DEF ApplySecret, TypeOK, RunState
  <2>5. foreign' \subseteq Held
    BY <1>9 DEF ApplySecret, TypeOK
  <2> QED
    BY <1>9, <2>2, <2>3, <2>4, <2>5 DEF ApplySecret, TypeOK
<1>10. ASSUME NEW s \in Secrets, EditFile(s) PROVE TypeOK'
  <2>1. byHand' \in 0..MaxByHand
    BY <1>10, MaxByHandIsNat DEF EditFile, ByHand, TypeOK
  <2>2. file' \in Contents
    <3>1. ASSUME NEW k \in HeldBy(s), file' = [file EXCEPT ![k] = NoValue] PROVE file' \in Contents
      BY <3>1 DEF TypeOK, Contents, Maybe
    <3>2. ASSUME NEW k \in HeldBy(s), NEW d \in Draws, file' = [file EXCEPT ![k] = Fresh(k, d)]
          PROVE  file' \in Contents
      <4>1. Fresh(k, d) \in Maybe
        BY FreshIsValue DEF HeldBy, Drawn, Maybe
      <4> QED
        BY <3>2, <4>1 DEF TypeOK, Contents
    <3> QED
      BY <1>10, <3>1, <3>2 DEF EditFile, TypeOK
  <2>3. shape' \in [Secrets -> Shapes]
    BY <1>10 DEF EditFile, TypeOK
  <2>4. run' \in RunState
    BY <1>10, <1>r, TouchTypes DEF EditFile
  <2> QED
    BY <1>10, <2>1, <2>2, <2>3, <2>4 DEF EditFile, TypeOK
<1>11. ASSUME NEW s \in Secrets, DeleteByHand(s) PROVE TypeOK'
  <2>1. byHand' \in 0..MaxByHand
    BY <1>11, MaxByHandIsNat DEF DeleteByHand, ByHand, TypeOK
  <2>2. live' \in Contents
    BY <1>11 DEF DeleteByHand, TypeOK, Contents, Maybe
  <2>3. object' \in [Secrets -> Objects] /\ foreign' \subseteq Held
    BY <1>11 DEF DeleteByHand, TypeOK, Objects
  <2>4. run' \in RunState
    BY <1>11, <1>r, TouchTypes DEF DeleteByHand
  <2> QED
    BY <1>11, <2>1, <2>2, <2>3, <2>4 DEF DeleteByHand, TypeOK
<1>12. ASSUME NEW k \in Issued, NEW d \in Draws, Issue(k, d) PROVE TypeOK'
  <2>1. byHand' \in 0..MaxByHand
    BY <1>12, MaxByHandIsNat DEF Issue, ByHand, TypeOK
  <2>2. Fresh(k, d) \in Maybe
    BY <1>k, FreshIsValue DEF Held, Drawn, Maybe
  <2>3. vault' \in Contents
    BY <1>12, <2>2 DEF Issue, TypeOK, Contents
  <2> QED
    BY <1>12, <2>1, <2>3 DEF Issue, TypeOK
<1>13. ASSUME NEW s \in Secrets, NEW d \in Draws, NEW K \in SUBSET HeldBy(s), CreateByHand(s, K, d)
       PROVE  TypeOK'
  <2>1. byHand' \in 0..MaxByHand
    BY <1>13, MaxByHandIsNat DEF CreateByHand, ByHand, TypeOK
  <2>2. \A k \in Held : Fresh(k, d) \in Maybe
    BY FreshIsValue DEF Drawn, Maybe
  <2>3. live' \in Contents
    BY <1>13, <2>2 DEF CreateByHand, TypeOK, Contents
  <2>4. object' \in [Secrets -> Objects] /\ foreign' \subseteq Held
    BY <1>13 DEF CreateByHand, TypeOK, HeldBy
  <2>5. run' \in RunState
    BY <1>13, <1>r, TouchTypes DEF CreateByHand
  <2> QED
    BY <1>13, <2>1, <2>3, <2>4, <2>5 DEF CreateByHand, TypeOK
<1>14. CASE UNCHANGED vars
  BY <1>14 DEF vars, TypeOK
<1> QED
  BY <1>1, <1>2, <1>3, <1>4, <1>5, <1>6, <1>7, <1>8, <1>9, <1>10, <1>11, <1>12, <1>13, <1>14,
     <1>15 DEF Next

LEMMA TypeInit == Init => TypeOK
BY EmptyTypes, MaxByHandIsNat DEF Init, TypeOK, Shapes, Objects

(* Every variable keeps its type, and every value in a file, in Bitwarden  *)
(* or on the cluster is one a key of the catalog can have.                 *)
THEOREM FileTypes == Spec => []TypeOK
BY TypeInit, TypeStep, PTL DEF Spec

-----------------------------------------------------------------------------
(* A write that ends has settled every file.                               *)

(* While it writes, the plan follows the catalog, and each file it has no  *)
(* more to write for is already as planned: written by this run, or left   *)
(* out because nothing in it changes, and edited by nobody since.          *)
WritingInv == run.step = "writing" =>
    /\ Follows(run.next)
    /\ \A s \in Secrets \ (run.todo \union run.touched) :
          shape[s] \in {"absent", "match"} /\ \A k \in HeldBy(s) : file[k] = run.next[k]

(* WriteSettles speaks of the end of a run only; this is what holds until  *)
(* then.                                                                   *)
WriteInv == TypeOK /\ WritingInv /\ WriteSettles

(* A new plan writes every file that differs from it.                      *)
LEMMA PlanWrites == ASSUME TypeOK, NEW ups, Plan(ups) PROVE WritingInv' /\ WriteSettles'
<1> DEFINE next == Build(file, ups)
<1>1. /\ run' = [Idle EXCEPT !.step = "writing", !.next = next, !.todo = Changed(next)]
      /\ file' = file /\ shape' = shape
      /\ \A s \in Secrets : shape[s] # "alien"
  BY DEF Plan, Readable
<1>2. run'.step = "writing" /\ run'.next = next /\ run'.todo = Changed(next)
  BY <1>1 DEF Idle
<1>3. Follows(next)
  BY BuildFollows
<1>4. ASSUME NEW s \in Secrets, s \notin Changed(next)
      PROVE  shape[s] \in {"absent", "match"} /\ \A k \in HeldBy(s) : file[k] = next[k]
  BY <1>1, <1>4 DEF Changed, TypeOK, Shapes
<1> HIDE DEF next
<1>5. WriteSettles'
  BY <1>2 DEF WriteSettles
<1>6. WritingInv'
  BY <1>1, <1>2, <1>3, <1>4 DEF WritingInv, Follows
<1> QED
  BY <1>5, <1>6

(* With nothing left to write, the files nobody touched are the plan.      *)
LEMMA AllWritten ==
  ASSUME TypeOK, WritingInv, run.step = "writing", run.todo = {}
  PROVE  FilesFollow(Secrets \ run.touched)
<1> DEFINE S == Secrets \ run.touched
<1>1. Follows(run.next)
  BY DEF WritingInv
<1>2. \A s \in S : shape[s] \in {"absent", "match"} /\ \A k \in HeldBy(s) : file[k] = run.next[k]
  BY DEF WritingInv
<1> HIDE DEF S
<1>3. \A k \in Held : In[k] \in S => file[k] = run.next[k]
  BY <1>2, HeldSomewhere
<1>4. \A k \in Copies : k \in Held /\ From[k] \in Held
  BY KindsDivide DEF Held
<1>5. Extras \subseteq Held /\ Literals \subseteq Held
  BY KindsDivide DEF Held
<1>6. /\ \A k \in Extras : In[k] \in S => file[k] = NoValue
      /\ \A k \in Literals : In[k] \in S => file[k] = LiteralValue(k)
  BY <1>1, <1>3, <1>5 DEF Follows
<1>7. ASSUME NEW k \in Copies, In[k] \in S, In[From[k]] \in S, file[From[k]] # NoValue
      PROVE  file[k] = Render(k, file[From[k]])
  BY <1>1, <1>3, <1>4, <1>7 DEF Follows
<1>8. FilesFollow(S)
  BY <1>2, <1>6, <1>7 DEF FilesFollow
<1> QED
  BY <1>8 DEF S

LEMMA WriteStep == WriteInv /\ [Next]_vars => WriteInv'
<1> SUFFICES ASSUME WriteInv, [Next]_vars PROVE WritingInv' /\ WriteSettles'
  BY TypeStep DEF WriteInv
<1>t. TypeOK /\ WritingInv /\ WriteSettles
  BY DEF WriteInv
<1>1. CASE Generate \/ Rotate \/ Pull \/ Set
  <2>1. PICK ups : Plan(ups)
    BY <1>1 DEF Generate, Rotate, Pull, Set, PlanDrawn
  <2> QED
    BY <2>1, <1>t, PlanWrites
<1>2. CASE Written
  <2>1. FilesFollow(Secrets \ run.touched)
    BY <1>2, <1>t, AllWritten DEF Written
  <2>2. run'.step = "written" /\ run'.touched = run.touched
    BY <1>2 DEF Written, Idle
  <2>3. FilesFollow(Secrets \ run.touched)'
    BY <1>2, <2>1, <2>2 DEF Written, FilesFollow
  <2> QED
    BY <2>2, <2>3 DEF WritingInv, WriteSettles
<1>3. CASE \/ Stop \/ Apply \/ NoDrift \/ StartApply \/ StartReadback \/ Applied
           \/ \E s \in Secrets : Compare(s) \/ ApplySecret(s) \/ ReadBack(s)
  <2>1. run'.step \notin {"writing", "written"}
    <3>1. CASE Stop
      BY <3>1 DEF Stop, Idle
    <3>5. CASE Apply
      BY <3>5 DEF Apply, Idle
    <3>4. CASE NoDrift \/ Applied
      BY <3>4 DEF NoDrift, Applied, Idle
    <3>2. CASE StartApply \/ StartReadback
      BY <3>2, <1>t DEF StartApply, StartReadback, TypeOK, RunState
    <3>3. CASE \E s \in Secrets : Compare(s) \/ ApplySecret(s) \/ ReadBack(s)
      BY <3>3, <1>t DEF Compare, ApplySecret, ReadBack, TypeOK, RunState
    <3> QED
      BY <1>3, <3>1, <3>2, <3>3, <3>4, <3>5
  <2> QED
    BY <2>1 DEF WritingInv, WriteSettles
<1>4. ASSUME NEW s \in Secrets, WriteFile(s) PROVE WritingInv' /\ WriteSettles'
  <2>1. /\ run.step = "writing" /\ run' = [run EXCEPT !.todo = @ \ {s}, !.touched = @ \ {s}]
        /\ file' = [k \in Held |-> IF In[k] = s THEN run.next[k] ELSE file[k]]
        /\ shape' = [shape EXCEPT ![s] = "match"]
    BY <1>4 DEF WriteFile
  <2>2. /\ run'.step = "writing" /\ run'.next = run.next /\ run'.todo = run.todo \ {s}
        /\ run'.touched = run.touched \ {s}
    BY <2>1, <1>t DEF TypeOK, RunState
  <2>3. Follows(run'.next)
    BY <2>1, <2>2, <1>t DEF WritingInv
  <2>4. ASSUME NEW u \in Secrets \ (run'.todo \union run'.touched)
        PROVE  shape'[u] \in {"absent", "match"} /\ \A k \in HeldBy(u) : file'[k] = run'.next[k]
    <3>1. CASE u = s
      BY <3>1, <2>1, <2>2, <1>t DEF HeldBy, TypeOK
    <3>2. CASE u # s
      BY <3>2, <2>1, <2>2, <2>4, <1>t DEF HeldBy, TypeOK, WritingInv
    <3> QED
      BY <3>1, <3>2
  <2> QED
    BY <2>2, <2>3, <2>4 DEF WritingInv, WriteSettles, Follows
<1>5. ASSUME NEW s \in Secrets, EditFile(s) PROVE WritingInv' /\ WriteSettles'
  <2>1. run \in RunState /\ Touch(s, {"writing", "diffing", "reading"})
    BY <1>5, <1>t DEF EditFile, TypeOK
  <2>2. CASE run' = Idle
    BY <2>2 DEF Idle, WritingInv, WriteSettles
  <2>3. CASE /\ ~Resting /\ run'.step = run.step /\ run'.next = run.next /\ run'.todo = run.todo
             /\ run'.touched = IF run.step \in {"writing", "diffing", "reading"}
                              THEN run.touched \union {s} ELSE run.touched
    <3>1. WriteSettles'
      BY <2>3 DEF Resting, WriteSettles
    <3>2. ASSUME run.step = "writing", NEW u \in Secrets \ (run.todo \union run.touched \union {s})
          PROVE  shape'[u] = shape[u] /\ \A k \in HeldBy(u) : file'[k] = file[k]
      <4>1. shape'[u] = shape[u]
        BY <1>5, <1>t DEF EditFile, TypeOK
      <4>2. ASSUME NEW k \in HeldBy(u) PROVE file'[k] = file[k]
        BY <1>5, <1>t DEF EditFile, TypeOK, Contents, HeldBy
      <4> QED
        BY <4>1, <4>2
    <3>3. WritingInv'
      BY <2>3, <3>2, <1>t DEF WritingInv, Follows
    <3> QED
      BY <3>1, <3>3
  <2> QED
    BY <2>1, <2>2, <2>3, TouchTypes
<1>6. CASE \/ \E s \in Secrets : DeleteByHand(s)
           \/ \E k \in Issued, d \in Draws : Issue(k, d)
           \/ \E s \in Secrets, d \in Draws : \E K \in SUBSET HeldBy(s) \ {{}} : CreateByHand(s, K, d)
           \/ UNCHANGED vars
  <2>1. file' = file /\ shape' = shape
    BY <1>6 DEF DeleteByHand, Issue, CreateByHand, vars
  <2>2. \/ run' = run
        \/ \E s \in Secrets : Touch(s, {"diffing", "reading"})
    BY <1>6 DEF DeleteByHand, Issue, CreateByHand, vars
  <2>3. \/ run' = run \/ run' = Idle
        \/ /\ ~Resting /\ run'.step = run.step /\ run'.next = run.next /\ run'.todo = run.todo
           /\ run.step = "writing" => run'.touched = run.touched
    <3>1. CASE run' = run
      BY <3>1
    <3>2. ASSUME NEW s \in Secrets, Touch(s, {"diffing", "reading"})
          PROVE  \/ run' = Idle
                 \/ /\ ~Resting /\ run'.step = run.step /\ run'.next = run.next /\ run'.todo = run.todo
                    /\ run.step = "writing" => run'.touched = run.touched
      <4>1. run \in RunState
        BY <1>t DEF TypeOK
      <4>2. \/ run' = Idle
            \/ /\ ~Resting /\ run'.step = run.step /\ run'.next = run.next /\ run'.todo = run.todo
               /\ run'.touched = IF run.step \in {"diffing", "reading"}
                                THEN run.touched \union {s} ELSE run.touched
        BY <3>2, <4>1, TouchTypes
      <4> QED
        BY <4>2
    <3> QED
      BY <2>2, <3>1, <3>2
  <2>4. CASE run' = run
    BY <2>1, <2>4, <1>t DEF WritingInv, WriteSettles, FilesFollow
  <2>5. CASE run' = Idle
    BY <2>5 DEF Idle, WritingInv, WriteSettles
  <2>6. CASE /\ ~Resting /\ run'.step = run.step /\ run'.next = run.next /\ run'.todo = run.todo
             /\ run.step = "writing" => run'.touched = run.touched
    BY <2>1, <2>6, <1>t DEF WritingInv, WriteSettles, Follows, Resting
  <2> QED
    BY <2>3, <2>4, <2>5, <2>6
<1> QED
  BY <1>1, <1>2, <1>3, <1>4, <1>5, <1>6 DEF Next

(* A write command that ends without an error leaves every file as the     *)
(* catalog says: every copy with its source's value, in files it did not   *)
(* name too, whatever an interrupted run or an edit left (plan.go build,   *)
(* Planner.Write).                                                         *)
THEOREM WritesSettle == Spec => []WriteSettles
<1>1. Init => WriteInv
  BY TypeInit DEF Init, Idle, WriteInv, WritingInv, WriteSettles
<1>2. WriteInv => WriteSettles
  BY DEF WriteInv
<1> QED
  BY <1>1, <1>2, WriteStep, PTL DEF Spec

-----------------------------------------------------------------------------
(* What list says is what a write does.                                    *)

LEMMA ListIsPlan == ListAgrees
<1> DEFINE ups == [k \in WithoutValue |-> LiteralValue(k)]
           next == Build(file, ups)
<1>1. DOMAIN ups = WithoutValue
  OBVIOUS
<1>2. \A k \in Copies : /\ k \in Held /\ k \notin Extras /\ k \notin Literals
                        /\ From[k] \in Generated \union Issued
  BY KindsDivide DEF Held
<1>3. ASSUME NEW k \in Copies, file[From[k]] # NoValue
      PROVE  next[k] = Render(k, file[From[k]])
  <2>1. From[k] \notin WithoutValue
    BY <1>3 DEF WithoutValue
  <2>2. SourceValue(file, ups, From[k]) = file[From[k]]
    BY <1>1, <1>2, <2>1 DEF SourceValue
  <2> HIDE DEF ups
  <2>3. next[k] = IF SourceValue(file, ups, From[k]) = NoValue THEN file[k]
                  ELSE Render(k, SourceValue(file, ups, From[k]))
    BY <1>2 DEF Build
  <2> QED
    BY <1>3, <2>2, <2>3
<1>4. ASSUME NEW k \in Literals PROVE next[k] = LiteralValue(k)
  BY KindsDivide DEF Build, Held
<1>5. ASSUME NEW k \in Extras PROVE next[k] = NoValue
  BY DEF Build, Held
<1>6. ASSUME NEW k \in Generated \union Issued, file[k] # NoValue PROVE next[k] = file[k]
  BY <1>1, <1>6, BuildKeeps DEF WithoutValue
<1> HIDE DEF next
<1>7. \A k \in StaleCopies \union StaleLiterals \union NotInCatalog : next[k] # file[k]
  BY <1>3, <1>4, <1>5 DEF StaleCopies, StaleLiterals, NotInCatalog
<1>8. ASSUME NEW k \in Keys \ (StaleCopies \union StaleLiterals \union Missing \union SourceMissing)
      PROVE  next[k] = file[k]
  <2>1. file[k] # NoValue
    BY DEF Missing
  <2>2. CASE k \in Copies
    BY <2>1, <2>2, <1>3 DEF StaleCopies, SourceMissing
  <2>3. CASE k \in Literals
    BY <2>1, <2>3, <1>4 DEF StaleLiterals
  <2>4. CASE k \in Generated \union Issued
    BY <2>1, <2>4, <1>6
  <2> QED
    BY <2>2, <2>3, <2>4, KindsDivide
<1> QED
  BY <1>7, <1>8 DEF ListAgrees, next, ups

(* list and the write commands agree: what list calls stale or not in the  *)
(* catalog the next plan changes, and no plan changes a key list calls     *)
(* present (list.go keyState, plan.go build).                              *)
THEOREM ListAndPlanAgree == Spec => []ListAgrees
BY ListIsPlan, PTL

-----------------------------------------------------------------------------
(* What a step may never do.                                               *)

(* generate never replaces a generated value (plan.go Generate).           *)
LEMMA GenerateStep ==
  ASSUME Generate, NEW k \in Generated, file[k] # NoValue
  PROVE  run'.next[k] = file[k]
<1>1. PICK draw \in [WithoutValue -> Draws] : Plan([h \in WithoutValue |-> Fresh(h, draw[h])])
  BY DEF Generate, PlanDrawn
<1> DEFINE ups == [h \in WithoutValue |-> Fresh(h, draw[h])]
<1>2. k \notin DOMAIN ups
  BY DEF WithoutValue
<1>3. Build(file, ups)[k] = file[k]
  BY <1>2, BuildKeeps
<1>4. run'.next = Build(file, ups)
  BY <1>1 DEF Plan, Idle
<1> QED
  BY <1>3, <1>4

(* After a stopped rotate, an edit or any other history, generate keeps    *)
(* every generated value there is: it may be in use (plan.go Generate).    *)
THEOREM GeneratedKept == Spec => GenerateKeeps
<1>1. [Next]_vars => [Generate => \A k \in Generated : file[k] # NoValue => run'.next[k] = file[k]]_vars
  BY GenerateStep
<1> QED
  BY <1>1, PTL DEF Spec, GenerateKeeps

-----------------------------------------------------------------------------
(* An apply that ends well.                                                *)

(* What a diff has gone through and found in step stays so until somebody  *)
(* changes it: the run itself changes nothing while it reads.              *)
ReadingInv ==
    run.step \in {"diffing", "reading"} =>
        \A s \in run.selected \ (run.todo \union run.touched \union run.drifts) : InStep(s)

(* No run reads back with Secrets still marked from its first diff.        *)
NoDriftsLeft == run.step = "reading" => run.drifts = {}

ReadInv == TypeOK /\ ReadingInv /\ NoDriftsLeft /\ AppliedInStep

(* InStep speaks of one Secret's file and live item alone.                 *)
LEMMA InStepKept ==
  ASSUME NEW s \in Secrets, shape'[s] = shape[s], object'[s] = object[s],
         \A k \in HeldBy(s) : file'[k] = file[k] /\ live'[k] = live[k], InStep(s)
  PROVE  InStep(s)'
<1>1. KeyNames(s) \subseteq HeldBy(s)
  BY DEF KeyNames, HeldBy, Held
<1> QED
  BY <1>1 DEF InStep, Complete, Drift

(* The changes by hand leave the other Secrets as they are.                *)
LEMMA OneTouched ==
  ASSUME TypeOK, NEW s \in Secrets, NEW u \in Secrets, u # s,
         \/ EditFile(s) \/ DeleteByHand(s)
         \/ \E d \in Draws : \E K \in SUBSET HeldBy(s) : CreateByHand(s, K, d)
  PROVE  /\ shape'[u] = shape[u] /\ object'[u] = object[u]
         /\ \A k \in HeldBy(u) : file'[k] = file[k] /\ live'[k] = live[k]
<1>1. CASE EditFile(s)
  <2>1. shape'[u] = shape[u] /\ object'[u] = object[u] /\ live' = live
    BY <1>1 DEF EditFile, TypeOK
  <2>2. ASSUME NEW k \in HeldBy(u) PROVE file'[k] = file[k]
    BY <1>1 DEF EditFile, TypeOK, Contents, HeldBy
  <2> QED
    BY <2>1, <2>2
<1>2. CASE DeleteByHand(s)
  BY <1>2 DEF DeleteByHand, TypeOK, Contents, HeldBy
<1>3. ASSUME NEW d \in Draws, NEW K \in SUBSET HeldBy(s), CreateByHand(s, K, d)
      PROVE  /\ shape'[u] = shape[u] /\ object'[u] = object[u]
             /\ \A k \in HeldBy(u) : file'[k] = file[k] /\ live'[k] = live[k]
  <2>1. shape' = shape /\ file' = file /\ object'[u] = object[u]
    BY <1>3 DEF CreateByHand, TypeOK
  <2>2. ASSUME NEW k \in HeldBy(u) PROVE live'[k] = live[k]
    BY <1>3 DEF CreateByHand, HeldBy
  <2> QED
    BY <2>1, <2>2
<1> QED
  BY <1>1, <1>2, <1>3

LEMMA ReadStep == ReadInv /\ [Next]_vars => ReadInv'
<1> SUFFICES ASSUME ReadInv, [Next]_vars PROVE ReadingInv' /\ NoDriftsLeft' /\ AppliedInStep'
  BY TypeStep DEF ReadInv
<1>t. TypeOK /\ ReadingInv /\ NoDriftsLeft /\ AppliedInStep /\ run \in RunState
  BY DEF ReadInv, TypeOK
<1>s. run.selected \subseteq Secrets /\ run.drifts \subseteq Secrets
  BY <1>t DEF RunState
<1>1. CASE Generate \/ Rotate \/ Pull \/ Set
  <2>1. PICK ups : Plan(ups)
    BY <1>1 DEF Generate, Rotate, Pull, Set, PlanDrawn
  <2>2. run'.step = "writing"
    BY <2>1 DEF Plan, Idle
  <2> QED
    BY <2>2 DEF ReadingInv, NoDriftsLeft, AppliedInStep
<1>2. CASE Written \/ Stop \/ StartApply \/ \E s \in Secrets : WriteFile(s) \/ ApplySecret(s)
  <2>1. run'.step \notin {"diffing", "reading", "applied"}
    <3>1. CASE Written
      BY <3>1 DEF Written, Idle
    <3>4. CASE Stop
      BY <3>4 DEF Stop, Idle
    <3>2. CASE StartApply
      BY <3>2, <1>t DEF StartApply, RunState
    <3>3. CASE \E s \in Secrets : WriteFile(s) \/ ApplySecret(s)
      BY <3>3, <1>t DEF WriteFile, ApplySecret, RunState
    <3> QED
      BY <1>2, <3>1, <3>2, <3>3, <3>4
  <2> QED
    BY <2>1 DEF ReadingInv, NoDriftsLeft, AppliedInStep
<1>3. CASE Apply
  <2>1. run'.step = "diffing" /\ run'.selected = run'.todo
    BY <1>3 DEF Apply, Idle
  <2> QED
    BY <2>1 DEF ReadingInv, NoDriftsLeft, AppliedInStep
<1>4. CASE NoDrift \/ Applied
  <2>1. /\ run'.step = "applied" /\ run'.selected = run.selected /\ run'.touched = run.touched
        /\ run.step \in {"diffing", "reading"} /\ run.todo = {} /\ run.drifts = {}
    BY <1>4, <1>t DEF NoDrift, Applied, Idle, NoDriftsLeft
  <2>2. \A s \in run.selected \ run.touched : InStep(s)
    BY <2>1, <1>t DEF ReadingInv
  <2>3. /\ \A s \in run.selected : InStep(s) => InStep(s)'
    <3>1. UNCHANGED <<file, shape, live, object>>
      BY <1>4 DEF NoDrift, Applied
    <3> QED
      BY <3>1, <1>s, InStepKept
  <2> QED
    BY <2>1, <2>2, <2>3 DEF ReadingInv, NoDriftsLeft, AppliedInStep
<1>5. CASE StartReadback
  <2>1. run'.step = "reading" /\ run'.selected = run'.todo /\ run'.drifts = {}
    BY <1>5, <1>t DEF StartReadback, ToReadBack, RunState
  <2> QED
    BY <2>1 DEF ReadingInv, NoDriftsLeft, AppliedInStep
<1>6. ASSUME NEW s \in Secrets, Compare(s) \/ ReadBack(s)
      PROVE  ReadingInv' /\ NoDriftsLeft' /\ AppliedInStep'
  <2>1. /\ run'.step = run.step /\ run.step \in {"diffing", "reading"}
        /\ run'.selected = run.selected /\ run'.todo = run.todo \ {s}
        /\ run'.touched = run.touched \ {s}
    BY <1>6, <1>t DEF Compare, ReadBack, RunState
  <2>2. /\ run.drifts \subseteq run'.drifts
        /\ s \notin run'.drifts => InStep(s)
        /\ run.step = "reading" => run'.drifts = run.drifts
    <3>1. CASE Compare(s) /\ Drift(s)
      BY <3>1, <1>t DEF Compare, RunState
    <3>2. CASE Compare(s) /\ ~Drift(s)
      BY <3>2, <1>t DEF Compare, RunState, InStep
    <3>3. CASE ReadBack(s)
      BY <3>3, <1>t DEF ReadBack, RunState
    <3> QED
      BY <1>6, <3>1, <3>2, <3>3
  <2>3. \A u \in run.selected : InStep(u) => InStep(u)'
    <3>1. UNCHANGED <<file, shape, live, object>>
      BY <1>6 DEF Compare, ReadBack
    <3> QED
      BY <3>1, <1>s, InStepKept
  <2>4. ReadingInv'
    <3> SUFFICES ASSUME NEW u \in run.selected \ ((run.todo \ {s}) \union (run.touched \ {s}) \union run'.drifts)
                 PROVE  InStep(u)
      BY <2>1, <2>3 DEF ReadingInv
    <3>1. CASE u = s
      BY <3>1, <2>2
    <3>2. CASE u # s
      BY <3>2, <2>1, <2>2, <1>t DEF ReadingInv
    <3> QED
      BY <3>1, <3>2
  <2> QED
    BY <2>1, <2>2, <2>4, <1>t DEF NoDriftsLeft, AppliedInStep
<1>7. ASSUME NEW s \in Secrets,
             \/ EditFile(s) \/ DeleteByHand(s)
             \/ \E d \in Draws : \E K \in SUBSET HeldBy(s) : CreateByHand(s, K, d)
      PROVE  ReadingInv' /\ NoDriftsLeft' /\ AppliedInStep'
  <2>1. PICK steps : {"diffing", "reading"} \subseteq steps /\ Touch(s, steps)
    BY <1>7 DEF EditFile, DeleteByHand, CreateByHand
  <2>2. CASE run' = Idle
    BY <2>2 DEF Idle, ReadingInv, NoDriftsLeft, AppliedInStep
  <2>3. CASE /\ ~Resting /\ run'.step = run.step /\ run'.todo = run.todo
             /\ run'.selected = run.selected /\ run'.drifts = run.drifts
             /\ run'.touched = IF run.step \in steps THEN run.touched \union {s} ELSE run.touched
    <3>1. AppliedInStep' /\ NoDriftsLeft'
      BY <2>3, <1>t DEF Resting, AppliedInStep, NoDriftsLeft
    <3>2. ASSUME run.step \in {"diffing", "reading"},
                 NEW u \in run.selected \ (run.todo \union run.touched \union {s} \union run.drifts)
          PROVE  InStep(u)'
      <4>1. InStep(u) /\ u \in Secrets /\ u # s
        BY <3>2, <1>s, <1>t DEF ReadingInv
      <4>2. /\ shape'[u] = shape[u] /\ object'[u] = object[u]
            /\ \A k \in HeldBy(u) : file'[k] = file[k] /\ live'[k] = live[k]
        BY <4>1, <1>7, <1>t, OneTouched
      <4> QED
        BY <4>1, <4>2, InStepKept
    <3>3. ReadingInv'
      BY <2>1, <2>3, <3>2 DEF ReadingInv
    <3> QED
      BY <3>1, <3>3
  <2> QED
    BY <2>1, <2>2, <2>3, <1>t, TouchTypes
<1>8. CASE (\E k \in Issued, d \in Draws : Issue(k, d)) \/ UNCHANGED vars
  <2>1. UNCHANGED <<file, shape, live, object, run>>
    BY <1>8 DEF Issue, vars
  <2>2. \A u \in run.selected : InStep(u) => InStep(u)'
    BY <2>1, <1>s, InStepKept
  <2> QED
    BY <2>1, <2>2, <1>t DEF ReadingInv, NoDriftsLeft, AppliedInStep
<1> QED
  BY <1>1, <1>2, <1>3, <1>4, <1>5, <1>6, <1>7, <1>8 DEF Next

(* An apply that ends without an error has left every Secret it was asked  *)
(* for as its file says, and the file as the catalog lists it; what        *)
(* changed since its first diff made it fail, in the Secrets that diff     *)
(* found in step too (live.go Diff and Apply, cmd/secrets.go apply).       *)
THEOREM AppliedIsInStep == Spec => []AppliedInStep
<1>1. Init => ReadInv
  BY TypeInit DEF Init, Idle, ReadInv, ReadingInv, NoDriftsLeft, AppliedInStep
<1>2. ReadInv => AppliedInStep
  BY DEF ReadInv
<1> QED
  BY <1>1, <1>2, ReadStep, PTL DEF Spec
=============================================================================
