----------------------------- MODULE SecretFiles -----------------------------
(***************************************************************************)
(* kluster secrets: the encrypted files of the Secret Catalog, the values  *)
(* Bitwarden holds for the issued keys, and the Secrets of the live        *)
(* cluster (tools/kluster/internal/secrets, cmd/secrets.go).               *)
(*                                                                         *)
(* One kluster run at a time.  A write command reads every file, builds    *)
(* the whole next content of every file in memory, and replaces the files  *)
(* that change one by one; it may fail or be interrupted between two       *)
(* files.  apply reads the file and the live Secret one Secret at a time,  *)
(* three times over: its diff, the apply itself, the diff it ends with.    *)
(* People change a file, Bitwarden and the live cluster at any time,       *)
(* between any two of these steps.  A Secret's file and live item are read *)
(* in one step: a change of the one between the two reads is as good as    *)
(* before both, of the other as after both.                                *)
(*                                                                         *)
(* Left out: Plan Mode (it prints and changes nothing), the sops binary    *)
(* and the age key (a file whose encryption fails or does not prove fully  *)
(* encrypted is a failed write), wording.                                  *)
(***************************************************************************)
EXTENDS Catalog

CONSTANT MaxByHand  \* how often Bitwarden, a file or the cluster is changed by hand

ASSUME MaxByHandIsNat == MaxByHand \in Nat

VARIABLES
    file,    \* the values in the encrypted files
    shape,   \* "absent", "match", "mismatch" (type or labels), "alien" (another Secret)
    vault,   \* the values in Bitwarden
    live,    \* the values on the cluster
    object,  \* "absent", "inStep", "labels" or "type": what differs besides values
    foreign, \* the keys of live Secrets another field manager owns
    run,     \* the kluster run: its step and what it holds in memory
    byHand   \* the changes made by hand so far

vars == <<file, shape, vault, live, object, foreign, run, byHand>>

Shapes  == {"absent", "match", "mismatch", "alien"}
Objects == {"absent", "inStep", "labels", "type"}
Steps   == {"idle", "writing", "written", "diffing", "applying", "reading", "applied"}

\* todo: the Secrets the step has not come to.  drifts: those the diff found
\* to differ.  touched: those somebody changed since the run wrote or read
\* them; the run does not know, the properties ask.
RunState == [step : Steps, next : Contents, todo : SUBSET Secrets, selected : SUBSET Secrets,
             drifts : SUBSET Secrets, touched : SUBSET Secrets, force : BOOLEAN]

Idle == [step |-> "idle", next |-> Empty, todo |-> {}, selected |-> {}, drifts |-> {},
         touched |-> {}, force |-> FALSE]

\* Nothing runs: any command may start.
Resting == run.step \in {"idle", "written", "applied"}

\* A draw no value anywhere was made with: random values and issued tokens
\* do not repeat.
Unused(k, d) == Fresh(k, d) \notin
    {[v EXCEPT !.in = Plain] : v \in {c[h] : c \in {file, vault, live, run.next}, h \in Held} \ {NoValue}}

Init ==
    /\ file = Empty /\ shape = [s \in Secrets |-> "absent"]
    /\ vault = Empty
    /\ live = Empty /\ object = [s \in Secrets |-> "absent"] /\ foreign = {}
    /\ run = Idle /\ byHand = 0

-----------------------------------------------------------------------------
(* What a write command plans.                                              *)

\* The key's own value once ups is applied: a generated or an issued key
\* keeps the one it has.
SourceValue(cur, ups, k) ==
    CASE k \in DOMAIN ups                  -> ups[k]
      [] k \in (Generated \union Issued) \ DOMAIN ups -> cur[k]
      [] OTHER                             -> NoValue

\* Mutant: the copies read their sources as they were before the update.
BuildFromCurrent(cur, ups) ==
    [k \in Held |->
        IF k \in Extras THEN NoValue
        ELSE IF k \in Literals THEN LiteralValue(k)
        ELSE IF k \notin Copies THEN SourceValue(cur, ups, k)
        ELSE IF cur[From[k]] = NoValue THEN cur[k] ELSE Render(k, cur[From[k]])]

\* Mutant: a key the catalog no longer lists stays in its file.
BuildKeepsExtras(cur, ups) ==
    [k \in Held |->
        IF k \in Extras THEN cur[k]
        ELSE IF k \in Literals THEN LiteralValue(k)
        ELSE IF k \notin Copies THEN SourceValue(cur, ups, k)
        ELSE LET source == SourceValue(cur, ups, From[k]) IN
             IF source = NoValue THEN cur[k] ELSE Render(k, source)]

\* The whole next content of every file: sources first, then every literal
\* and every copy of a source that has a value; a copy of a source without
\* one keeps what it has, and a key the catalog does not list is dropped.
Build(cur, ups) ==
    [k \in Held |->
        IF k \in Extras THEN NoValue
        ELSE IF k \in Literals THEN LiteralValue(k)
        ELSE IF k \notin Copies THEN SourceValue(cur, ups, k)
        ELSE LET source == SourceValue(cur, ups, From[k]) IN
             IF source = NoValue THEN cur[k] ELSE Render(k, source)]

\* The files the plan writes: a value changes, or the type or labels do not
\* match the catalog.
Changed(next) ==
    {s \in Secrets : shape[s] = "mismatch" \/ \E k \in HeldBy(s) : file[k] # next[k]}

\* Every file can be read: none holds another Secret.
Readable == \A s \in Secrets : shape[s] # "alien"

Plan(ups) ==
    /\ Resting /\ Readable
    /\ LET next == Build(file, ups) IN
       run' = [Idle EXCEPT !.step = "writing", !.next = next, !.todo = Changed(next)]
    /\ UNCHANGED <<file, shape, vault, live, object, foreign, byHand>>

\* New values for a set of keys, none made before.
PlanDrawn(K) ==
    \E draw \in [K -> Draws] :
        /\ \A k \in K : Unused(k, draw[k])
        /\ Plan([k \in K |-> Fresh(k, draw[k])])

\* Mutant: a key of which a copy was not written counts as one without a value.
WithoutCopy == {k \in Generated : file[k] = NoValue \/ \E c \in Copies : From[c] = k /\ file[c] = NoValue}

\* A value for every generated key that has none.
WithoutValue == {k \in Generated : file[k] = NoValue}
Generate == PlanDrawn(WithoutValue)

\* A new value for the named generated keys; an issued key is refused.
Rotate == \E named \in SUBSET Generated \ {{}} : PlanDrawn(named)

\* Bitwarden's value of the named issued keys; a missing one stops the run.
Pull ==
    \E named \in SUBSET Issued \ {{}} :
        /\ \A k \in named : vault[k] # NoValue
        /\ Plan([k \in named |-> vault[k]])

\* One issued value, typed twice on the terminal.
Set == \E k \in Issued : PlanDrawn({k})

-----------------------------------------------------------------------------
(* The write: file by file in catalog order, each in one rename.            *)

WriteFile(s) ==
    /\ run.step = "writing" /\ IsFirst(s, run.todo)
    /\ file' = [k \in Held |-> IF In[k] = s THEN run.next[k] ELSE file[k]]
    /\ shape' = [shape EXCEPT ![s] = "match"]
    /\ run' = [run EXCEPT !.todo = @ \ {s}, !.touched = @ \ {s}]
    /\ UNCHANGED <<vault, live, object, foreign, byHand>>

Written ==
    /\ run.step = "writing" /\ run.todo = {}
    /\ run' = [Idle EXCEPT !.step = "written", !.touched = run.touched]
    /\ UNCHANGED <<file, shape, vault, live, object, foreign, byHand>>

\* A run that fails or is interrupted: a file that cannot be encrypted, a
\* closed terminal.  What was written stays; the plan is lost.
Stop ==
    /\ ~Resting
    /\ run' = Idle
    /\ UNCHANGED <<file, shape, vault, live, object, foreign, byHand>>

-----------------------------------------------------------------------------
(* diff and apply: the files against the live cluster.                      *)

\* Manifest: the file may be applied.
Complete(s) ==
    /\ shape[s] = "match"
    /\ \A k \in KeyNames(s) : file[k] # NoValue
    /\ \A k \in HeldBy(s) \ KeyNames(s) : file[k] = NoValue

\* LiveDiff.Drift: an apply would change the Secret, or should.
Drift(s) == object[s] # "inStep" \/ \E k \in HeldBy(s) : live[k] # file[k]

InStep(s) == Complete(s) /\ ~Drift(s)

\* apply shows the diff first, Secret by Secret.
Apply ==
    \E S \in SUBSET Secrets \ {{}}, forced \in BOOLEAN :
        /\ Resting
        /\ run' = [Idle EXCEPT !.step = "diffing", !.selected = S, !.todo = S, !.force = forced]
        /\ UNCHANGED <<file, shape, vault, live, object, foreign, byHand>>

\* One Secret of the diff; one it cannot build stops the run.
Compare(s) ==
    /\ run.step = "diffing" /\ IsFirst(s, run.todo)
    /\ Complete(s)
    /\ run' = [run EXCEPT !.todo = @ \ {s}, !.touched = @ \ {s},
                          !.drifts = IF Drift(s) THEN @ \union {s} ELSE @]
    /\ UNCHANGED <<file, shape, vault, live, object, foreign, byHand>>

\* Nothing differs: the run ends well and has applied nothing.
NoDrift ==
    /\ run.step = "diffing" /\ run.todo = {} /\ run.drifts = {}
    /\ run' = [Idle EXCEPT !.step = "applied", !.selected = run.selected, !.touched = run.touched]
    /\ UNCHANGED <<file, shape, vault, live, object, foreign, byHand>>

StartApply ==
    /\ run.step = "diffing" /\ run.todo = {} /\ run.drifts # {}
    /\ run' = [run EXCEPT !.step = "applying", !.todo = run.drifts, !.touched = {}]
    /\ UNCHANGED <<file, shape, vault, live, object, foreign, byHand>>

\* A server-side apply is refused over a key another manager owns with a
\* value of its own, and over a type, which cannot change in place.
Accepted(s) ==
    /\ object[s] # "type"
    /\ run.force \/ \A k \in KeyNames(s) \intersect foreign : live[k] = file[k]

\* One Secret of the diff, from its file as it is now.  A key the catalog
\* does not list goes only when no other manager owns it.
ApplySecret(s) ==
    /\ run.step = "applying" /\ IsFirst(s, run.todo)
    /\ Complete(s) /\ Accepted(s)
    /\ live' = [k \in Held |-> IF In[k] # s \/ k \in Extras \intersect foreign
                               THEN live[k] ELSE file[k]]
    /\ object' = [object EXCEPT ![s] = "inStep"]
    /\ foreign' = IF run.force THEN foreign \ KeyNames(s) ELSE foreign
    /\ run' = [run EXCEPT !.todo = @ \ {s}]
    /\ UNCHANGED <<file, shape, vault, byHand>>

\* Mutant: what is read back is what was applied.
ReadBackApplied == run.drifts

\* The diff again, of every Secret the command names.
ToReadBack == run.selected

StartReadback ==
    /\ run.step = "applying" /\ run.todo = {}
    /\ run' = [run EXCEPT !.step = "reading", !.todo = ToReadBack, !.drifts = {}, !.force = FALSE]
    /\ UNCHANGED <<file, shape, vault, live, object, foreign, byHand>>

\* A Secret that differs, or cannot be built any more, ends the run with an error.
ReadBack(s) ==
    /\ run.step = "reading" /\ IsFirst(s, run.todo)
    /\ InStep(s)
    /\ run' = [run EXCEPT !.todo = @ \ {s}, !.touched = @ \ {s}]
    /\ UNCHANGED <<file, shape, vault, live, object, foreign, byHand>>

Applied ==
    /\ run.step = "reading" /\ run.todo = {}
    /\ run' = [Idle EXCEPT !.step = "applied", !.selected = run.selected, !.touched = run.touched]
    /\ UNCHANGED <<file, shape, vault, live, object, foreign, byHand>>

-----------------------------------------------------------------------------
(* The other actors.                                                        *)

ByHand == byHand < MaxByHand /\ byHand' = byHand + 1

\* Somebody changes s: what a run that ended had left is no longer claimed,
\* and a run in one of these steps does not see a change to what it has done.
Touch(s, steps) ==
    run' = IF Resting THEN Idle
           ELSE IF run.step \in steps THEN [run EXCEPT !.touched = @ \union {s}]
           ELSE run

\* A file is edited by hand, with kluster secrets edit or with sops itself.
\* One value changes, comes or goes, or the file's type, labels or name do.
EditFile(s) ==
    /\ ByHand /\ shape[s] # "absent"
    /\ \/ \E k \in HeldBy(s) :
            /\ \/ file' = [file EXCEPT ![k] = NoValue]
               \/ \E d \in Draws : Unused(k, d) /\ file' = [file EXCEPT ![k] = Fresh(k, d)]
            /\ UNCHANGED shape
       \/ /\ shape' \in {[shape EXCEPT ![s] = w] : w \in Shapes \ {"absent"}}
          /\ UNCHANGED file
    /\ Touch(s, {"writing", "diffing", "reading"})
    /\ UNCHANGED <<vault, live, object, foreign>>

\* The operator issues a value at its provider and stores it in Bitwarden.
Issue(k, d) ==
    /\ ByHand /\ Unused(k, d)
    /\ vault' = [vault EXCEPT ![k] = Fresh(k, d)]
    /\ UNCHANGED <<file, shape, live, object, foreign, run>>

\* kubectl create: a Secret with values of its own, owned by another manager.
CreateByHand(s, K, d) ==
    /\ ByHand /\ object[s] = "absent"
    /\ \A k \in K : Unused(k, d)
    /\ live' = [k \in Held |-> IF k \in K THEN Fresh(k, d) ELSE live[k]]
    /\ object' \in {[object EXCEPT ![s] = o] : o \in Objects \ {"absent"}}
    /\ foreign' = foreign \union K
    /\ Touch(s, {"diffing", "reading"})
    /\ UNCHANGED <<file, shape, vault>>

DeleteByHand(s) ==
    /\ ByHand /\ object[s] # "absent"
    /\ live' = [k \in Held |-> IF In[k] = s THEN NoValue ELSE live[k]]
    /\ object' = [object EXCEPT ![s] = "absent"]
    /\ foreign' = foreign \ HeldBy(s)
    /\ Touch(s, {"diffing", "reading"})
    /\ UNCHANGED <<file, shape, vault>>

Next ==
    \/ Generate \/ Rotate \/ Pull \/ Set
    \/ Written \/ Apply \/ NoDrift \/ StartApply \/ StartReadback \/ Applied \/ Stop
    \/ \E s \in Secrets : WriteFile(s) \/ Compare(s) \/ ApplySecret(s) \/ ReadBack(s)
    \/ \E s \in Secrets : EditFile(s) \/ DeleteByHand(s)
    \/ \E k \in Issued, d \in Draws : Issue(k, d)
    \/ \E s \in Secrets, d \in Draws : \E K \in SUBSET HeldBy(s) \ {{}} : CreateByHand(s, K, d)

Spec == Init /\ [][Next]_vars

-----------------------------------------------------------------------------
(* What list says of a key of the files.                                    *)

StaleCopies == {k \in Copies : /\ file[k] # NoValue /\ file[From[k]] # NoValue
                               /\ file[k] # Render(k, file[From[k]])}
StaleLiterals == {k \in Literals : file[k] \notin {NoValue, LiteralValue(k)}}
Missing == {k \in Keys : file[k] = NoValue}
NotInCatalog == {k \in Extras : file[k] # NoValue}
SourceMissing == {k \in Copies : file[k] # NoValue /\ file[From[k]] = NoValue}

-----------------------------------------------------------------------------
(* Properties.                                                              *)

\* Every variable has its type, and a draft of values exists only in a run.
TypeOK ==
    /\ file \in Contents /\ shape \in [Secrets -> Shapes]
    /\ vault \in Contents
    /\ live \in Contents /\ object \in [Secrets -> Objects] /\ foreign \subseteq Held
    /\ run \in RunState /\ byHand \in 0..MaxByHand

\* The files of S are what the catalog says: every copy holds its source's
\* value, every literal its own, no file a key the catalog does not list.
FilesFollow(S) ==
    /\ \A s \in S : shape[s] \in {"absent", "match"}
    /\ \A k \in Extras : In[k] \in S => file[k] = NoValue
    /\ \A k \in Literals : In[k] \in S => file[k] = LiteralValue(k)
    /\ \A k \in Copies : {In[k], In[From[k]]} \subseteq S /\ file[From[k]] # NoValue =>
          file[k] = Render(k, file[From[k]])

\* A write command that ends without an error leaves every file as the
\* catalog says, whatever an interrupted run or an edit left before it: the
\* copies in files it did not name included.  Only a file edited since the
\* plan read it, and not written after that, is as its edit left it
\* (plan.go build, Planner.Write).
WriteSettles == run.step = "written" => FilesFollow(Secrets \ run.touched)

\* list and the write commands agree: what list says generate puts right, the
\* next plan changes, and no plan changes a key list calls present
\* (list.go keyState, plan.go build).
ListAgrees ==
    LET next == Build(file, [k \in WithoutValue |-> LiteralValue(k)])
    IN  /\ \A k \in StaleCopies \union StaleLiterals \union NotInCatalog : next[k] # file[k]
        /\ \A k \in Keys \ (StaleCopies \union StaleLiterals \union Missing \union SourceMissing) :
              next[k] = file[k]

\* generate never replaces a generated value, after a stopped rotate either:
\* the value may be in use on the cluster (plan.go Generate).
GenerateKeeps ==
    [][Generate => \A k \in Generated : file[k] # NoValue => run'.next[k] = file[k]]_vars

\* An apply that ends without an error leaves every Secret it was asked for
\* as its file says, and the file as the catalog lists it, the Secrets its
\* first diff found in step included: whoever changed a file or a live Secret
\* between that diff and the one it ends with makes it fail.  Only what
\* changed after that last reading of its Secret goes unseen (live.go Diff
\* and Apply, cmd/secrets.go apply).
AppliedInStep ==
    run.step = "applied" => \A s \in run.selected \ run.touched : InStep(s)

\* "so the cluster only ever gets what the catalog says" (live.go:24): a
\* copy is applied with its source's value.
ClusterGetsCatalog ==
    [][\A k \in Copies :
          (/\ run.step = "applying" /\ run' # run /\ live'[k] # live[k]
           /\ file[From[k]] # NoValue) => live'[k] = Render(k, file[From[k]])]_vars
=============================================================================
