---------------------------- MODULE SSHGateProofs ----------------------------
(***************************************************************************)
(* Theorems about bootstrap SSH, for any number of overlapping processes,  *)
(* any faults and whichever firewalls the provider fails to close.         *)
(***************************************************************************)
EXTENDS SSHGate, TLAPS

USE DEF All, Modes, Results, Steps, Opening, Closing

(* First picks a firewall of the two.                                      *)
LEMMA FirstInAll == ASSUME NEW F PROVE First(F) \in All
BY DEF First

(* What a plan changes is about the two firewalls.                         *)
LEMMA ChangesInAll == ASSUME TypeOK, NEW W \in SUBSET All PROVE Changes(W) \in SUBSET All
BY DEF TypeOK, Changes

(* An apply keeps the types of what it changes.                            *)
LEMMA ApplyTypes ==
  ASSUME TypeOK, NEW r \in Runs, NEW C \in SUBSET All, Apply(r, C)
  PROVE  open' \subseteq All /\ opener' \in [All -> Runs] /\ serial' \in Nat
<1>1. plan[r].want \subseteq All
  BY DEF TypeOK
<1> QED
  BY <1>1 DEF Apply, TypeOK

(* No step gives a variable a value of another type.                       *)
LEMMA TypeStep == TypeOK /\ [Next]_vars => TypeOK'
<1> SUFFICES ASSUME TypeOK, [Next]_vars PROVE TypeOK'
  OBVIOUS
<1> USE DEF TypeOK, runVars, Goto, End
<1>1. CASE UNCHANGED vars
  BY <1>1 DEF vars
<1>2. ASSUME NEW r \in Runs, Start(r) PROVE TypeOK'
  BY <1>2 DEF Start
<1>3. ASSUME NEW r \in Runs, Step(r) PROVE TypeOK'
  <2>a. plan[r] \in [want : SUBSET All, changes : SUBSET All, serial : Nat]
    OBVIOUS
  <2>1. CASE PlanOpen(r)
    <3>1. wants[r] \in SUBSET All /\ Changes(wants[r]) \in SUBSET All
      BY ChangesInAll
    <3>2. pc' \in [Runs -> Steps]
      BY <2>1 DEF PlanOpen, AfterOpen, AfterOpenError
    <3> QED
      BY <2>1, <3>1, <3>2 DEF PlanOpen
  <2>2. CASE ApplyOpen(r)
    <3>1. open' \subseteq All /\ opener' \in [All -> Runs] /\ serial' \in Nat
      BY <2>2, <2>a, ApplyTypes DEF ApplyOpen
    <3>2. pc' \in [Runs -> Steps]
      BY <2>2 DEF ApplyOpen, AfterOpenError
    <3> QED
      BY <2>2, <3>1, <3>2 DEF ApplyOpen
  <2>3. CASE ReadOpen(r)
    <3>1. pc' \in [Runs -> Steps]
      BY <2>3 DEF ReadOpen, AfterOpen, AfterOpenError
    <3> QED
      BY <2>3, <3>1 DEF ReadOpen
  <2>4. CASE Work(r)
    BY <2>4 DEF Work
  <2>5. CASE PlanClose(r)
    <3>1. Changes({}) \in SUBSET All
      BY ChangesInAll
    <3> QED
      BY <2>5, <3>1 DEF PlanClose
  <2>6. CASE ApplyClose(r)
    <3>1. open' \subseteq All /\ opener' \in [All -> Runs] /\ serial' \in Nat
      BY <2>6, <2>a, ApplyTypes DEF ApplyClose
    <3> QED
      BY <2>6, <3>1 DEF ApplyClose
  <2>7. CASE ReadClose(r)
    <3>1. First(todo[r]) \in All
      BY FirstInAll
    <3>2. todo' \in [Runs -> SUBSET All] /\ still' \in [Runs -> SUBSET All]
      <4> DEFINE f == First(todo[r])
      <4>1. CASE f \notin open /\ todo' = [todo EXCEPT ![r] = @ \ {f}] /\ still' = still
        BY <3>1, <4>1
      <4>2. CASE /\ todo' = [todo EXCEPT ![r] = @ \ {f}]
                 /\ still' = [still EXCEPT ![r] = @ \cup {f}]
        BY <3>1, <4>2
      <4>3. CASE todo' = todo /\ still' = still
        BY <4>3
      <4> QED
        BY <2>7, <4>1, <4>2, <4>3 DEF ReadClose
    <3>3. pc' \in [Runs -> Steps]
      BY <2>7 DEF ReadClose
    <3> QED
      BY <2>7, <3>2, <3>3 DEF ReadClose
  <2>8. CASE ClearSSH(r)
    BY <2>8 DEF ClearSSH
  <2>9. CASE ReadAgain(r)
    BY <2>9 DEF ReadAgain
  <2>10. CASE ReadBoth(r)
    BY <2>10 DEF ReadBoth
  <2>11. CASE PlanClean(r)
    BY <2>11 DEF PlanClean
  <2> QED
    BY <1>3, <2>1, <2>2, <2>3, <2>4, <2>5, <2>6, <2>7, <2>8, <2>9, <2>10, <2>11 DEF Step
<1>4. ASSUME NEW r \in Runs, Fault(r) PROVE TypeOK'
  <2>a. plan[r] \in [want : SUBSET All, changes : SUBSET All, serial : Nat]
    OBVIOUS
  <2>b. ASSUME NEW C \in SUBSET plan[r].changes, Apply(r, C)
        PROVE  open' \subseteq All /\ opener' \in [All -> Runs] /\ serial' \in Nat
    <3>1. C \in SUBSET All
      BY <2>a
    <3> QED
      BY <2>b, <3>1, ApplyTypes
  <2>1. CASE ApplyOpenFails(r)
    BY <2>1, <2>b DEF ApplyOpenFails, AfterOpenError
  <2>2. CASE OpenFails(r)
    BY <2>2 DEF OpenFails, AfterOpenError
  <2>3. CASE CloseFails(r)
    <3>1. open' \subseteq All /\ opener' \in [All -> Runs] /\ serial' \in Nat
      BY <2>3, <2>b DEF CloseFails
    <3> QED
      BY <2>3, <3>1 DEF CloseFails
  <2>4. CASE Kill(r)
    BY <2>4 DEF Kill
  <2> QED
    BY <1>4, <2>1, <2>2, <2>3, <2>4 DEF Fault
<1> QED
  BY <1>1, <1>2, <1>3, <1>4 DEF Next

(* Every variable keeps its type.                                          *)
THEOREM GateTypes == Spec => []TypeOK
<1>1. Init => TypeOK
  BY DEF Init, TypeOK
<1> QED
  BY <1>1, TypeStep, PTL DEF Spec

-----------------------------------------------------------------------------
(* What the steps of an open and a close rely on.                          *)

(* A plan that is applied is one the mode allows; a close opens nothing.   *)
PlanInv(r) ==
  /\ pc[r] = "applyOpen" =>
       mode[r] # "plan" /\ (mode[r] # "force" => plan[r].changes \subseteq plan[r].want)
  /\ pc[r] = "applyClose" => plan[r].want = {}

(* A run that may be the one that opened a firewall: its mode let it       *)
(* apply, and it has still to close or has said why not.                   *)
Owes(r) ==
  /\ pc[r] # "off" /\ mode[r] # "plan"
  /\ WillClose(r) \/ result[r] = "error" \/ pc[r] = "dead" \/ stays[r]

GateInv ==
  /\ TypeOK
  /\ \A r \in Runs : PlanInv(r)
  /\ \A f \in open : Owes(opener[f])

(* A run's step leaves what belongs to another run alone.                  *)
LEMMA OthersStay ==
  ASSUME TypeOK, NEW q \in Runs, NEW r \in Runs, r # q, Start(r) \/ Step(r) \/ Fault(r)
  PROVE  /\ pc'[q] = pc[q] /\ mode'[q] = mode[q] /\ stays'[q] = stays[q]
         /\ plan'[q] = plan[q] /\ result'[q] = result[q]
BY DEF TypeOK, runVars, Goto, End, Start, Step, Fault, PlanOpen, ApplyOpen, ReadOpen, Work,
   PlanClose, ApplyClose, ReadClose, ClearSSH, ReadAgain, ReadBoth, PlanClean, ApplyOpenFails,
   OpenFails, CloseFails, Kill

(* A run's step keeps its own plan's promise, and does not touch others'.  *)
LEMMA PlanKept == ASSUME GateInv, [Next]_vars, NEW q \in Runs PROVE PlanInv(q)'
<1> USE DEF GateInv, TypeOK, PlanInv, runVars, Goto, End
<1>1. CASE UNCHANGED vars
  BY <1>1 DEF vars
<1>2. ASSUME NEW r \in Runs, r # q, Start(r) \/ Step(r) \/ Fault(r) PROVE PlanInv(q)'
  <2>1. mode'[q] = mode[q] /\ plan'[q] = plan[q] /\ pc'[q] = pc[q]
    BY <1>2, OthersStay
  <2> QED
    BY <2>1
<1>3. CASE PlanOpen(q)
  BY <1>3 DEF PlanOpen, AfterOpen, AfterOpenError
<1>4. CASE PlanClose(q)
  BY <1>4 DEF PlanClose
<1>5. CASE Start(q)
  BY <1>5 DEF Start
<1>6. ASSUME Step(q) \/ Fault(q), ~PlanOpen(q), ~PlanClose(q) PROVE PlanInv(q)'
  <2>1. pc'[q] \notin {"applyOpen", "applyClose"}
    BY <1>6 DEF Step, Fault, ApplyOpen, ReadOpen, Work, ApplyClose, ReadClose, ClearSSH,
       ReadAgain, ReadBoth, PlanClean, ApplyOpenFails, OpenFails, CloseFails, Kill,
       AfterOpen, AfterOpenError
  <2> QED
    BY <2>1
<1> QED
  BY <1>1, <1>2, <1>3, <1>4, <1>5, <1>6 DEF Next

(* A run that owes a close goes on owing it until both are closed.         *)
LEMMA OwesKept ==
  ASSUME TypeOK, [Next]_vars, NEW q \in Runs, Owes(q)
  PROVE  Owes(q)' \/ open' = {}
<1> USE DEF TypeOK, Owes, WillClose, runVars, Goto, End
<1>1. CASE UNCHANGED vars
  BY <1>1 DEF vars
<1>2. ASSUME NEW r \in Runs, r # q, Start(r) \/ Step(r) \/ Fault(r) PROVE Owes(q)'
  <2>1. /\ mode'[q] = mode[q] /\ stays'[q] = stays[q]
        /\ pc'[q] = pc[q] /\ result'[q] = result[q]
    BY <1>2, OthersStay
  <2> QED
    BY <2>1
<1>3. CASE PlanClean(q)
  BY <1>3 DEF PlanClean, Changes
<1>4. ASSUME Step(q) \/ Fault(q), ~PlanClean(q) PROVE Owes(q)'
  <2>1. mode'[q] = mode[q] /\ stays'[q] = stays[q] /\ pc'[q] # "off"
    BY <1>4 DEF Step, Fault, PlanOpen, ApplyOpen, ReadOpen, Work, PlanClose, ApplyClose,
       ReadClose, ClearSSH, ReadAgain, ReadBoth, ApplyOpenFails, OpenFails, CloseFails, Kill,
       AfterOpen, AfterOpenError
  <2>2. \/ pc'[q] \in Opening \cup {"work", "dead"} \cup Closing
        \/ result'[q] = "error" \/ stays[q]
    BY <1>4 DEF Step, Fault, PlanOpen, ApplyOpen, ReadOpen, Work, PlanClose, ApplyClose,
       ReadClose, ClearSSH, ReadAgain, ReadBoth, ApplyOpenFails, OpenFails, CloseFails, Kill,
       AfterOpen, AfterOpenError
  <2> QED
    BY <2>1, <2>2
<1>5. ~Start(q)
  BY DEF Start
<1> QED
  BY <1>1, <1>2, <1>3, <1>4, <1>5 DEF Next

(* A run that applies while it opens owes a close; one that closes opens   *)
(* no firewall.                                                            *)
LEMMA Applied ==
  ASSUME GateInv, NEW r \in Runs, NEW C \in SUBSET plan[r].changes, Apply(r, C),
         pc[r] \in {"applyOpen", "applyClose"}, NEW f \in open'
  PROVE  \/ f \in open /\ opener'[f] = opener[f]
         \/ pc[r] = "applyOpen" /\ opener'[f] = r
<1>1. f \in All
  <2>1. plan[r].want \subseteq All /\ open \subseteq All
    BY DEF GateInv, TypeOK
  <2> QED
    BY <2>1 DEF Apply
<1>2. CASE pc[r] = "applyOpen"
  BY <1>1, <1>2 DEF Apply
<1>3. CASE pc[r] = "applyClose"
  <2>1. plan[r].want = {}
    BY <1>3 DEF GateInv, PlanInv
  <2> QED
    BY <1>1, <2>1 DEF Apply
<1> QED
  BY <1>2, <1>3

(* Who opened a firewall that is open after a step.                        *)
LEMMA Openers ==
  ASSUME GateInv, TypeOK', [Next]_vars, NEW f \in open'
  PROVE  \/ f \in open /\ opener'[f] = opener[f]
         \/ Owes(opener[f])'
<1> USE DEF GateInv, runVars, Goto, End
<1>1. CASE UNCHANGED vars
  BY <1>1 DEF vars
<1>2. ASSUME NEW r \in Runs, ApplyOpen(r) \/ ApplyOpenFails(r)
      PROVE  (f \in open /\ opener'[f] = opener[f]) \/ Owes(opener[f])'
  <2>1. Owes(r)'
    BY <1>2 DEF ApplyOpen, ApplyOpenFails, AfterOpenError, Owes, WillClose, PlanInv, TypeOK
  <2>2. CASE UNCHANGED <<open, opener>>
    BY <2>2
  <2>3. ASSUME NEW C \in SUBSET plan[r].changes, Apply(r, C)
        PROVE  (f \in open /\ opener'[f] = opener[f]) \/ Owes(opener[f])'
    <3>1. pc[r] = "applyOpen"
      BY <1>2 DEF ApplyOpen, ApplyOpenFails
    <3>2. CASE f \in open /\ opener'[f] = opener[f]
      BY <3>2
    <3>3. CASE opener'[f] = r
      BY <2>1, <3>3 DEF Owes, WillClose
    <3> QED
      BY <2>3, <3>1, <3>2, <3>3, Applied
  <2>4. plan[r].changes \in SUBSET plan[r].changes
    OBVIOUS
  <2> QED
    BY <1>2, <2>2, <2>3, <2>4 DEF ApplyOpen, ApplyOpenFails
<1>3. ASSUME NEW r \in Runs, ApplyClose(r) \/ CloseFails(r)
      PROVE  f \in open /\ opener'[f] = opener[f]
  <2>1. CASE UNCHANGED <<open, opener>>
    BY <2>1
  <2>2. CASE pc[r] = "applyClose" /\ \E C \in SUBSET plan[r].changes : Apply(r, C)
    BY <2>2, Applied
  <2> QED
    BY <1>3, <2>1, <2>2 DEF ApplyClose, CloseFails
<1>4. ASSUME NEW r \in Runs, Start(r) \/ Step(r) \/ Fault(r),
             ~ApplyOpen(r), ~ApplyOpenFails(r), ~ApplyClose(r), ~CloseFails(r)
      PROVE  f \in open /\ opener'[f] = opener[f]
  BY <1>4 DEF Start, Step, Fault, PlanOpen, ReadOpen, Work, PlanClose, ReadClose, ClearSSH,
     ReadAgain, ReadBoth, PlanClean, OpenFails, Kill
<1> QED
  BY <1>1, <1>2, <1>3, <1>4 DEF Next

(* Every step keeps the invariant.                                         *)
LEMMA GateInductive == GateInv /\ [Next]_vars => GateInv'
<1> SUFFICES ASSUME GateInv, [Next]_vars PROVE GateInv'
  OBVIOUS
<1>1. TypeOK'
  BY TypeStep DEF GateInv
<1>2. ASSUME NEW f \in open' PROVE Owes(opener[f])'
  <2>1. CASE f \in open /\ opener'[f] = opener[f]
    <3>1. PICK q \in Runs : q = opener[f]
      BY <2>1 DEF GateInv, TypeOK
    <3>2. Owes(q)
      BY <2>1, <3>1 DEF GateInv
    <3>3. Owes(q)'
      BY <1>2, <3>2, OwesKept DEF GateInv
    <3> QED
      BY <2>1, <3>1, <3>3 DEF Owes, WillClose
  <2> QED
    BY <1>1, <2>1, Openers
<1> QED
  BY <1>1, <1>2, PlanKept DEF GateInv

LEMMA GateInitially == Init => GateInv
BY DEF Init, GateInv, TypeOK, PlanInv

(* Port 22 is never left open in silence.                                  *)
THEOREM NeverSilentlyOpen == Spec => []NoSilentOpen
<1>1. GateInv => NoSilentOpen
  BY DEF GateInv, Owes, NoSilentOpen
<1> QED
  BY <1>1, GateInitially, GateInductive, PTL DEF Spec

(* An open closes no firewall, unless --allow-unexpected let it.           *)
THEOREM OpensCloseNothing == Spec => OpenClosesNothing
<1>1. ASSUME GateInv, [Next]_vars, NEW r \in Runs,
             pc[r] = "applyOpen", mode[r] # "force", pc'[r] # "applyOpen"
      PROVE  open \subseteq open'
  <2>1. plan[r].changes \subseteq plan[r].want
    BY <1>1 DEF GateInv, PlanInv
  <2>2. ApplyOpen(r) \/ ApplyOpenFails(r) \/ OpenFails(r) \/ Kill(r)
    <3>1. ASSUME NEW q \in Runs, q # r, Start(q) \/ Step(q) \/ Fault(q) PROVE pc'[r] = pc[r]
      BY <1>1, <3>1, OthersStay DEF GateInv
    <3>2. Start(r) \/ Step(r) \/ Fault(r)
      BY <1>1, <3>1 DEF Next, vars
    <3> QED
      BY <1>1, <3>2 DEF Start, Step, Fault, PlanOpen, ReadOpen, Work, PlanClose, ApplyClose,
         ReadClose, ClearSSH, ReadAgain, ReadBoth, PlanClean, CloseFails
  <2> QED
    BY <2>1, <2>2 DEF ApplyOpen, ApplyOpenFails, OpenFails, Kill, Apply
<1> DEFINE Keeps == \A r \in Runs : pc[r] = "applyOpen" /\ mode[r] # "force" /\ pc'[r] # "applyOpen"
                     => open \subseteq open'
<1>2. GateInv /\ [Next]_vars => [Keeps]_vars
  BY <1>1
<1>3. []GateInv /\ [][Next]_vars => OpenClosesNothing
  BY <1>2, PTL DEF OpenClosesNothing
<1> QED
  BY <1>3, GateInitially, GateInductive, PTL DEF Spec
=============================================================================
