------------------------------- MODULE SSHGate -------------------------------
(***************************************************************************)
(* Bootstrap SSH on the two cluster firewalls (sshgate.Gate): kluster runs *)
(* that open port 22 through the shared Module, work, and close it again   *)
(* whatever happened, and the operator's `ssh open` and `ssh close`.       *)
(*                                                                         *)
(* The shared Module sets both switches in one plan: a switch a plan does  *)
(* not name is off.  Terraform refreshes before it plans, so a plan is     *)
(* made of what the API holds; it refuses a saved plan once its state has  *)
(* changed.  Provider 1.69.0 reports success for an update that leaves a   *)
(* firewall without any rule, and leaves the rule there: OnlyRule is the   *)
(* firewalls whose SSH rule is the only one.                               *)
(***************************************************************************)
EXTENDS Naturals

CONSTANTS Runs,      \* the kluster processes, several at a time
          OnlyRule,  \* the firewalls the provider fails to close
          MaxFaults  \* bound: failed calls, interrupts and crashes

ControlPlane == "cp"
Worker       == "worker"
All          == {ControlPlane, Worker}

ASSUME ConstantsAssumption == OnlyRule \subseteq All /\ MaxFaults \in Nat

VARIABLES
  open,    \* the firewalls whose rules in the API admit port 22
  serial,  \* the serial of the shared Module's Terraform state
  pc,      \* where each run is
  wants,   \* the firewalls a run opens; none for `ssh close`
  mode,    \* "plan", "apply", or "force" (--apply --allow-unexpected)
  stays,   \* the run is `ssh open`, which leaves port 22 open
  plan,    \* the run's saved plan: what it wants open, the firewalls it
           \* changes, and the serial it is for
  todo,    \* the firewalls still to read back
  still,   \* the firewalls a close read back open
  result,  \* how the run's close ended
  opener,  \* the run that opened each firewall last
  faults   \* faults so far

runVars == <<wants, mode, stays>>
vars == <<open, serial, pc, runVars, plan, todo, still, result, opener, faults>>

Modes   == {"plan", "apply", "force"}
Results == {"none", "clean", "error"}
Opening == {"planOpen", "applyOpen", "readOpen"}
Closing == {"planClose", "applyClose", "readClose", "clear", "readAgain", "planClean"}
Steps   == {"off", "work", "ended", "dead"} \cup Opening \cup Closing

(* A run that has opened port 22 and has still to close it.                *)
WillClose(r) == pc[r] \in Opening \cup {"work"} \cup Closing

(* What Terraform has to change so that just the firewalls W are open.     *)
Changes(W) == (open \ W) \cup (W \ open)

(* All in its order: the Control Plane's firewall first.                   *)
First(F) == IF ControlPlane \in F THEN ControlPlane ELSE Worker

Goto(r, step) == pc' = [pc EXCEPT ![r] = step]

(* The close of a run ends, with or without an error.                      *)
End(r, how) ==
  /\ Goto(r, "ended")
  /\ result' = [result EXCEPT ![r] = how]

Init ==
  /\ open = {}
  /\ serial = 0
  /\ pc = [r \in Runs |-> "off"]
  /\ wants = [r \in Runs |-> {}]
  /\ mode = [r \in Runs |-> "plan"]
  /\ stays = [r \in Runs |-> FALSE]
  /\ plan = [r \in Runs |-> [want |-> {}, changes |-> {}, serial |-> 0]]
  /\ todo = [r \in Runs |-> {}]
  /\ still = [r \in Runs |-> {}]
  /\ result = [r \in Runs |-> "none"]
  /\ opener \in [All -> Runs]
  /\ faults = 0

-----------------------------------------------------------------------------
(* A run starts: a command that opens some firewalls for its work and      *)
(* defers the close, `ssh close`, or `ssh open` on the Control Plane's.    *)
Start(r) ==
  /\ pc[r] = "off"
  /\ \E W \in SUBSET All, m \in Modes, s \in BOOLEAN :
       /\ s => W = {ControlPlane}
       /\ wants' = [wants EXCEPT ![r] = W]
       /\ mode' = [mode EXCEPT ![r] = m]
       /\ stays' = [stays EXCEPT ![r] = s]
       /\ Goto(r, IF W = {} THEN "planClose" ELSE "planOpen")
  /\ UNCHANGED <<open, serial, plan, todo, still, result, opener, faults>>

(* Mutant: the close is deferred only once the open is back.               *)
NoDeferredClose(r) == "ended"

(* Where a run goes when its open returns: to its deferred close, or to    *)
(* its end for `ssh open`, which defers none.                              *)
AfterOpenError(r) == IF stays[r] THEN "ended" ELSE "planClose"
AfterOpen(r) == IF stays[r] THEN "ended" ELSE "work"

-----------------------------------------------------------------------------
(* Open.                                                                   *)

(* One plan for all the firewalls.  Its Intent is an update of those and   *)
(* nothing else: a mismatch aborts under --apply, and Plan Mode goes on    *)
(* without applying.  No change means open already: only the read back.    *)
PlanOpen(r) ==
  /\ pc[r] = "planOpen"
  /\ LET changes == Changes(wants[r]) IN
       /\ plan' = [plan EXCEPT ![r] =
            [want |-> wants[r], changes |-> changes, serial |-> serial]]
       /\ Goto(r, CASE changes = {} -> "readOpen"
                    [] changes # {} /\ mode[r] = "plan" -> AfterOpen(r)
                    [] ~(changes \subseteq wants[r]) /\ mode[r] = "apply" -> AfterOpenError(r)
                    [] OTHER -> "applyOpen")
  /\ todo' = [todo EXCEPT ![r] = wants[r]]
  /\ UNCHANGED <<open, serial, runVars, still, result, opener, faults>>

(* The run applies the changes C of its plan.  The firewalls it opens      *)
(* become its own; the provider does not empty a firewall.                 *)
Apply(r, C) ==
  LET opens == C \cap plan[r].want IN
  /\ open' = (open \ ((C \ plan[r].want) \ OnlyRule)) \cup opens
  /\ opener' = [f \in All |-> IF f \in opens \ open THEN r ELSE opener[f]]
  /\ serial' = serial + 1

(* Mutant: the open plans again at once instead of applying what it saved. *)
ApplyUnsaved(r) ==
  /\ pc[r] = "applyOpen"
  /\ Apply(r, Changes(plan[r].want))
  /\ Goto(r, "readOpen")
  /\ UNCHANGED <<runVars, plan, todo, still, result, faults>>

ApplyOpen(r) ==
  /\ pc[r] = "applyOpen"
  /\ IF plan[r].serial = serial
     THEN /\ Apply(r, plan[r].changes)
          /\ Goto(r, "readOpen")
     ELSE /\ Goto(r, AfterOpenError(r))
          /\ UNCHANGED <<open, opener, serial>>
  /\ UNCHANGED <<runVars, plan, todo, still, result, faults>>

(* An apply that fails or is interrupted has made some of the changes.     *)
ApplyOpenFails(r) ==
  /\ pc[r] = "applyOpen"
  /\ faults < MaxFaults
  /\ faults' = faults + 1
  /\ plan[r].serial = serial
  /\ \E C \in SUBSET plan[r].changes : Apply(r, C)
  /\ Goto(r, AfterOpenError(r))
  /\ UNCHANGED <<runVars, plan, todo, still, result>>

ReadOpen(r) ==
  /\ pc[r] = "readOpen"
  /\ LET f == First(todo[r]) IN
       /\ todo' = [todo EXCEPT ![r] = @ \ {f}]
       /\ Goto(r, CASE f \notin open -> AfterOpenError(r)
                    [] f \in open /\ todo[r] = {f} -> AfterOpen(r)
                    [] OTHER -> "readOpen")
  /\ UNCHANGED <<open, serial, runVars, plan, still, result, opener, faults>>

(* A plan or a read fails, or an interrupt: the open returns its error.    *)
OpenFails(r) ==
  /\ pc[r] \in Opening
  /\ faults < MaxFaults
  /\ faults' = faults + 1
  /\ Goto(r, AfterOpenError(r))
  /\ UNCHANGED <<open, serial, runVars, plan, todo, still, result, opener>>

(* The run's work ends, well or not.                                       *)
Work(r) ==
  /\ pc[r] = "work"
  /\ Goto(r, "planClose")
  /\ UNCHANGED <<open, serial, runVars, plan, todo, still, result, opener, faults>>

-----------------------------------------------------------------------------
(* Close.                                                                  *)

(* Its Intent allows an update of both firewalls, so it always matches.    *)
PlanClose(r) ==
  /\ pc[r] = "planClose"
  /\ plan' = [plan EXCEPT ![r] = [want |-> {}, changes |-> Changes({}), serial |-> serial]]
  /\ Goto(r, IF Changes({}) = {} \/ mode[r] = "plan" THEN "readClose" ELSE "applyClose")
  /\ todo' = [todo EXCEPT ![r] = All]
  /\ UNCHANGED <<open, serial, runVars, still, result, opener, faults>>

ApplyClose(r) ==
  /\ pc[r] = "applyClose"
  /\ IF plan[r].serial = serial
     THEN /\ Apply(r, plan[r].changes)
          /\ Goto(r, "readClose") /\ UNCHANGED result
     ELSE End(r, "error") /\ UNCHANGED <<open, opener, serial>>
  /\ UNCHANGED <<runVars, plan, todo, still, faults>>

(* The read back of one firewall.  Still open, it is cleared over the API  *)
(* under --apply.                                                          *)
ReadClose(r) ==
  /\ pc[r] = "readClose" /\ todo[r] # {}
  /\ LET f == First(todo[r]) IN
       \/ /\ f \notin open
          /\ todo' = [todo EXCEPT ![r] = @ \ {f}]
          /\ UNCHANGED <<pc, still>>
       \/ /\ f \in open /\ mode[r] = "plan"
          /\ todo' = [todo EXCEPT ![r] = @ \ {f}]
          /\ still' = [still EXCEPT ![r] = @ \cup {f}]
          /\ UNCHANGED pc
       \/ /\ f \in open /\ mode[r] # "plan"
          /\ Goto(r, "clear")
          /\ UNCHANGED <<todo, still>>
  /\ UNCHANGED <<open, serial, runVars, plan, result, opener, faults>>

(* Mutant: the cleared rule is not written back.                           *)
ClearNothing(r) ==
  /\ pc[r] = "clear"
  /\ Goto(r, "readAgain")
  /\ UNCHANGED <<open, serial, runVars, plan, todo, still, result, opener, faults>>

(* ClearSSH: not through Terraform, so its state does not change.          *)
ClearSSH(r) ==
  /\ pc[r] = "clear"
  /\ open' = open \ {First(todo[r])}
  /\ Goto(r, "readAgain")
  /\ UNCHANGED <<serial, runVars, plan, todo, still, result, opener, faults>>

ReadAgain(r) ==
  /\ pc[r] = "readAgain"
  /\ LET f == First(todo[r]) IN
       /\ still' = [still EXCEPT ![r] = @ \cup (open \cap {f})]
       /\ todo' = [todo EXCEPT ![r] = @ \ {f}]
  /\ Goto(r, "readClose")
  /\ UNCHANGED <<open, serial, runVars, plan, result, opener, faults>>

(* Both are read back: still open is an error, and Plan Mode ends here.    *)
ReadBoth(r) ==
  /\ pc[r] = "readClose" /\ todo[r] = {}
  /\ \/ still[r] # {} /\ End(r, "error")
     \/ still[r] = {} /\ mode[r] = "plan" /\ End(r, "clean")
     \/ still[r] = {} /\ mode[r] # "plan" /\ Goto(r, "planClean") /\ UNCHANGED result
  /\ UNCHANGED <<open, serial, runVars, plan, todo, still, opener, faults>>

(* Terraform has nothing left to do, or the close is an error.             *)
PlanClean(r) ==
  /\ pc[r] = "planClean"
  /\ End(r, IF Changes({}) = {} THEN "clean" ELSE "error")
  /\ UNCHANGED <<open, serial, runVars, plan, todo, still, opener, faults>>

(* A call of the close fails, or its ten minutes pass: it returns at once. *)
(* An apply may have made some of its changes.                             *)
CloseFails(r) ==
  /\ pc[r] \in Closing
  /\ faults < MaxFaults
  /\ faults' = faults + 1
  /\ End(r, "error")
  /\ \/ UNCHANGED <<open, serial, opener>>
     \/ /\ pc[r] = "applyClose" /\ plan[r].serial = serial
        /\ \E C \in SUBSET plan[r].changes : Apply(r, C)
  /\ UNCHANGED <<runVars, plan, todo, still>>

(* A SIGKILL or a crash: no deferred close.                                *)
Kill(r) ==
  /\ WillClose(r)
  /\ faults < MaxFaults
  /\ faults' = faults + 1
  /\ Goto(r, "dead")
  /\ UNCHANGED <<open, serial, runVars, plan, todo, still, result, opener>>

-----------------------------------------------------------------------------
Step(r) ==
  \/ PlanOpen(r) \/ ApplyOpen(r) \/ ReadOpen(r) \/ Work(r)
  \/ PlanClose(r) \/ ApplyClose(r) \/ ReadClose(r) \/ ClearSSH(r)
  \/ ReadAgain(r) \/ ReadBoth(r) \/ PlanClean(r)

Fault(r) == ApplyOpenFails(r) \/ OpenFails(r) \/ CloseFails(r) \/ Kill(r)

Next == \E r \in Runs : Start(r) \/ Step(r) \/ Fault(r)

Spec == Init /\ [][Next]_vars

(* A run that has started goes on; nobody owes a start or a fault.         *)
FairSpec == Spec /\ \A r \in Runs : WF_vars(Step(r))

-----------------------------------------------------------------------------
(* The type of every variable; what a run keeps is about the two firewalls.*)
TypeOK ==
  /\ open \subseteq All
  /\ serial \in Nat
  /\ pc \in [Runs -> Steps]
  /\ wants \in [Runs -> SUBSET All]
  /\ mode \in [Runs -> Modes]
  /\ stays \in [Runs -> BOOLEAN]
  /\ plan \in [Runs -> [want : SUBSET All, changes : SUBSET All, serial : Nat]]
  /\ todo \in [Runs -> SUBSET All]
  /\ still \in [Runs -> SUBSET All]
  /\ result \in [Runs -> Results]
  /\ opener \in [All -> Runs]
  /\ faults \in Nat

(* Port 22 is never left open in silence: the run that opened a firewall   *)
(* has still to close it, or its close returned an error, or it was        *)
(* killed, or it is `ssh open` (commands.go:65, "every kluster run that    *)
(* opens port 22 closes it at its end, failed runs included").             *)
NoSilentOpen ==
  \A f \in open : LET r == opener[f] IN
    WillClose(r) \/ result[r] = "error" \/ pc[r] = "dead" \/ stays[r]

(* An open never closes a firewall another run holds open, unless the      *)
(* operator allowed it: "one plan for all of them, because an open of one  *)
(* alone would close the other" (sshgate.go:61).                           *)
OpenClosesNothing ==
  [][\A r \in Runs : pc[r] = "applyOpen" /\ mode[r] # "force" /\ pc'[r] # "applyOpen"
       => open \subseteq open']_vars

(* A close that meets no more faults, with the other runs over, leaves     *)
(* both firewalls closed, the provider's bug notwithstanding.              *)
Over(r) == pc[r] \in {"ended", "dead"}
Closes ==
  \A r \in Runs :
    (pc[r] = "planClose" /\ mode[r] # "plan" /\ faults = MaxFaults
       /\ \A q \in Runs \ {r} : Over(q)) ~> (open = {})
=============================================================================
