--------------------------- MODULE ClusterUpProofs ---------------------------
(***************************************************************************)
(* Theorems about kluster up, cp init, node add and down over one project, *)
(* for any Workers and addresses, and any number of acts of people.        *)
(***************************************************************************)
EXTENDS ClusterUp, WellFoundedInduction, TLAPS

-----------------------------------------------------------------------------
(* Names.                                                                  *)

(* The first of some Workers is one of them.                               *)
LEMMA FirstIn == ASSUME NEW S \in SUBSET Workers, S # {} PROVE First(S) \in S
<1>1. S \subseteq Nat
  BY UpConstants
<1>2. PICK x \in S : \A y \in S : ~(<<y, x>> \in OpToRel(<, Nat))
  BY <1>1, NatLessThanWellFounded, WFMin, Zenon
<1>3. \A y \in S : ~(y < x)
  BY <1>1, <1>2 DEF OpToRel
<1>4. \A y \in S : x <= y
  BY <1>1, <1>3
<1> QED
  BY <1>4 DEF First

-----------------------------------------------------------------------------
(* Types.                                                                  *)

LEMMA Constants == /\ Workers \subseteq Nat /\ Cp \notin Workers /\ Cp \in Hosts /\ Workers \subseteq Hosts
                   /\ CpIp \in Addresses /\ Vpn \in Addresses /\ Pool \subseteq Addresses
                   /\ CpIp \notin Pool /\ Vpn \notin Pool /\ CpIp # Vpn
BY UpConstants DEF Cp, Hosts, Addresses

ServerType  == [id : Nat, ip : Addresses, ours : BOOLEAN, joined : Nat]
ProjectType == [ip : {"none", "free", "assigned"}, net : BOOLEAN, lb : BOOLEAN, volume : BOOLEAN]
CpType      == [marker : {"none", "running", "complete"}, hub : BOOLEAN,
                api : {"none", "cut", "up", "down"}, ca : Nat, seeded : BOOLEAN]
LaptopType  == [conf : Nat, wire : Nat, ca : Nat, current : BOOLEAN]
RunType     == [cmd : {"up", "cpinit", "add", "down"}, step : Steps, cp : Nat, ca : Nat, at : Nat,
                have : SUBSET Workers, new : SUBSET Workers, fresh : SUBSET Workers,
                todo : SUBSET Workers, ids : SUBSET Nat, kinds : SUBSET Things,
                errs : BOOLEAN, quiet : BOOLEAN]

(* What stands around a run.                                               *)
IntentOK == /\ rehearsal \in BOOLEAN /\ declared \in SUBSET Workers /\ declared # {}
            /\ goal \in {"up", "down"}
WorldOK ==
    /\ server \in [Hosts -> ServerType] /\ project \in ProjectType
    /\ cp \in CpType /\ nodes \in [Workers -> Nat] /\ bucket \in BOOLEAN
    /\ pins \in [Addresses -> Nat] /\ laptop \in LaptopType
    /\ made \in Nat /\ cas \in Nat /\ byHand \in Nat

(* What a run has left to do at each step.                                 *)
Working == {"reach", "workers", "apply", "pin", "build", "join", "ready"}
Rest    == {"idle", "services", "done", "failed"}
StepInv ==
    /\ run.step \in Working => run.cmd \in {"up", "add"}
    /\ run.cmd \in {"up", "add"} => run.todo # {} \/ run.step \in Rest
    /\ run.step = "pin" => run.fresh # {}
RunOK == run \in RunType /\ StepInv

TypeInv == IntentOK /\ WorldOK /\ RunOK

LEMMA TypesMeet == TypeInv /\ (cp.ca = 0 <=> cp.api = "none") => TypeOK
BY DEF TypeInv, TypeOK, IntentOK, WorldOK, RunOK, ServerType, ProjectType, CpType, LaptopType, RunType

(* One step on.                                                            *)
LEMMA ToStep ==
  ASSUME RunOK, NEW s \in Steps, To(s), s # "pin",
         s \in Working => run.cmd \in {"up", "add"},
         run.step \notin Rest \/ s \in {"done", "failed"}
  PROVE  RunOK'
<1>1. run' = [run EXCEPT !.step = s]
  BY DEF To
<1>2. run' \in RunType
  BY <1>1 DEF RunOK, RunType
<1>3. run'.step = s /\ run'.cmd = run.cmd /\ run'.todo = run.todo /\ run'.fresh = run.fresh
  BY <1>1 DEF RunOK, RunType
<1>4. StepInv'
  BY <1>3 DEF RunOK, StepInv, Rest
<1> QED
  BY <1>2, <1>4 DEF RunOK

(* The steps that only go on to the next one.                              *)
Onward == \/ Shared \/ Login \/ Hub \/ Initialised \/ InitBegin \/ InitEnd \/ Addons \/ ProveRoute
          \/ LaptopWireGuard \/ RestartUnit \/ LaptopKubeconfig \/ UseContext \/ CompleteBuild \/ PinControlPlane \/ Reach \/ Join
          \/ Services \/ DeleteBalancers \/ DeleteVolume \/ DeleteNetwork \/ Readback \/ EmptyBucket \/ Forget

LEMMA RunMoves == ASSUME RunOK, Onward PROVE RunOK'
<1>1. CASE Shared
  BY <1>1, ToStep DEF Shared, Step, At, Steps, OnHost, Working, Rest, RunOK, StepInv
<1>2. CASE Login
  BY <1>2, ToStep DEF Login, Step, At, Steps, OnHost, Working, Rest, RunOK, StepInv
<1>3. CASE Hub
  BY <1>3, ToStep DEF Hub, Step, At, Steps, OnHost, Working, Rest, RunOK, StepInv
<1>4. CASE Initialised
  BY <1>4, ToStep DEF Initialised, Step, At, Steps, OnHost, Working, Rest, RunOK, StepInv
<1>5. CASE InitBegin
  BY <1>5, ToStep DEF InitBegin, Step, At, Steps, OnHost, Working, Rest, RunOK, StepInv
<1>6. CASE InitEnd
  BY <1>6, ToStep DEF InitEnd, Step, At, Steps, OnHost, Working, Rest, RunOK, StepInv
<1>7. CASE Addons
  BY <1>7, ToStep DEF Addons, Step, At, Steps, OnHost, Working, Rest, RunOK, StepInv
<1>8. CASE ProveRoute
  BY <1>8, ToStep DEF ProveRoute, Step, At, Steps, OnHost, Working, Rest, RunOK, StepInv
<1>9. CASE LaptopWireGuard
  BY <1>9, ToStep DEF LaptopWireGuard, Step, At, Steps, OnHost, Working, Rest, RunOK, StepInv
<1>10. CASE RestartUnit
  BY <1>10, ToStep DEF RestartUnit, Step, At, Steps, OnHost, Working, Rest, RunOK, StepInv
<1>11. CASE LaptopKubeconfig
  BY <1>11, ToStep DEF LaptopKubeconfig, Step, At, Steps, OnHost, Working, Rest, RunOK, StepInv
<1>12. CASE UseContext
  BY <1>12, ToStep DEF UseContext, Step, At, Steps, OnHost, Working, Rest, RunOK, StepInv
<1>13. CASE CompleteBuild
  BY <1>13, ToStep DEF CompleteBuild, Step, At, Steps, OnHost, Working, Rest, RunOK, StepInv
<1>14. CASE PinControlPlane
  BY <1>14, ToStep DEF PinControlPlane, Step, At, Steps, OnHost, Working, Rest, RunOK, StepInv
<1>15. CASE Reach
  BY <1>15, ToStep DEF Reach, Step, At, Steps, OnHost, Working, Rest, RunOK, StepInv
<1>16. CASE Join
  BY <1>16, ToStep DEF Join, Step, At, Steps, OnHost, Working, Rest, RunOK, StepInv
<1>17. CASE Services
  BY <1>17, ToStep DEF Services, Step, At, Steps, OnHost, Working, Rest, RunOK, StepInv
<1>18. CASE DeleteBalancers
  BY <1>18, ToStep DEF DeleteBalancers, Step, At, Steps, OnHost, Working, Rest, RunOK, StepInv
<1>19. CASE DeleteVolume
  BY <1>19, ToStep DEF DeleteVolume, Step, At, Steps, OnHost, Working, Rest, RunOK, StepInv
<1>20. CASE DeleteNetwork
  BY <1>20, ToStep DEF DeleteNetwork, Step, At, Steps, OnHost, Working, Rest, RunOK, StepInv
<1>21. CASE Readback
  BY <1>21, ToStep DEF Readback, Step, At, Steps, OnHost, Working, Rest, RunOK, StepInv
<1>22. CASE EmptyBucket
  BY <1>22, ToStep DEF EmptyBucket, Step, At, Steps, OnHost, Working, Rest, RunOK, StepInv
<1>23. CASE Forget
  BY <1>23, ToStep DEF Forget, Step, At, Steps, OnHost, Working, Rest, RunOK, StepInv
<1> QED
  BY <1>1, <1>2, <1>3, <1>4, <1>5, <1>6, <1>7, <1>8, <1>9, <1>10, <1>11, <1>12, <1>13, <1>14, <1>15, <1>16, <1>17, <1>18, <1>19, <1>20, <1>21, <1>22, <1>23 DEF Onward

LEMMA FailMoves == ASSUME RunOK, Fail PROVE RunOK'
BY ToStep DEF Fail, Steps, OnHost, Working, Rest

(* The steps that move the run and remember something in it.               *)
Remembering ==
    \/ CreateControlPlane \/ PinVPNAddress \/ PlanWorkers \/ PinWorker \/ BuildWorker
    \/ NodeReady \/ DeletePrimaryIP \/ Stop
    \/ \E w \in Workers, ip \in Pool : ApplyWorker(w, ip)

LEMMA RunRemembers ==
  ASSUME RunOK, WorldOK, Remembering
  PROVE  RunOK'
<1>t. run \in RunType /\ StepInv /\ made \in Nat /\ cp.ca \in Nat
  BY DEF RunOK, WorldOK, CpType
<1>s. server \in [Hosts -> ServerType]
  BY DEF WorldOK
<1>1. CASE CreateControlPlane
  <2>1. run' = [run EXCEPT !.step = "pincp", !.cp = made + 1] /\ run.step = "create"
    BY <1>1 DEF CreateControlPlane, Step, At
  <2>2. run' \in RunType /\ run'.cmd = run.cmd /\ run'.todo = run.todo /\ run'.step = "pincp"
    <3> DEFINE id == made + 1
    <3>1. id \in Nat /\ run' = [run EXCEPT !.step = "pincp", !.cp = id]
      BY <1>t, <2>1
    <3> HIDE DEF id
    <3> QED
      BY <1>t, <3>1 DEF RunType, Steps
  <2> QED
    BY <1>t, <2>1, <2>2 DEF RunOK, StepInv, Working, Rest
<1>2. CASE PinVPNAddress
  <2>1. run' = [run EXCEPT !.step = "prove", !.ca = cp.ca] /\ run.step = "vpn"
    BY <1>2 DEF PinVPNAddress, Step, At
  <2> QED
    BY <1>t, <2>1 DEF RunOK, RunType, StepInv, Steps, OnHost, Working, Rest
<1>3. CASE PlanWorkers
  <2>1. PICK s \in {"build", "apply"} : run' = [run EXCEPT !.step = s, !.new = Missing]
    BY <1>3 DEF PlanWorkers
  <2>2. run.step = "workers" /\ Missing \in SUBSET Workers
    BY <1>t, <1>3 DEF PlanWorkers, Step, At, Missing, RunType
  <2> QED
    BY <1>t, <2>1, <2>2 DEF RunOK, RunType, StepInv, Steps, OnHost, Working, Rest
<1>4. CASE PinWorker
  <2>1. PICK w : run' = [run EXCEPT !.fresh = @ \ {w}, !.step = IF run.fresh = {w} THEN "build" ELSE "pin"]
    BY <1>4 DEF PinWorker
  <2>2. run.step = "pin"
    BY <1>4 DEF PinWorker, Step, At
  <2>3. run' \in RunType /\ run'.cmd = run.cmd /\ run'.todo = run.todo /\ run'.fresh = run.fresh \ {w}
        /\ run'.step = IF run.fresh = {w} THEN "build" ELSE "pin"
    BY <1>t, <2>1, ZenonT(60) DEF RunType, Steps, OnHost
  <2>4. run.cmd \in {"up", "add"} /\ run.todo # {} /\ run.fresh # {}
    BY <1>t, <2>2 DEF StepInv, Working, Rest
  <2>5. run'.step = "pin" => run'.fresh # {}
    BY <2>3, <2>4
  <2> QED
    BY <2>3, <2>4, <2>5 DEF RunOK, StepInv
<1>5. CASE BuildWorker
  <2>1. run' = [run EXCEPT !.step = "join", !.at = server[Due].id] /\ run.step = "build"
    BY <1>5 DEF BuildWorker, Step, At
  <2>2. run.todo # {} /\ run.todo \in SUBSET Workers
    BY <1>t, <2>1 DEF StepInv, Working, Rest, RunType
  <2>3. Due \in Hosts
    BY <2>2, FirstIn, Constants DEF Due
  <2>4. server[Due].id \in Nat
    BY <1>s, <2>3 DEF ServerType
  <2> QED
    BY <1>t, <2>1, <2>4 DEF RunOK, RunType, StepInv, Steps, OnHost, Working, Rest
<1>6. CASE NodeReady
  <2>1. PICK s \in {"build", "services", "done"} :
           /\ run' = [run EXCEPT !.todo = @ \ {Due}, !.step = s]
           /\ run.todo # {Due} <=> s = "build"
    BY <1>6 DEF NodeReady
  <2>2. run.step = "ready"
    BY <1>6 DEF NodeReady, Step, At
  <2>3. run' \in RunType /\ run'.cmd = run.cmd /\ run'.todo = run.todo \ {Due} /\ run'.step = s
    BY <1>t, <2>1, ZenonT(60) DEF RunType, Steps, OnHost
  <2>4. run.cmd \in {"up", "add"} /\ run.todo # {}
    BY <1>t, <2>2 DEF StepInv, Working, Rest
  <2>5. run.todo # {Due} => run.todo \ {Due} # {}
    BY <2>4
  <2> QED
    BY <2>1, <2>3, <2>4, <2>5 DEF RunOK, StepInv, Working, Rest
<1>7. CASE DeletePrimaryIP
  <2>1. To("net") \/ run' = [run EXCEPT !.step = "net", !.errs = TRUE]
    BY <1>7 DEF DeletePrimaryIP
  <2>2. run.step = "ip"
    BY <1>7 DEF DeletePrimaryIP, At
  <2>3. run' \in RunType /\ run'.cmd = run.cmd /\ run'.todo = run.todo /\ run'.step = "net"
    BY <1>t, <2>1, ZenonT(60) DEF To, RunType, Steps
  <2> QED
    BY <1>t, <2>2, <2>3 DEF RunOK, StepInv, Working, Rest
<1>8. CASE Stop
  <2>1. run' = [run EXCEPT !.step = "failed", !.quiet = FALSE]
    BY <1>8 DEF Stop
  <2>2. run' \in RunType /\ run'.step = "failed"
    BY <1>t, <2>1 DEF RunType, Steps
  <2> QED
    BY <2>2 DEF RunOK, StepInv, Working, Rest
<1>9. ASSUME NEW w \in Workers, NEW ip \in Pool, ApplyWorker(w, ip) PROVE RunOK'
  <2>1. PICK s \in {"pin", "apply"} :
           run' = [run EXCEPT !.new = @ \ {w}, !.fresh = @ \cup {w}, !.step = s]
    BY <1>9 DEF ApplyWorker
  <2>2. run.step = "apply"
    BY <1>9 DEF ApplyWorker, Step, At
  <2>3. run' \in RunType /\ run'.cmd = run.cmd /\ run'.todo = run.todo
        /\ run'.fresh = run.fresh \cup {w} /\ run'.step = s
    BY <1>t, <2>1, ZenonT(60) DEF RunType, Steps, OnHost
  <2> QED
    BY <1>t, <2>2, <2>3 DEF RunOK, StepInv, Working, Rest
<1> QED
  BY <1>1, <1>2, <1>3, <1>4, <1>5, <1>6, <1>7, <1>8, <1>9 DEF Remembering

(* The runs that begin.                                                    *)
LEMMA NoRunTypes == NoRun \in RunType /\ NoRun.step = "idle"
BY DEF NoRun, RunType, Steps

Starts == StartUp \/ StartDown \/ StartInit \/ \E w \in Workers : StartAdd(w)

LEMMA RunBegins ==
  ASSUME IntentOK, WorldOK, Starts
  PROVE  RunOK' /\ run'.fresh = {}
<1>s. server \in [Hosts -> ServerType] /\ server[Cp].id \in Nat
  BY Constants DEF WorldOK, ServerType
<1>1. ASSUME NEW cmd \in {"up", "cpinit", "add"}, NEW step \in Steps \ {"pin"},
             NEW todo \in SUBSET Workers, Begin(cmd, step, todo),
             cmd \in {"up", "add"} => todo # {}, step \in Working => cmd \in {"up", "add"}
      PROVE  RunOK' /\ run'.fresh = {}
  <2>1. run' = [NoRun EXCEPT !.cmd = cmd, !.step = step, !.cp = server[Cp].id,
                             !.have = Servers \cap Workers, !.todo = todo]
    BY <1>1 DEF Begin
  <2>2. run' \in RunType /\ run'.cmd = cmd /\ run'.step = step /\ run'.todo = todo /\ run'.fresh = {}
    BY <1>s, <2>1 DEF NoRun, RunType
  <2> QED
    BY <1>1, <2>2 DEF RunOK, StepInv
<1>2. CASE StartUp
  BY <1>1, <1>2 DEF StartUp, IntentOK, Steps, OnHost, Working
<1>3. CASE StartInit
  BY <1>1, <1>3 DEF StartInit, Steps, OnHost, Working
<1>4. ASSUME NEW w \in Workers, StartAdd(w) PROVE RunOK' /\ run'.fresh = {}
  BY <1>1, <1>4 DEF StartAdd, Steps, OnHost, Working
<1>5. CASE StartDown
  <2>1. PICK s \in {"empty", "servers"} :
           run' = [NoRun EXCEPT !.cmd = "down", !.step = s,
                                !.ids = {server[n].id : n \in Servers}, !.kinds = Present]
    BY <1>5 DEF StartDown
  <2>2. {server[n].id : n \in Servers} \in SUBSET Nat /\ Present \in SUBSET Things
    BY <1>s DEF Servers, ServerType, Present, Things
  <2>3. run' \in RunType /\ run'.cmd = "down" /\ run'.step = s /\ run'.fresh = {}
    BY <2>1, <2>2 DEF NoRun, RunType, Steps, OnHost
  <2> QED
    BY <2>3 DEF RunOK, StepInv, Working
<1> QED
  BY <1>2, <1>3, <1>4, <1>5 DEF Starts

(* What happens around a run only marks it.                                *)
Aside == \/ ApiBack \/ Archive \/ Unassign \/ ApiDown
         \/ \E w \in Workers : Register(w) \/ ForgetNode(w)
         \/ \E x \in Things : Provide(x)
         \/ \E n \in Hosts : DeleteServer(n) \/ DeleteByHand(n)
         \/ \E n \in Hosts, ip \in Addresses : CreateByHand(n, ip)
         \/ \E g \in {"up", "down"} : Want(g)

LEMMA RunAside ==
  ASSUME RunOK, Aside
  PROVE  /\ RunOK'
         /\ run' = run \/ run' = [run EXCEPT !.quiet = FALSE]
<1>1. run' = run \/ Disturb
  BY DEF Aside, ApiBack, Archive, Unassign, ApiDown, Register, ForgetNode, Provide, DeleteServer,
         DeleteByHand, CreateByHand, Want
<1>2. run' = run => RunOK'
  BY DEF RunOK, StepInv
<1>3. run' = [run EXCEPT !.quiet = FALSE] => RunOK'
  BY DEF RunOK, RunType, StepInv
<1> QED
  BY <1>1, <1>2, <1>3 DEF Disturb

-----------------------------------------------------------------------------
(* The types of what stands around a run.                                  *)

LEMMA IntentStep ==
  ASSUME IntentOK, [Next]_vars
  PROVE  IntentOK' /\ rehearsal' = rehearsal /\ declared' = declared
<1>1. (\E g \in {"up", "down"} : Want(g)) \/ UNCHANGED intent
  BY DEF Next, Kluster, BuildCp,
     BuildWorkers, Down, Around, People, vars, intent, Shared, CreateControlPlane,
     PinControlPlane, Login, Hub, Initialised, ResetHalfInit, InitBegin, InitEnd, Addons,
     PinVPNAddress, ProveRoute, LaptopWireGuard, RestartUnit, LaptopKubeconfig, UseContext,
     CompleteBuild, Reach, PlanWorkers, PinWorker, BuildWorker, Join, NodeReady, Services,
     ApplyWorker, DeleteServer, DeleteBalancers, DeleteVolume, DeletePrimaryIP, DeleteNetwork,
     Readback, EmptyBucket, Forget, Fails, ApiBack, Archive, Unassign, Register, ForgetNode,
     Provide, StartUp, StartDown, StartInit, StartAdd, Begin, Stop, ApiDown, DeleteByHand,
     CreateByHand
<1>2. ASSUME NEW g \in {"up", "down"}, Want(g)
      PROVE  goal' = g /\ UNCHANGED <<rehearsal, declared>>
  BY <1>2 DEF Want
<1> QED
  BY <1>1, <1>2 DEF IntentOK, intent

(* What changes a server.                                                  *)
LEMMA ServerMoves ==
  ASSUME [Next]_vars
  PROVE  \/ server' = server
         \/ CreateControlPlane \/ Join
         \/ \E w \in Workers, ip \in Pool : ApplyWorker(w, ip)
         \/ \E n \in Hosts : DeleteServer(n)
         \/ \E n \in Hosts : DeleteByHand(n)
         \/ \E n \in Hosts, ip \in Addresses : CreateByHand(n, ip)
BY ZenonT(60) DEF Next, Kluster, BuildCp, BuildWorkers, Down, Around, People, vars, cloud, Shared,
     PinControlPlane, Login, Hub, Initialised, ResetHalfInit, InitBegin, InitEnd, Addons,
     PinVPNAddress, ProveRoute, LaptopWireGuard, RestartUnit, LaptopKubeconfig, UseContext,
     CompleteBuild, Reach, PlanWorkers, PinWorker, BuildWorker, NodeReady, Services,
     DeleteBalancers, DeleteVolume, DeletePrimaryIP, DeleteNetwork, Readback, EmptyBucket,
     Forget, Fails, ApiBack, Archive, Unassign, Register, ForgetNode, Provide, StartUp,
     StartDown, StartInit, StartAdd, Begin, Stop, ApiDown, Want

(* What changes the rest of the project.                                   *)
LEMMA ProjectMoves ==
  ASSUME [Next]_vars
  PROVE  \/ project' = project
         \/ Shared \/ CreateControlPlane \/ DeleteBalancers \/ DeleteVolume
         \/ DeletePrimaryIP \/ DeleteNetwork \/ Unassign
         \/ \E x \in Things : Provide(x)
         \/ \E n \in Hosts, ip \in Addresses : CreateByHand(n, ip)
BY DEF Next, Kluster, BuildCp, BuildWorkers, Down, Around, People, vars, cloud,
     PinControlPlane, Login, Hub, Initialised, ResetHalfInit, InitBegin, InitEnd, Addons,
     PinVPNAddress, ProveRoute, LaptopWireGuard, RestartUnit, LaptopKubeconfig, UseContext,
     CompleteBuild, Reach, PlanWorkers, PinWorker, BuildWorker, Join, NodeReady, Services,
     ApplyWorker, DeleteServer, Readback, EmptyBucket, Forget, Fails, ApiBack, Archive,
     Register, ForgetNode, StartUp, StartDown, StartInit, StartAdd, Begin, Stop, ApiDown,
     DeleteByHand, Want

(* What changes the Control Plane host.                                    *)
LEMMA CpMoves ==
  ASSUME [Next]_vars
  PROVE  \/ cp' = cp
         \/ CreateControlPlane \/ Hub \/ ResetHalfInit \/ InitBegin
         \/ InitEnd \/ CompleteBuild \/ Services \/ ApiBack
         \/ ApiDown
         \/ \E n \in Hosts : DeleteServer(n)
         \/ \E n \in Hosts : DeleteByHand(n)
BY DEF Next, Kluster, BuildCp, BuildWorkers, Down, Around, People, vars, host, Shared,
     PinControlPlane, Login, Initialised, Addons, PinVPNAddress, ProveRoute, LaptopWireGuard,
     RestartUnit, LaptopKubeconfig, UseContext, Reach, PlanWorkers, PinWorker, BuildWorker,
     Join, NodeReady, ApplyWorker, DeleteBalancers, DeleteVolume, DeletePrimaryIP,
     DeleteNetwork, Readback, EmptyBucket, Forget, Fails, Archive, Unassign, Register,
     ForgetNode, Provide, StartUp, StartDown, StartInit, StartAdd, Begin, Stop, CreateByHand,
     Want

(* What changes a Node.                                                    *)
LEMMA NodesMove ==
  ASSUME [Next]_vars
  PROVE  \/ nodes' = nodes
         \/ ResetHalfInit
         \/ \E n \in Hosts : DeleteServer(n)
         \/ \E w \in Workers : Register(w)
         \/ \E w \in Workers : ForgetNode(w)
         \/ \E n \in Hosts : DeleteByHand(n)
BY DEF Next, Kluster, BuildCp, BuildWorkers, Down, Around, People, vars, host, Shared,
     CreateControlPlane, PinControlPlane, Login, Hub, Initialised, InitBegin, InitEnd, Addons,
     PinVPNAddress, ProveRoute, LaptopWireGuard, RestartUnit, LaptopKubeconfig, UseContext,
     CompleteBuild, Reach, PlanWorkers, PinWorker, BuildWorker, Join, NodeReady, Services,
     ApplyWorker, DeleteBalancers, DeleteVolume, DeletePrimaryIP, DeleteNetwork, Readback,
     EmptyBucket, Forget, Fails, ApiBack, Archive, Unassign, Provide, StartUp, StartDown,
     StartInit, StartAdd, Begin, Stop, ApiDown, CreateByHand, Want

(* What changes a pin.                                                     *)
LEMMA PinsMove ==
  ASSUME [Next]_vars
  PROVE  \/ pins' = pins
         \/ PinControlPlane \/ PinVPNAddress \/ PinWorker \/ Forget
BY DEF Next, Kluster, BuildCp, BuildWorkers, Down, Around, People, vars, vars, Shared,
     CreateControlPlane, Login, Hub, Initialised, ResetHalfInit, InitBegin, InitEnd, Addons,
     ProveRoute, LaptopWireGuard, RestartUnit, LaptopKubeconfig, UseContext, CompleteBuild,
     Reach, PlanWorkers, BuildWorker, Join, NodeReady, Services, ApplyWorker, DeleteServer,
     DeleteBalancers, DeleteVolume, DeletePrimaryIP, DeleteNetwork, Readback, EmptyBucket,
     Fails, ApiBack, Archive, Unassign, Register, ForgetNode, Provide, StartUp, StartDown,
     StartInit, StartAdd, Begin, Stop, ApiDown, DeleteByHand, CreateByHand, Want

(* What changes the laptop.                                                *)
LEMMA LaptopMoves ==
  ASSUME [Next]_vars
  PROVE  \/ laptop' = laptop
         \/ LaptopWireGuard \/ RestartUnit \/ LaptopKubeconfig \/ UseContext
BY DEF Next, Kluster, BuildCp, BuildWorkers, Down, Around, People, vars, vars, Shared,
     CreateControlPlane, PinControlPlane, Login, Hub, Initialised, ResetHalfInit, InitBegin,
     InitEnd, Addons, PinVPNAddress, ProveRoute, CompleteBuild, Reach, PlanWorkers, PinWorker,
     BuildWorker, Join, NodeReady, Services, ApplyWorker, DeleteServer, DeleteBalancers,
     DeleteVolume, DeletePrimaryIP, DeleteNetwork, Readback, EmptyBucket, Forget, Fails,
     ApiBack, Archive, Unassign, Register, ForgetNode, Provide, StartUp, StartDown, StartInit,
     StartAdd, Begin, Stop, ApiDown, DeleteByHand, CreateByHand, Want

(* What changes the archive.                                               *)
LEMMA BucketMoves ==
  ASSUME [Next]_vars
  PROVE  \/ bucket' = bucket
         \/ EmptyBucket \/ Archive
BY ZenonT(60) DEF Next, Kluster, BuildCp, BuildWorkers, Down, Around, People, vars, vars, Shared,
     CreateControlPlane, PinControlPlane, Login, Hub, Initialised, ResetHalfInit, InitBegin,
     InitEnd, Addons, PinVPNAddress, ProveRoute, LaptopWireGuard, RestartUnit,
     LaptopKubeconfig, UseContext, CompleteBuild, Reach, PlanWorkers, PinWorker, BuildWorker,
     Join, NodeReady, Services, ApplyWorker, DeleteServer, DeleteBalancers, DeleteVolume,
     DeletePrimaryIP, DeleteNetwork, Readback, Forget, Fails, ApiBack, Unassign, Register,
     ForgetNode, Provide, StartUp, StartDown, StartInit, StartAdd, Begin, Stop, ApiDown,
     DeleteByHand, CreateByHand, Want

(* What makes a server.                                                    *)
LEMMA MadeMoves ==
  ASSUME [Next]_vars
  PROVE  \/ made' = made
         \/ CreateControlPlane
         \/ \E w \in Workers, ip \in Pool : ApplyWorker(w, ip)
         \/ \E n \in Hosts, ip \in Addresses : CreateByHand(n, ip)
BY ZenonT(60) DEF Next, Kluster, BuildCp, BuildWorkers, Down, Around, People, vars, counts, Shared,
     PinControlPlane, Login, Hub, Initialised, ResetHalfInit, InitBegin, InitEnd, Addons,
     PinVPNAddress, ProveRoute, LaptopWireGuard, RestartUnit, LaptopKubeconfig, UseContext,
     CompleteBuild, Reach, PlanWorkers, PinWorker, BuildWorker, Join, NodeReady, Services,
     DeleteServer, DeleteBalancers, DeleteVolume, DeletePrimaryIP, DeleteNetwork, Readback,
     EmptyBucket, Forget, Fails, ApiBack, Archive, Unassign, Register, ForgetNode, Provide,
     StartUp, StartDown, StartInit, StartAdd, Begin, Stop, ApiDown, DeleteByHand, Want

(* What makes a cluster.                                                   *)
LEMMA CasMove ==
  ASSUME [Next]_vars
  PROVE  \/ cas' = cas
         \/ InitBegin
BY DEF Next, Kluster, BuildCp, BuildWorkers, Down, Around, People, vars, counts, Shared,
     CreateControlPlane, PinControlPlane, Login, Hub, Initialised, ResetHalfInit, InitEnd,
     Addons, PinVPNAddress, ProveRoute, LaptopWireGuard, RestartUnit, LaptopKubeconfig,
     UseContext, CompleteBuild, Reach, PlanWorkers, PinWorker, BuildWorker, Join, NodeReady,
     Services, ApplyWorker, DeleteServer, DeleteBalancers, DeleteVolume, DeletePrimaryIP,
     DeleteNetwork, Readback, EmptyBucket, Forget, Fails, ApiBack, Archive, Unassign, Register,
     ForgetNode, Provide, StartUp, StartDown, StartInit, StartAdd, Begin, Stop, ApiDown,
     DeleteByHand, CreateByHand, Want

LEMMA ServerTypes ==
  ASSUME WorldOK, RunOK, [Next]_vars
  PROVE  server' \in [Hosts -> ServerType]
<1>t. server \in [Hosts -> ServerType] /\ made + 1 \in Nat /\ cp.ca \in Nat
  BY DEF WorldOK, CpType
<1>1. ASSUME NEW n, NEW ip \in Addresses, Create(n, ip) PROVE server' \in [Hosts -> ServerType]
  <2> DEFINE id == made + 1
  <2>1. [id |-> id, ip |-> ip, ours |-> TRUE, joined |-> 0] \in ServerType
    BY <1>t DEF ServerType
  <2> QED
    BY <1>1, <1>t, <2>1 DEF Create
<1>2. ASSUME NEW n, server' = [server EXCEPT ![n] = NoServer] PROVE server' \in [Hosts -> ServerType]
  <2>1. NoServer \in ServerType
    BY Constants DEF NoServer, ServerType
  <2> QED
    BY <1>2, <1>t, <2>1
<1>3. CASE CreateControlPlane
  BY <1>1, <1>3, Constants DEF CreateControlPlane
<1>4. CASE Join
  BY <1>4, <1>t DEF Join, ServerType
<1>5. ASSUME NEW w \in Workers, NEW ip \in Pool, ApplyWorker(w, ip)
      PROVE  server' \in [Hosts -> ServerType]
  BY <1>1, <1>5, Constants DEF ApplyWorker
<1>6. ASSUME NEW n \in Hosts, DeleteServer(n) \/ DeleteByHand(n)
      PROVE  server' \in [Hosts -> ServerType]
  BY <1>2, <1>6 DEF DeleteServer, DeleteByHand
<1>7. ASSUME NEW n \in Hosts, NEW ip \in Addresses, CreateByHand(n, ip)
      PROVE  server' \in [Hosts -> ServerType]
  <2> DEFINE id == made + 1
  <2>1. [id |-> id, ip |-> ip, ours |-> FALSE, joined |-> 0] \in ServerType
    BY <1>t DEF ServerType
  <2> QED
    BY <1>7, <1>t, <2>1 DEF CreateByHand
<1> QED
  BY <1>t, <1>3, <1>4, <1>5, <1>6, <1>7, ServerMoves

LEMMA ProjectTypes ==
  ASSUME WorldOK, [Next]_vars
  PROVE  project' \in ProjectType
<1>t. project \in ProjectType
  BY DEF WorldOK
<1>1. CASE Shared
  BY <1>t, <1>1 DEF Shared, ProjectType
<1>2. CASE CreateControlPlane
  BY <1>t, <1>2 DEF CreateControlPlane, ProjectType
<1>3. CASE DeleteBalancers
  BY <1>t, <1>3 DEF DeleteBalancers, ProjectType
<1>4. CASE DeleteVolume
  BY <1>t, <1>4 DEF DeleteVolume, ProjectType
<1>5. CASE DeletePrimaryIP
  BY <1>t, <1>5 DEF DeletePrimaryIP, ProjectType
<1>6. CASE DeleteNetwork
  BY <1>t, <1>6 DEF DeleteNetwork, ProjectType
<1>7. CASE Unassign
  BY <1>t, <1>7 DEF Unassign, ProjectType
<1>8. ASSUME NEW x \in Things, Provide(x) PROVE project' \in ProjectType
  BY <1>t, <1>8 DEF Provide, ProjectType
<1>9. ASSUME NEW n \in Hosts, NEW ip \in Addresses, CreateByHand(n, ip) PROVE project' \in ProjectType
  BY <1>t, <1>9 DEF CreateByHand, ProjectType
<1> QED
  BY <1>t, <1>1, <1>2, <1>3, <1>4, <1>5, <1>6, <1>7, <1>8, <1>9, ProjectMoves

LEMMA CpTypes ==
  ASSUME WorldOK, [Next]_vars
  PROVE  cp' \in CpType
<1>t. cp \in CpType /\ NoCp \in CpType
  BY DEF WorldOK, NoCp, CpType
<1>1. CASE CreateControlPlane
  BY <1>t, <1>1 DEF CreateControlPlane, CpType
<1>r. CASE ResetHalfInit
  BY <1>t, <1>r DEF ResetHalfInit, CpType
<1>2. CASE Hub \/ InitEnd
  BY <1>t, <1>2 DEF Hub, InitEnd, CpType
<1>3. CASE InitBegin
  <2> DEFINE id == cas + 1
  <2>1. id \in Nat /\ cp' = [cp EXCEPT !.api = "cut", !.ca = id]
    BY <1>3 DEF InitBegin, WorldOK
  <2> HIDE DEF id
  <2> QED
    BY <1>t, <2>1 DEF CpType
<1>4. CASE CompleteBuild \/ Services
  BY <1>t, <1>4 DEF CompleteBuild, Services, CpType
<1>5. CASE ApiBack \/ ApiDown
  BY <1>t, <1>5 DEF ApiBack, ApiDown, CpType
<1>6. ASSUME NEW n \in Hosts, DeleteServer(n) \/ DeleteByHand(n) PROVE cp' \in CpType
  BY <1>t, <1>6 DEF DeleteServer, DeleteByHand
<1> QED
  BY <1>t, <1>r, <1>1, <1>2, <1>3, <1>4, <1>5, <1>6, CpMoves

LEMMA PinTypes ==
  ASSUME WorldOK, RunOK, [Next]_vars
  PROVE  pins' \in [Addresses -> Nat]
<1>t. pins \in [Addresses -> Nat] /\ run.cp \in Nat /\ server \in [Hosts -> ServerType]
  BY DEF WorldOK, RunOK, RunType
<1>1. CASE PinControlPlane \/ PinVPNAddress \/ Forget
  BY <1>t, <1>1 DEF PinControlPlane, PinVPNAddress, Forget, SetPin
<1>2. CASE PinWorker
  <2>1. run.fresh # {} /\ run.fresh \in SUBSET Workers
    BY <1>2 DEF PinWorker, Step, At, RunOK, StepInv, RunType
  <2>2. server[First(run.fresh)].id \in Nat
    BY <1>t, <2>1, FirstIn, Constants DEF ServerType
  <2> QED
    BY <1>t, <1>2, <2>2 DEF PinWorker, SetPin
<1> QED
  BY <1>t, <1>1, <1>2, PinsMove

LEMMA NodeTypes ==
  ASSUME WorldOK, [Next]_vars
  PROVE  nodes' \in [Workers -> Nat]
<1>t. nodes \in [Workers -> Nat] /\ server \in [Hosts -> ServerType]
  BY DEF WorldOK
<1>1. CASE ResetHalfInit
  BY <1>1 DEF ResetHalfInit
<1>2. ASSUME NEW n \in Hosts, DeleteServer(n) \/ DeleteByHand(n) PROVE nodes' \in [Workers -> Nat]
  BY <1>t, <1>2 DEF DeleteServer, DeleteByHand
<1>3. ASSUME NEW w \in Workers, Register(w) \/ ForgetNode(w) PROVE nodes' \in [Workers -> Nat]
  <2>1. server[w].id \in Nat
    BY <1>t, Constants DEF ServerType
  <2> QED
    BY <1>t, <1>3, <2>1 DEF Register, ForgetNode
<1> QED
  BY <1>t, <1>1, <1>2, <1>3, NodesMove

LEMMA LaptopTypes ==
  ASSUME WorldOK, RunOK, [Next]_vars
  PROVE  laptop' \in LaptopType
<1>t. laptop \in LaptopType /\ run.cp \in Nat /\ run.ca \in Nat
  BY DEF WorldOK, RunOK, RunType
<1>1. CASE LaptopWireGuard \/ RestartUnit
  BY <1>t, <1>1 DEF LaptopWireGuard, RestartUnit, LaptopType
<1>2. CASE LaptopKubeconfig \/ UseContext
  BY <1>t, <1>2 DEF LaptopKubeconfig, UseContext, LaptopType
<1> QED
  BY <1>t, <1>1, <1>2, LaptopMoves

LEMMA CountTypes ==
  ASSUME WorldOK, [Next]_vars
  PROVE  made' \in Nat /\ cas' \in Nat /\ bucket' \in BOOLEAN /\ made' >= made
<1>t. made \in Nat /\ cas \in Nat /\ bucket \in BOOLEAN
  BY DEF WorldOK
<1>1. made' \in {made, made + 1}
  BY MadeMoves DEF CreateControlPlane, ApplyWorker, CreateByHand, Create
<1>2. cas' \in {cas, cas + 1}
  BY CasMove DEF InitBegin
<1>3. bucket' \in {bucket, TRUE, FALSE}
  BY BucketMoves DEF EmptyBucket, Archive
<1>4. made' \in Nat /\ made' >= made
  <2> DEFINE m == made
             n == made'
  <2>1. m \in Nat /\ n \in {m, m + 1}
    BY <1>t, <1>1
  <2> HIDE DEF m, n
  <2>2. n \in Nat /\ n >= m
    BY <2>1
  <2> QED
    BY <2>2 DEF m, n
<1>5. cas' \in Nat
  BY <1>t, <1>2
<1>6. bucket' \in BOOLEAN
  BY <1>t, <1>3
<1> QED
  BY <1>4, <1>5, <1>6

LEMMA ByHandTypes ==
  ASSUME WorldOK, [Next]_vars
  PROVE  byHand' \in Nat /\ byHand' \in {byHand, byHand + 1}
<1>1. byHand' \in {byHand, byHand + 1}
  BY DEF Next, Kluster, BuildCp, BuildWorkers, Down, Around, People, vars, Shared,
     CreateControlPlane, PinControlPlane, Login, Hub, Initialised, ResetHalfInit, InitBegin,
     InitEnd, Addons, PinVPNAddress, ProveRoute, LaptopWireGuard, RestartUnit,
     LaptopKubeconfig, UseContext, CompleteBuild, Reach, PlanWorkers, PinWorker, BuildWorker,
     Join, NodeReady, Services, ApplyWorker, DeleteServer, DeleteBalancers, DeleteVolume,
     DeletePrimaryIP, DeleteNetwork, Readback, EmptyBucket, Forget, Fails, ApiBack, Archive,
     Unassign, Register, ForgetNode, Provide, StartUp, StartDown, StartInit, StartAdd, Begin,
     Stop, ApiDown, DeleteByHand, CreateByHand, Want, ByHand
<1> QED
  BY <1>1 DEF WorldOK

LEMMA NextIs ==
  ASSUME [Next]_vars
  PROVE  Starts \/ Onward \/ Remembering \/ Fails \/ ResetHalfInit \/ Aside \/ UNCHANGED vars
BY DEF Next, Kluster, BuildCp, BuildWorkers, Down, Around, People, Starts, Onward, Remembering, Aside

LEMMA RunStep ==
  ASSUME IntentOK, WorldOK, RunOK, [Next]_vars
  PROVE  RunOK'
<1>1. UNCHANGED vars => RunOK'
  BY DEF vars, RunOK, StepInv
<1>2. ResetHalfInit => RunOK'
  BY DEF ResetHalfInit, RunOK, StepInv
<1>3. Fails => RunOK'
  BY FailMoves DEF Fails
<1> QED
  BY <1>1, <1>2, <1>3, RunBegins, RunMoves, RunRemembers, RunAside, NextIs

LEMMA TypeStep == TypeInv /\ [Next]_vars => TypeInv'
<1> SUFFICES ASSUME TypeInv, [Next]_vars PROVE TypeInv'
  OBVIOUS
<1>1. IntentOK /\ WorldOK /\ RunOK
  BY DEF TypeInv
<1>2. WorldOK'
  BY <1>1, ServerTypes, ProjectTypes, CpTypes, NodeTypes, PinTypes, LaptopTypes, CountTypes,
     ByHandTypes DEF WorldOK
<1> QED
  BY <1>1, <1>2, IntentStep, RunStep DEF TypeInv

LEMMA TypeInit == Init => TypeInv
<1> SUFFICES ASSUME Init PROVE TypeInv
  OBVIOUS
<1>1. IntentOK
  BY DEF Init, IntentOK
<1>2. server \in [Hosts -> ServerType] /\ cp \in CpType
  BY Constants DEF Init, NoServer, ServerType, NoCp, CpType
<1>3. project \in ProjectType /\ laptop \in LaptopType
  BY DEF Init, ProjectType, LaptopType
<1>4. WorldOK
  BY <1>2, <1>3 DEF Init, WorldOK
<1>5. RunOK
  BY NoRunTypes DEF Init, RunOK, StepInv, NoRun, Working, Rest
<1> QED
  BY <1>1, <1>4, <1>5 DEF TypeInv

-----------------------------------------------------------------------------
(* What a run remembers.                                                   *)

(* A run that goes on is the run it was, but for its step and one field.   *)
SameRun == /\ run'.cmd = run.cmd /\ run'.have = run.have
           /\ run'.ids = run.ids /\ run'.kinds = run.kinds
           /\ run'.cp = run.cp \/ CreateControlPlane
           /\ run'.ca = run.ca \/ PinVPNAddress
           /\ run'.at = run.at \/ BuildWorker
           /\ run'.todo = run.todo \/ NodeReady
           /\ run'.new = run.new \/ PlanWorkers \/ \E w \in Workers, ip \in Pool : ApplyWorker(w, ip)
           /\ run'.fresh = run.fresh \/ PinWorker \/ \E w \in Workers, ip \in Pool : ApplyWorker(w, ip)
           /\ run'.quiet => run.quiet

LEMMA ToKeeps ==
  ASSUME run \in RunType, NEW s, To(s)
  PROVE  SameRun /\ run'.step = s
BY DEF To, RunType, SameRun

LEMMA OnwardIsTo == ASSUME Onward PROVE \E s : To(s)
BY DEF Onward, Shared, Login, Hub, Initialised, InitBegin, InitEnd, Addons, ProveRoute,
     LaptopWireGuard, RestartUnit, LaptopKubeconfig, UseContext, CompleteBuild,
     PinControlPlane, Reach, Join, Services, DeleteBalancers, DeleteVolume, DeleteNetwork,
     Readback, EmptyBucket, Forget

LEMMA RunFields ==
  ASSUME RunOK, [Next]_vars
  PROVE  Starts \/ SameRun
<1>t. run \in RunType
  BY DEF RunOK
<1>1. Onward => SameRun
  BY <1>t, OnwardIsTo, ToKeeps
<1>2. Fails => SameRun
  BY <1>t, ToKeeps DEF Fails, Fail
<1>3. Aside => SameRun
  BY <1>t, RunAside DEF SameRun, RunType
<1>4. ResetHalfInit \/ UNCHANGED vars => SameRun
  BY DEF ResetHalfInit, vars, SameRun
<1>5. CreateControlPlane => SameRun
  BY <1>t DEF CreateControlPlane, SameRun, RunType
<1>6. PinVPNAddress => SameRun
  BY <1>t DEF PinVPNAddress, SameRun, RunType
<1>7. PlanWorkers => SameRun
  BY <1>t DEF PlanWorkers, SameRun, RunType
<1>8. PinWorker => SameRun
  BY <1>t DEF PinWorker, SameRun, RunType
<1>9. BuildWorker => SameRun
  BY <1>t DEF BuildWorker, SameRun, RunType
<1>10. NodeReady => SameRun
  BY <1>t DEF NodeReady, SameRun, RunType
<1>11. DeletePrimaryIP \/ Stop => SameRun
  BY <1>t DEF DeletePrimaryIP, To, Stop, SameRun, RunType
<1>12. (\E w \in Workers, ip \in Pool : ApplyWorker(w, ip)) => SameRun
  BY <1>t, ZenonT(60) DEF ApplyWorker, SameRun, RunType
<1> QED
  BY <1>1, <1>2, <1>3, <1>4, <1>5, <1>6, <1>7, <1>8, <1>9, <1>10, <1>11, <1>12, NextIs
     DEF Remembering

LEMMA StartFields ==
  ASSUME Starts
  PROVE  /\ UNCHANGED <<intent, counts, cloud, host, bucket, pins, laptop>>
         /\ run'.cp \in {0, server[Cp].id} /\ run'.at = 0 /\ run'.fresh = {} /\ run'.new = {}
         /\ run'.step \in {"shared", "login", "create", "reach", "empty", "servers"}
<1>1. CASE StartUp
  BY <1>1 DEF StartUp, Begin, NoRun
<1>2. CASE StartDown
  BY <1>2 DEF StartDown, Begin, NoRun
<1>3. CASE StartInit
  BY <1>3 DEF StartInit, Begin, NoRun
<1>4. CASE \E w \in Workers : StartAdd(w)
  BY <1>4 DEF StartAdd, Begin, NoRun
<1> QED
  BY <1>1, <1>2, <1>3, <1>4 DEF Starts

-----------------------------------------------------------------------------
(* Ids and addresses.                                                      *)

(* Ids grow, so nothing pinned or remembered belongs to a later server;    *)
(* no two servers share an address; no Control Plane, no cluster.          *)
IdInv ==
    /\ \A n \in Hosts : server[n].id <= made
    /\ \A a \in Addresses : pins[a] <= made
    /\ run.cp <= made /\ run.at <= made
PlaceInv ==
    /\ Exists(Cp) => server[Cp].ip = CpIp
    /\ \A w \in Workers : Exists(w) => server[w].ip \in Pool
    /\ \A n, m \in Servers : server[n].ip = server[m].ip => n = m
    /\ ~Exists(Cp) => cp = NoCp
    /\ \A w \in run.fresh : Exists(w)
    /\ run.fresh # {} => run.step \in {"apply", "pin", "failed"}

(* A server made in a step, in a slot that was empty.                      *)
MadeIn(n) ==
    /\ ~Exists(n) /\ server'[n].id = made + 1 /\ made' = made + 1
    /\ IF n = Cp THEN server'[n].ip = CpIp
       ELSE server'[n].ip \in Pool /\ \A m \in Servers : server[m].ip # server'[n].ip
    /\ \A m \in Hosts : m # n => server'[m] = server[m]

LEMMA ServerNext ==
  ASSUME WorldOK, [Next]_vars
  PROVE  \/ server' = server
         \/ \E n \in Hosts : MadeIn(n)
         \/ \E n \in Hosts : /\ DeleteServer(n) \/ DeleteByHand(n)
                             /\ server' = [server EXCEPT ![n] = NoServer]
         \/ /\ Join /\ Due \in Hosts
            /\ server' = [server EXCEPT ![Due].joined = IF @ = 0 THEN cp.ca ELSE @]
<1>t. server \in [Hosts -> ServerType] /\ made \in Nat
  BY DEF WorldOK
<1>1. CASE CreateControlPlane
  <2>1. Create(Cp, CpIp) /\ ~Exists(Cp)
    BY <1>1 DEF CreateControlPlane, Step, Blocked
  <2>2. MadeIn(Cp)
    BY <1>t, <2>1, Constants DEF Create, MadeIn
  <2> QED
    BY <2>2, Constants
<1>2. ASSUME NEW w \in Workers, NEW ip \in Pool, ApplyWorker(w, ip) PROVE MadeIn(w)
  <2>1. Create(w, ip) /\ ~Exists(w) /\ (\A n \in Servers : server[n].ip # ip)
    BY <1>2 DEF ApplyWorker, Step, At, Blocked
  <2> QED
    BY <1>t, <2>1, Constants DEF Create, MadeIn
<1>3. ASSUME NEW n \in Hosts, NEW ip \in Addresses, CreateByHand(n, ip) PROVE MadeIn(n)
  <2> DEFINE new == [id |-> made + 1, ip |-> ip, ours |-> FALSE, joined |-> 0]
  <2>1. server' = [server EXCEPT ![n] = new] /\ made' = made + 1 /\ ~Exists(n)
        /\ IF n = Cp THEN ip = CpIp ELSE ip \in Pool /\ \A v \in Servers : server[v].ip # ip
    BY <1>3 DEF CreateByHand
  <2>2. server'[n] = new /\ \A m \in Hosts : m # n => server'[m] = server[m]
    BY <1>t, <2>1
  <2> QED
    BY <2>1, <2>2 DEF MadeIn
<1>4. ASSUME NEW n \in Hosts, DeleteServer(n) \/ DeleteByHand(n)
      PROVE  server' = [server EXCEPT ![n] = NoServer]
  BY <1>4 DEF DeleteServer, DeleteByHand
<1>5. ASSUME Join
      PROVE  \/ server' = server
             \/ /\ Due \in Hosts
                /\ server' = [server EXCEPT ![Due].joined = IF @ = 0 THEN cp.ca ELSE @]
  BY <1>5, <1>t DEF Join
<1> QED
  BY <1>1, <1>2, <1>3, <1>4, <1>5, ServerMoves, Constants

(* What one step may make of a server.                                     *)
LEMMA EachServer ==
  ASSUME WorldOK, [Next]_vars, NEW n \in Hosts
  PROVE  \/ server'[n].id = server[n].id /\ server'[n].ip = server[n].ip
            /\ (server'[n] = server[n] \/ (Join /\ n = Due))
         \/ server'[n] = NoServer /\ (DeleteServer(n) \/ DeleteByHand(n))
         \/ MadeIn(n)
<1>t. server \in [Hosts -> ServerType]
  BY DEF WorldOK
<1>1. ASSUME NEW m \in Hosts, MadeIn(m), n # m PROVE server'[n] = server[n]
  BY <1>1 DEF MadeIn
<1>2. ASSUME NEW m \in Hosts, server' = [server EXCEPT ![m] = NoServer]
      PROVE  server'[n] = IF n = m THEN NoServer ELSE server[n]
  BY <1>t, <1>2
<1>3. ASSUME Due \in Hosts, server' = [server EXCEPT ![Due].joined = IF @ = 0 THEN cp.ca ELSE @]
      PROVE  /\ server'[n].id = server[n].id /\ server'[n].ip = server[n].ip
             /\ n # Due => server'[n] = server[n]
  BY <1>t, <1>3 DEF ServerType
<1> QED
  BY <1>1, <1>2, <1>3, ServerNext

LEMMA IdStep == TypeInv /\ IdInv /\ [Next]_vars => IdInv'
<1> SUFFICES ASSUME TypeInv, IdInv, [Next]_vars PROVE IdInv'
  OBVIOUS
<1>t. WorldOK /\ RunOK /\ WorldOK' /\ RunOK'
  BY TypeStep DEF TypeInv
<1>m. made \in Nat /\ made' \in Nat /\ made' >= made
  BY <1>t, CountTypes DEF WorldOK
<1>u. \A x \in Nat : x <= made => x <= made'
  BY <1>m
<1>s. \A n \in Hosts : server[n].id \in Nat
  BY <1>t DEF WorldOK, ServerType
<1>0. \A n \in Hosts : server[n].id <= made'
  BY <1>u, <1>s DEF IdInv
<1>1. ASSUME NEW n \in Hosts PROVE server'[n].id <= made'
  <2>1. server'[n].id \in {server[n].id, 0} \/ server'[n].id = made'
    BY <1>t, EachServer DEF NoServer, MadeIn
  <2> QED
    BY <1>m, <1>0, <2>1
<1>2. ASSUME NEW a \in Addresses PROVE pins'[a] <= made'
  <2>1. \/ pins'[a] \in {pins[a], run.cp, 0}
        \/ \E n \in Hosts : pins'[a] = server[n].id
    <3>1. PinWorker => First(run.fresh) \in Hosts
      BY <1>t, FirstIn, Constants DEF PinWorker, Step, At, RunOK, StepInv, RunType
    <3> QED
      BY <1>t, <3>1, PinsMove DEF WorldOK, PinControlPlane, PinVPNAddress, PinWorker, Forget, SetPin
  <2>2. pins[a] <= made' /\ run.cp <= made' /\ 0 <= made'
    BY <1>m, <1>u, <1>t DEF IdInv, WorldOK, RunOK, RunType
  <2> QED
    BY <1>0, <2>1, <2>2
<1>3. run'.cp <= made'
  <2>1. CreateControlPlane => run'.cp = made'
    BY <1>t DEF CreateControlPlane, Create, RunOK, RunType
  <2>2. run'.cp \in {run.cp, 0, server[Cp].id, made'}
    BY <1>t, <2>1, RunFields, StartFields DEF SameRun
  <2>3. run.cp <= made' /\ 0 <= made' /\ made' <= made'
    BY <1>m, <1>u, <1>t DEF IdInv, RunOK, RunType
  <2> QED
    BY <1>0, <2>2, <2>3, Constants
<1>4. run'.at <= made'
  <2>1. BuildWorker => run'.at = server[Due].id /\ Due \in Hosts
    BY <1>t, FirstIn, Constants DEF BuildWorker, Step, At, Due, RunOK, RunType, StepInv, Working, Rest
  <2>2. run'.at \in {run.at, 0} \/ \E n \in Hosts : run'.at = server[n].id
    BY <1>t, <2>1, RunFields, StartFields DEF SameRun
  <2>3. run.at <= made' /\ 0 <= made'
    BY <1>m, <1>u, <1>t DEF IdInv, RunOK, RunType
  <2> QED
    BY <1>0, <2>2, <2>3
<1> QED
  BY <1>1, <1>2, <1>3, <1>4 DEF IdInv

(* A step on the host of the Control Plane needs one.                      *)
LEMMA OnlyOnHost ==
  ASSUME [Next]_vars, cp' # cp
  PROVE  \/ Exists(Cp) /\ server' = server
         \/ ApiBack \/ ApiDown \/ CreateControlPlane
         \/ \E n \in Hosts : (DeleteServer(n) \/ DeleteByHand(n)) /\ cp' = IF n = Cp THEN NoCp ELSE cp
<1>1. Session => Exists(Cp)
  BY DEF Session, Exists
<1>2. Hub \/ ResetHalfInit \/ InitBegin \/ InitEnd \/ CompleteBuild => Session
  BY DEF Hub, ResetHalfInit, InitBegin, InitEnd, CompleteBuild, Step, At, Blocked, OnHost
<1>3. Services => Exists(Cp)
  BY DEF Services, Step, At, Blocked, Reaches
<1>4. Hub \/ ResetHalfInit \/ InitBegin \/ InitEnd \/ CompleteBuild \/ Services => server' = server
  BY DEF Hub, ResetHalfInit, InitBegin, InitEnd, CompleteBuild, Services, cloud
<1>5. ASSUME NEW n \in Hosts, DeleteServer(n) \/ DeleteByHand(n)
      PROVE  cp' = IF n = Cp THEN NoCp ELSE cp
  BY <1>5 DEF DeleteServer, DeleteByHand
<1> QED
  BY <1>1, <1>2, <1>3, <1>4, <1>5, CpMoves

LEMMA PlaceStep == TypeInv /\ PlaceInv /\ [Next]_vars => PlaceInv'
<1> SUFFICES ASSUME TypeInv, PlaceInv, [Next]_vars PROVE PlaceInv'
  OBVIOUS
<1>t. WorldOK /\ RunOK /\ run \in RunType /\ server \in [Hosts -> ServerType] /\ made \in Nat
  BY DEF TypeInv, WorldOK, RunOK
<1>m. made + 1 # 0
  BY <1>t
<1>1. Exists(Cp)' => server'[Cp].ip = CpIp
  BY <1>t, EachServer, Constants DEF PlaceInv, Exists, NoServer, MadeIn
<1>2. ASSUME NEW w \in Workers, Exists(w)' PROVE server'[w].ip \in Pool
  BY <1>t, <1>2, EachServer, Constants DEF PlaceInv, Exists, NoServer, MadeIn
<1>3. ASSUME NEW n \in Servers', NEW m \in Servers', server'[n].ip = server'[m].ip PROVE n = m
  <2>0. n \in Hosts /\ m \in Hosts /\ Exists(n)' /\ Exists(m)'
    BY <1>3 DEF Servers
  <2>1. ASSUME NEW x \in Hosts, MadeIn(x), NEW y \in Hosts, y # x, Exists(y)'
        PROVE  server'[x].ip # server'[y].ip
    <3>1. server'[y] = server[y] /\ y \in Servers
      BY <2>1 DEF MadeIn, Exists, Servers
    <3>2. CASE x = Cp
      <4>1. y \in Workers /\ server[y].ip \in Pool
        BY <2>1, <3>1, <3>2 DEF Hosts, PlaceInv, Servers
      <4> QED
        BY <2>1, <3>1, <3>2, <4>1, Constants DEF MadeIn
    <3>3. CASE x # Cp
      BY <2>1, <3>1, <3>3 DEF MadeIn
    <3> QED
      BY <3>2, <3>3
  <2>2. CASE MadeIn(n) \/ MadeIn(m)
    BY <1>3, <2>0, <2>1, <2>2
  <2>3. CASE ~MadeIn(n) /\ ~MadeIn(m)
    <3>1. server[n].ip = server'[n].ip /\ n \in Servers
      BY <1>t, <2>0, <2>3, EachServer DEF Exists, NoServer, Servers
    <3>2. server[m].ip = server'[m].ip /\ m \in Servers
      BY <1>t, <2>0, <2>3, EachServer DEF Exists, NoServer, Servers
    <3> QED
      BY <1>3, <3>1, <3>2 DEF PlaceInv
  <2> QED
    BY <2>2, <2>3
<1>4. ASSUME ~Exists(Cp)' PROVE cp' = NoCp
  <2>1. CASE cp' = cp
    <3>1. CASE ~Exists(Cp)
      BY <2>1, <3>1 DEF PlaceInv
    <3>2. CASE Exists(Cp)
      <4>1. server'[Cp].id # server[Cp].id
        BY <1>4, <3>2 DEF Exists
      <4>2. DeleteServer(Cp) \/ DeleteByHand(Cp)
        BY <1>t, <3>2, <4>1, EachServer, Constants DEF MadeIn
      <4> QED
        BY <4>2 DEF DeleteServer, DeleteByHand
    <3> QED
      BY <3>1, <3>2
  <2>2. CASE cp' # cp
    <3>1. ~(Exists(Cp) /\ server' = server)
      BY <1>4 DEF Exists
    <3>2. ~CreateControlPlane
      BY <1>t, <1>m, <1>4, Constants DEF CreateControlPlane, Create, Exists
    <3>3. ASSUME ApiBack \/ ApiDown PROVE FALSE
      <4>1. cp.api # "none" /\ server' = server
        BY <3>3 DEF ApiBack, ApiDown, cloud
      <4>2. cp # NoCp
        BY <4>1 DEF NoCp
      <4> QED
        BY <3>1, <4>1, <4>2 DEF PlaceInv
    <3> QED
      BY <2>2, <3>1, <3>2, <3>3, OnlyOnHost
  <2> QED
    BY <2>1, <2>2
<1>5. ASSUME NEW w \in run'.fresh PROVE Exists(w)'
  <2>1. CASE Starts
    BY <1>5, <2>1, StartFields
  <2>2. ASSUME NEW v \in Workers, NEW ip \in Pool, ApplyWorker(v, ip) PROVE Exists(w)'
    <3>1. Create(v, ip) /\ run'.fresh = run.fresh \cup {v}
      BY <1>t, <2>2 DEF ApplyWorker, RunType
    <3>2. server'[v].id # 0 /\ (w # v => server'[w] = server[w])
      <4>1. v \in Hosts /\ w \in Hosts
        BY <1>5, <1>t, <3>1, Constants DEF RunType
      <4> QED
        BY <1>t, <1>m, <3>1, <4>1 DEF Create
    <3> QED
      BY <1>5, <3>1, <3>2 DEF Exists, PlaceInv
  <2>3. CASE ~Starts /\ ~(\E v \in Workers, ip \in Pool : ApplyWorker(v, ip))
    <3>1. run'.fresh = run.fresh \/ PinWorker
      BY <1>t, <2>3, RunFields DEF SameRun
    <3>p. PinWorker => \E v : run'.fresh = run.fresh \ {v}
      BY <1>t DEF PinWorker, RunType
    <3>2. w \in run.fresh /\ w \in Hosts
      BY <1>5, <1>t, <3>1, <3>p, Constants DEF RunType
    <3>3. Exists(w)
      BY <3>2 DEF PlaceInv
    <3>4. ~DeleteServer(w)
      BY <3>2 DEF DeleteServer, At, PlaceInv
    <3>5. ~DeleteByHand(w)
      BY <3>2 DEF DeleteByHand
    <3> QED
      BY <1>t, <3>2, <3>3, <3>4, <3>5, EachServer DEF Exists, MadeIn
  <2> QED
    BY <2>1, <2>2, <2>3
<1>6. ASSUME run'.fresh # {} PROVE run'.step \in {"apply", "pin", "failed"}
  <2>1. CASE Starts
    BY <1>6, <2>1, StartFields
  <2>2. CASE \E v \in Workers, ip \in Pool : ApplyWorker(v, ip)
    BY <1>t, <2>2 DEF ApplyWorker, RunType
  <2>3. CASE PinWorker
    <3>1. PICK w : /\ run'.fresh = run.fresh \ {w}
                   /\ run'.step = IF run.fresh = {w} THEN "build" ELSE "pin"
      BY <1>t, <2>3 DEF PinWorker, RunType
    <3> QED
      BY <1>6, <3>1
  <2>4. CASE ~Starts /\ ~PinWorker /\ ~(\E v \in Workers, ip \in Pool : ApplyWorker(v, ip))
    <3>1. run.step \in {"apply", "pin", "failed"}
      BY <1>6, <1>t, <2>4, RunFields DEF SameRun, PlaceInv
    <3>2. ~Onward
      BY <3>1 DEF Onward, Shared, Login, Hub, Initialised, InitBegin, InitEnd, Addons, ProveRoute,
         LaptopWireGuard, RestartUnit, LaptopKubeconfig, UseContext, CompleteBuild,
         PinControlPlane, Reach, Join, Services, DeleteBalancers, DeleteVolume, DeleteNetwork,
         Readback, EmptyBucket, Forget, Step, At
    <3>3. Remembering => Stop
      BY <2>4, <3>1 DEF Remembering, CreateControlPlane, PinVPNAddress, PlanWorkers, BuildWorker,
         NodeReady, DeletePrimaryIP, Step, At
    <3>4. Stop \/ Fails => run'.step = "failed"
      BY <1>t DEF Stop, Fails, Fail, To, RunType
    <3>5. Aside \/ ResetHalfInit \/ UNCHANGED vars => run'.step = run.step
      BY <1>t, RunAside DEF ResetHalfInit, vars, RunType
    <3> QED
      BY <2>4, <3>1, <3>2, <3>3, <3>4, <3>5, NextIs
  <2> QED
    BY <2>1, <2>2, <2>3, <2>4
<1> QED
  BY <1>1, <1>2, <1>3, <1>4, <1>5, <1>6 DEF PlaceInv

-----------------------------------------------------------------------------
(* Pins stay while their servers do.                                       *)

(* The pins are dropped when no server is left that they are for.          *)
ForgetInv == run.step \in {"empty", "forget"} => \A n \in Hosts : ~Trusted(n)

LEMMA NewIsUntrusted ==
  ASSUME TypeInv, IdInv, PlaceInv, [Next]_vars, NEW n \in Hosts, MadeIn(n), pins' = pins
  PROVE  ~Trusted(n)'
<1>1. server'[n].ip \in Addresses
  BY ServerTypes DEF TypeInv, ServerType
<1>2. pins[server'[n].ip] <= made /\ made \in Nat /\ pins[server'[n].ip] \in Nat
  BY <1>1 DEF IdInv, TypeInv, WorldOK
<1>3. pins[server'[n].ip] # made + 1
  BY <1>2
<1> QED
  BY <1>3 DEF MadeIn, Trusted

(* The steps that lead to empty and forget.                                *)
LEMMA ToForget ==
  ASSUME RunOK, [Next]_vars, run'.step \in {"empty", "forget"}
  PROVE  \/ StartDown \/ Readback \/ EmptyBucket
         \/ run'.step = run.step /\ pins' = pins
<1>t. run \in RunType
  BY DEF RunOK
<1>1. CASE Starts
  BY <1>1, StartFields DEF Starts, StartUp, StartInit, StartAdd, Begin, NoRun
<1>2. CASE Onward
  <2>1. ASSUME NEW s, To(s) PROVE run'.step = s
    BY <1>t, <2>1, ToKeeps
  <2> QED
    BY <1>2, <2>1 DEF Onward, Shared, Login, Hub, Initialised, InitBegin, InitEnd, Addons,
       ProveRoute, LaptopWireGuard, RestartUnit, LaptopKubeconfig, UseContext, CompleteBuild,
       PinControlPlane, Reach, Join, Services, DeleteBalancers, DeleteVolume, DeleteNetwork, Forget
<1>3. CASE Remembering
  <2>1. run'.step \in {"pincp", "prove", "build", "apply", "pin", "join", "services", "done",
                       "net", "failed"}
    BY <1>t, <1>3 DEF Remembering, CreateControlPlane, PinVPNAddress, PlanWorkers, PinWorker,
       BuildWorker, NodeReady, DeletePrimaryIP, To, Stop, ApplyWorker, RunType
  <2> QED
    BY <2>1
<1>4. CASE Fails
  BY <1>t, <1>4, ToKeeps DEF Fails, Fail
<1>5. CASE Aside \/ ResetHalfInit \/ UNCHANGED vars
  <2>1. run'.step = run.step
    BY <1>t, <1>5, RunAside DEF ResetHalfInit, vars, RunType
  <2>2. pins' = pins
    BY <1>5 DEF Aside, ApiBack, Archive, Unassign, ApiDown, Register, ForgetNode, Provide,
       DeleteServer, DeleteByHand, CreateByHand, Want, ResetHalfInit, vars
  <2> QED
    BY <2>1, <2>2
<1> QED
  BY <1>1, <1>2, <1>3, <1>4, <1>5, NextIs

LEMMA ForgetStep ==
  TypeInv /\ IdInv /\ PlaceInv /\ ForgetInv /\ [Next]_vars => ForgetInv'
<1> SUFFICES ASSUME TypeInv, IdInv, PlaceInv, ForgetInv, [Next]_vars,
                    run'.step \in {"empty", "forget"}, NEW n \in Hosts
             PROVE  ~Trusted(n)'
  BY DEF ForgetInv
<1>t. WorldOK /\ RunOK /\ run \in RunType
  BY DEF TypeInv, RunOK
<1>1. CASE StartDown
  <2>1. Empty /\ server' = server
    <3>1. ~Empty => run'.step = "servers"
      BY <1>1 DEF StartDown, NoRun
    <3> QED
      BY <1>1, <3>1 DEF StartDown, cloud
  <2> QED
    BY <2>1 DEF Empty, Servers, Trusted, Exists
<1>2. CASE Readback
  <2>1. Empty /\ server' = server
    <3>1. ~Empty => run'.step = "failed"
      BY <1>t, <1>2, ToKeeps DEF Readback
    <3> QED
      BY <1>2, <3>1 DEF Readback, cloud
  <2> QED
    BY <2>1 DEF Empty, Servers, Trusted, Exists
<1>3. CASE EmptyBucket
  BY <1>3 DEF EmptyBucket, At, cloud, ForgetInv, Trusted, Exists
<1>4. CASE run'.step = run.step /\ pins' = pins
  <2>1. ~Trusted(n)
    BY <1>4 DEF ForgetInv
  <2>2. MadeIn(n) => ~Trusted(n)'
    BY <1>4, NewIsUntrusted
  <2> QED
    BY <1>t, <1>4, <2>1, <2>2, EachServer DEF Trusted, Exists, NoServer
<1> QED
  BY <1>t, <1>1, <1>2, <1>3, <1>4, ToForget

LEMMA KeptStep ==
  ASSUME TypeInv, IdInv, PlaceInv, ForgetInv, [Next]_vars,
         NEW n \in Hosts, Trusted(n), server'[n].id = server[n].id
  PROVE  Trusted(n)'
<1>t. WorldOK /\ RunOK /\ run \in RunType /\ server \in [Hosts -> ServerType]
      /\ made \in Nat /\ pins \in [Addresses -> Nat]
  BY DEF TypeInv, WorldOK, RunOK
<1>1. Exists(n)' /\ server'[n].ip = server[n].ip /\ server[n].ip \in Addresses
  <2>1. server[n].id <= made /\ server[n].id \in Nat /\ server[n].id # 0
    BY <1>t DEF IdInv, Trusted, Exists, ServerType
  <2>2. server[n].id # made + 1
    BY <1>t, <2>1
  <2> QED
    BY <1>t, <2>1, <2>2, EachServer DEF MadeIn, NoServer, Exists, ServerType
<1>2. ASSUME NEW addr \in Addresses, NEW id, SetPin(addr, id),
             server[n].ip = addr => id = server[n].id
      PROVE  pins'[server[n].ip] = server[n].id
  BY <1>t, <1>1, <1>2 DEF SetPin, Trusted
<1>3. CASE PinControlPlane
  <2>1. SetPin(CpIp, run.cp) /\ server[Cp].id = run.cp /\ Exists(Cp)
    BY <1>3 DEF PinControlPlane, Step, At, Blocked, Session, Exists
  <2>2. server[n].ip = CpIp => n = Cp
    BY <2>1, Constants DEF PlaceInv, Servers, Trusted
  <2>3. pins'[server[n].ip] = server[n].id
    BY <1>2, <2>1, <2>2, Constants
  <2> QED
    BY <1>1, <2>3 DEF Trusted
<1>4. CASE PinVPNAddress
  <2>1. server[n].ip # Vpn
    BY Constants DEF PlaceInv, Trusted, Hosts
  <2>2. SetPin(Vpn, run.cp)
    BY <1>4 DEF PinVPNAddress
  <2>3. pins'[server[n].ip] = server[n].id
    BY <1>2, <2>1, <2>2, Constants
  <2> QED
    BY <1>1, <2>3 DEF Trusted
<1>5. CASE PinWorker
  <2> DEFINE w == First(run.fresh)
  <2>1. w \in run.fresh /\ w \in Hosts
    BY <1>5, <1>t, FirstIn, Constants DEF PinWorker, Step, At, RunOK, StepInv, RunType
  <2>2. Exists(w) /\ SetPin(server[w].ip, server[w].id) /\ server[w].ip \in Addresses
    BY <1>5, <1>t, <2>1 DEF PinWorker, PlaceInv, ServerType
  <2>3. server[n].ip = server[w].ip => server[w].id = server[n].id
    BY <2>1, <2>2 DEF PlaceInv, Servers, Trusted
  <2>4. pins'[server[n].ip] = server[n].id
    BY <1>2, <2>2, <2>3
  <2> QED
    BY <1>1, <2>4 DEF Trusted
<1>6. CASE Forget
  BY <1>6 DEF Forget, At, ForgetInv
<1>7. CASE pins' = pins
  BY <1>1, <1>7 DEF Trusted
<1> QED
  BY <1>3, <1>4, <1>5, <1>6, <1>7, PinsMove

(* What makes the run's invariants hold from the start.                    *)
LEMMA InvInit == Init => IdInv /\ PlaceInv /\ ForgetInv
<1> SUFFICES ASSUME Init PROVE IdInv /\ PlaceInv /\ ForgetInv
  OBVIOUS
<1>1. IdInv
  BY Constants DEF Init, IdInv, NoServer, NoRun
<1>2. PlaceInv
  BY Constants DEF Init, PlaceInv, NoServer, NoRun, Exists, Servers
<1>3. ForgetInv
  BY DEF Init, ForgetInv, NoRun
<1> QED
  BY <1>1, <1>2, <1>3

(* kluster never loses the key it pinned for a server that still exists:   *)
(* a create, a rebuild, another server's pin and a cleared project leave   *)
(* it (hostkey/pins.go rewrite; commands.go drops the pins last).          *)
THEOREM PinnedServersStayTrusted == Spec => PinsKept
<1>1. TypeInv /\ IdInv /\ PlaceInv /\ ForgetInv /\ [Next]_vars =>
        [\A n \in Hosts : Trusted(n) /\ server'[n].id = server[n].id => Trusted(n)']_vars
  BY KeptStep
<1> QED
  BY <1>1, TypeInit, TypeStep, InvInit, IdStep, PlaceStep, ForgetStep, PTL DEF Spec, PinsKept

-----------------------------------------------------------------------------
(* Commands fill slots and touch nothing else.                             *)

(* The steps after the first login: they hold a session on the host whose  *)
(* key was the pinned one, while its build is not complete.                *)
CpSteps == {"hub", "kubeadm", "cut", "addons", "vpn", "prove", "wireguard", "restart",
            "kubeconfig", "context", "complete"}
BuildInv ==
    /\ run.step \in CpSteps /\ Session => pins[CpIp] = run.cp /\ cp.marker = "running"
    /\ run.step = "cut" /\ Session => cp.api = "cut"
    /\ cp.ca = 0 <=> cp.api = "none"
    /\ run.step = "servers" => rehearsal /\ run.cmd = "down"
    /\ run.step = "join" => /\ run.at # 0
                            /\ server[Due].id = run.at => pins[server[Due].ip] = run.at

(* How a run comes to the steps BuildInv is about.                         *)
LEMMA Into ==
  ASSUME RunOK, WorldOK, [Next]_vars
  PROVE  /\ run'.step \in CpSteps => Login \/ (run.step \in CpSteps /\ ~CompleteBuild)
         /\ run'.step = "cut" => InitBegin \/ (run.step = "cut" /\ ~InitEnd)
         /\ run'.step = "servers" => StartDown \/ run.step = "servers"
         /\ run'.step = "join" => BuildWorker \/ (run.step = "join" /\ ~Starts)
<1>t. run \in RunType
  BY DEF RunOK
<1> DEFINE Good ==
         /\ run'.step \in CpSteps => Login \/ (run.step \in CpSteps /\ ~CompleteBuild)
         /\ run'.step = "cut" => InitBegin \/ (run.step = "cut" /\ ~InitEnd)
         /\ run'.step = "servers" => StartDown \/ run.step = "servers"
         /\ run'.step = "join" => BuildWorker \/ (run.step = "join" /\ ~Starts)
<1>1. CASE Starts
  <2>1. run'.step \notin CpSteps \cup {"join"}
    BY <1>1, StartFields DEF CpSteps
  <2>2. run'.step = "servers" => StartDown
    BY <1>1 DEF Starts, StartUp, StartInit, StartAdd, Begin, NoRun
  <2> QED
    BY <2>1, <2>2 DEF CpSteps
<1>2. CASE Onward
  <2>1. ASSUME NEW s, To(s) PROVE run'.step = s
    BY <1>t, <2>1, ToKeeps
  <2>2. Login \/ InitBegin => Good
    BY <2>1 DEF Login, InitBegin, CompleteBuild, Step, At, CpSteps
  <2>3. Shared \/ Hub \/ Initialised \/ Addons \/ ProveRoute => Good
    BY <2>1 DEF Shared, Hub, Initialised, Addons, ProveRoute, InitEnd, CompleteBuild, Step, At, CpSteps
  <2>4. LaptopWireGuard \/ RestartUnit \/ LaptopKubeconfig \/ UseContext => Good
    BY <2>1 DEF LaptopWireGuard, RestartUnit, LaptopKubeconfig, UseContext, InitEnd, CompleteBuild,
       Step, At, CpSteps
  <2>5. InitEnd \/ CompleteBuild => Good
    BY <2>1 DEF InitEnd, CompleteBuild, Step, At, CpSteps
  <2>6. PinControlPlane \/ Reach \/ Join \/ Services => Good
    BY <2>1 DEF PinControlPlane, Reach, Join, Services, CpSteps
  <2>7. DeleteBalancers \/ DeleteVolume \/ DeleteNetwork \/ Readback \/ EmptyBucket \/ Forget => Good
    BY <2>1 DEF DeleteBalancers, DeleteVolume, DeleteNetwork, Readback, EmptyBucket, Forget, CpSteps
  <2> QED
    BY <1>2, <2>2, <2>3, <2>4, <2>5, <2>6, <2>7 DEF Onward
<1>3. CASE Remembering
  <2>1. CASE PinVPNAddress
    <3>1. run.step = "vpn" /\ run'.step = "prove"
      BY <1>t, <2>1 DEF PinVPNAddress, Step, At, RunType
    <3> QED
      BY <3>1 DEF CpSteps, CompleteBuild, Step, At
  <2>2. CASE BuildWorker
    <3>1. run'.step = "join"
      BY <1>t, <2>2 DEF BuildWorker, RunType
    <3> QED
      BY <2>2, <3>1 DEF CpSteps
  <2>3. CASE ~PinVPNAddress /\ ~BuildWorker
    <3>1. run'.step \in {"pincp", "build", "apply", "pin", "services", "done", "net", "failed"}
      BY <1>t, <1>3, <2>3 DEF Remembering, CreateControlPlane, PlanWorkers, PinWorker,
         NodeReady, DeletePrimaryIP, To, Stop, ApplyWorker, RunType
    <3> QED
      BY <3>1 DEF CpSteps
  <2> QED
    BY <2>1, <2>2, <2>3
<1>4. CASE Fails
  <2>1. run'.step = "failed"
    BY <1>t, <1>4, ToKeeps DEF Fails, Fail
  <2> QED
    BY <2>1 DEF CpSteps
<1>5. CASE Aside \/ ResetHalfInit \/ UNCHANGED vars
  <2>1. run'.step = run.step /\ run'.todo = run.todo
    BY <1>t, <1>5, RunAside DEF ResetHalfInit, vars, RunType
  <2>2. CompleteBuild => run'.step \notin CpSteps
    BY <1>t, ToKeeps DEF CompleteBuild, CpSteps
  <2>3. InitEnd => run'.step # "cut"
    BY <1>t, ToKeeps DEF InitEnd
  <2>4. Starts => run'.step # "join"
    BY StartFields
  <2> QED
    BY <2>1, <2>2, <2>3, <2>4
<1> QED
  BY <1>1, <1>2, <1>3, <1>4, <1>5, NextIs

(* The session a run holds, before and after a step.                       *)
LEMMA SessionKept ==
  ASSUME TypeInv, IdInv, [Next]_vars, Session', run'.cp = run.cp
  PROVE  Session /\ ~DeleteServer(Cp) /\ ~DeleteByHand(Cp) /\ ~CreateControlPlane
<1>t. server \in [Hosts -> ServerType] /\ made \in Nat /\ WorldOK /\ RunOK /\ run.cp \in Nat
  BY DEF TypeInv, WorldOK, RunOK, RunType
<1>1. run.cp # 0 /\ run.cp <= made /\ server'[Cp].id = run.cp
  BY DEF Session, IdInv
<1>2. run.cp # made + 1
  BY <1>t, <1>1
<1>3. ~MadeIn(Cp)
  BY <1>1, <1>2 DEF MadeIn
<1>4. ~DeleteServer(Cp) /\ ~DeleteByHand(Cp)
  <2>1. DeleteServer(Cp) \/ DeleteByHand(Cp) => server'[Cp] = NoServer
    BY <1>t, Constants DEF DeleteServer, DeleteByHand
  <2> QED
    BY <1>1, <2>1 DEF NoServer
<1>5. server'[Cp].id = server[Cp].id
  BY <1>t, <1>3, <1>4, EachServer, Constants
<1>6. ~CreateControlPlane
  <2>1. CreateControlPlane => server'[Cp].id = made + 1
    BY <1>t, Constants DEF CreateControlPlane, Create
  <2> QED
    BY <1>1, <1>2, <2>1
<1> QED
  BY <1>1, <1>4, <1>5, <1>6 DEF Session

LEMMA BuildStep ==
  TypeInv /\ IdInv /\ PlaceInv /\ BuildInv /\ [Next]_vars => BuildInv'
<1> SUFFICES ASSUME TypeInv, IdInv, PlaceInv, BuildInv, [Next]_vars PROVE BuildInv'
  OBVIOUS
<1>t. WorldOK /\ RunOK /\ IntentOK /\ run \in RunType /\ server \in [Hosts -> ServerType]
      /\ made \in Nat /\ pins \in [Addresses -> Nat] /\ cp \in CpType
  BY DEF TypeInv, WorldOK, RunOK
<1>1. ASSUME run'.step \in CpSteps, Session' PROVE pins'[CpIp] = run'.cp /\ cp'.marker = "running"
  <2>1. CASE Login
    <3>1. Session /\ Dials(Cp) /\ UNCHANGED <<server, cp, pins>> /\ run'.cp = run.cp
      BY <1>t, <2>1, ToKeeps DEF Login, Step, At, Blocked, OnHost, cloud, host, SameRun, CreateControlPlane
    <3>2. pins[CpIp] = run.cp
      BY <3>1 DEF Dials, Trusted, Session, PlaceInv
    <3>3. cp.marker = "running"
      <4>1. cp.marker # "running" => run'.step \in {"reach", "done"}
        BY <1>t, <2>1, ToKeeps DEF Login
      <4> QED
        BY <1>1, <4>1 DEF CpSteps
    <3> QED
      BY <3>1, <3>2, <3>3
  <2>2. CASE run.step \in CpSteps /\ ~CompleteBuild
    <3>1. ~Starts /\ ~CreateControlPlane
      BY <1>1, <2>2, StartFields DEF CreateControlPlane, Step, At, CpSteps
    <3>2. run'.cp = run.cp
      BY <1>t, <3>1, RunFields DEF SameRun
    <3>3. Session /\ ~DeleteServer(Cp) /\ ~DeleteByHand(Cp)
      BY <1>1, <3>2, SessionKept
    <3>4. pins[CpIp] = run.cp /\ cp.marker = "running"
      BY <2>2, <3>3 DEF BuildInv
    <3>5. pins'[CpIp] = pins[CpIp]
      <4>1. ~PinControlPlane /\ ~PinWorker /\ ~Forget
        BY <2>2 DEF PinControlPlane, PinWorker, Forget, Step, At, CpSteps
      <4>2. PinVPNAddress => pins'[CpIp] = pins[CpIp]
        BY <1>t, Constants DEF PinVPNAddress, SetPin
      <4> QED
        BY <4>1, <4>2, PinsMove
    <3>6. cp'.marker = cp.marker
      <4>1. ASSUME NEW n \in Hosts, DeleteServer(n) \/ DeleteByHand(n) PROVE cp' = cp
        BY <3>3, <4>1 DEF DeleteServer, DeleteByHand
      <4>2. Hub \/ ResetHalfInit \/ InitBegin \/ InitEnd \/ Services => cp'.marker = cp.marker
        BY <1>t DEF Hub, ResetHalfInit, InitBegin, InitEnd, Services, CpType
      <4>3. ApiBack \/ ApiDown => cp'.marker = cp.marker
        BY <1>t DEF ApiBack, ApiDown, CpType
      <4> QED
        BY <2>2, <3>1, <4>1, <4>2, <4>3, CpMoves
    <3> QED
      BY <3>2, <3>4, <3>5, <3>6
  <2> QED
    BY <1>t, <1>1, <2>1, <2>2, Into
<1>2. ASSUME run'.step = "cut", Session' PROVE cp'.api = "cut"
  <2>1. CASE InitBegin
    BY <1>t, <2>1 DEF InitBegin, CpType
  <2>2. CASE run.step = "cut" /\ ~InitEnd
    <3>1. ~Starts /\ ~CreateControlPlane
      BY <1>2, <2>2, StartFields DEF CreateControlPlane, Step, At
    <3>2. run'.cp = run.cp
      BY <1>t, <3>1, RunFields DEF SameRun
    <3>3. Session /\ ~DeleteServer(Cp) /\ ~DeleteByHand(Cp)
      BY <1>2, <3>2, SessionKept
    <3>4. cp.api = "cut"
      BY <2>2, <3>3 DEF BuildInv
    <3>5. ASSUME NEW n \in Hosts, DeleteServer(n) \/ DeleteByHand(n) PROVE cp' = cp
      BY <3>3, <3>5 DEF DeleteServer, DeleteByHand
    <3>6. ~Hub /\ ~ResetHalfInit /\ ~InitBegin /\ ~CompleteBuild /\ ~Services
      BY <2>2 DEF Hub, ResetHalfInit, InitBegin, CompleteBuild, Services, Step, At
    <3>7. ~ApiBack /\ ~ApiDown
      BY <3>4 DEF ApiBack, ApiDown
    <3> QED
      BY <2>2, <3>1, <3>4, <3>5, <3>6, <3>7, CpMoves
  <2> QED
    BY <1>t, <1>2, <2>1, <2>2, Into
<1>3. cp'.ca = 0 <=> cp'.api = "none"
  <2>0. (cp.ca = 0 <=> cp.api = "none") /\ NoCp.ca = 0 /\ NoCp.api = "none"
    BY DEF BuildInv, NoCp
  <2>1. CASE CreateControlPlane
    BY <2>1, <2>0 DEF CreateControlPlane, NoCp
  <2>2. CASE Hub \/ CompleteBuild \/ Services
    BY <1>t, <2>0, <2>2 DEF Hub, CompleteBuild, Services, CpType
  <2>3. CASE ResetHalfInit
    BY <1>t, <2>3 DEF ResetHalfInit, CpType
  <2>4. CASE InitBegin
    <3>1. cas + 1 # 0
      BY <1>t DEF WorldOK
    <3> QED
      BY <1>t, <2>4, <3>1 DEF InitBegin, CpType
  <2>5. CASE InitEnd
    <3>1. cp.api = "cut"
      BY <2>5 DEF InitEnd, Step, At, Blocked, OnHost, BuildInv
    <3> QED
      BY <1>t, <2>0, <2>5, <3>1 DEF InitEnd, CpType
  <2>6. CASE ApiBack \/ ApiDown
    BY <1>t, <2>0, <2>6 DEF ApiBack, ApiDown, CpType
  <2>7. ASSUME NEW n \in Hosts, DeleteServer(n) \/ DeleteByHand(n)
        PROVE  cp'.ca = 0 <=> cp'.api = "none"
    BY <2>0, <2>7 DEF DeleteServer, DeleteByHand
  <2> QED
    BY <2>0, <2>1, <2>2, <2>3, <2>4, <2>5, <2>6, <2>7, CpMoves
<1>4. ASSUME run'.step = "servers" PROVE rehearsal' /\ run'.cmd = "down"
  <2>0. rehearsal' = rehearsal
    BY <1>t, IntentStep
  <2>1. CASE StartDown
    BY <2>0, <2>1 DEF StartDown, NoRun
  <2>2. CASE ~StartDown
    <3>1. run.step = "servers" /\ ~Starts
      <4>1. Starts => run'.step # "servers"
        BY <2>2 DEF Starts, StartUp, StartInit, StartAdd, Begin, NoRun
      <4> QED
        BY <1>t, <1>4, <2>2, <4>1, Into
    <3> QED
      BY <1>t, <2>0, <3>1, RunFields DEF SameRun, BuildInv
  <2> QED
    BY <2>1, <2>2
<1>5. ASSUME run'.step = "join"
      PROVE  run'.at # 0 /\ (server'[Due'].id = run'.at => pins'[server'[Due'].ip] = run'.at)
  <2>1. CASE BuildWorker
    <3>1. run'.at = server[Due].id /\ run'.todo = run.todo /\ UNCHANGED <<server, pins>>
      BY <1>t, <2>1 DEF BuildWorker, RunType, cloud
    <3>2. Due' = Due
      BY <3>1 DEF Due
    <3>3. Dials(Due)
      BY <2>1 DEF BuildWorker, Step, At, Blocked
    <3> QED
      BY <3>1, <3>2, <3>3 DEF Dials, Trusted, Exists
  <2>2. CASE run.step = "join" /\ ~Starts
    <3>1. run'.at = run.at /\ run'.todo = run.todo
      BY <1>t, <2>2, RunFields DEF SameRun, BuildWorker, NodeReady, Step, At
    <3>2. Due' = Due /\ Due \in Hosts
      BY <1>t, <2>2, <3>1, FirstIn, Constants DEF Due, RunOK, StepInv, Working, Rest, RunType
    <3>3. run.at # 0 /\ run.at <= made /\ run.at \in Nat
      BY <1>t, <2>2 DEF BuildInv, IdInv, RunType
    <3>4. run.at # made + 1
      BY <1>t, <3>3
    <3>5. pins' = pins
      BY <2>2, PinsMove DEF PinControlPlane, PinVPNAddress, PinWorker, Forget, Step, At
    <3>6. server'[Due].id = run.at => server[Due].id = run.at /\ server'[Due].ip = server[Due].ip
      BY <1>t, <3>2, <3>3, <3>4, EachServer DEF MadeIn, NoServer
    <3> QED
      BY <2>2, <3>1, <3>2, <3>3, <3>5, <3>6 DEF BuildInv
  <2> QED
    BY <1>t, <1>5, <2>1, <2>2, Into
<1> QED
  BY <1>1, <1>2, <1>3, <1>4, <1>5 DEF BuildInv

(* A server that stands: left alone, or Joined over a trusted session, or  *)
(* taken by a rehearsal's down.                                            *)
LEMMA ServersFilled ==
  ASSUME TypeInv, BuildInv, [Next]_vars, byHand' = byHand, NEW n \in Servers
  PROVE  \/ server'[n] = server[n]
         \/ server'[n].id = server[n].id /\ Trusted(n)
         \/ rehearsal /\ run.cmd = "down" /\ server'[n] = NoServer
<1>t. WorldOK /\ n \in Hosts /\ Exists(n) /\ byHand \in Nat
  BY DEF TypeInv, WorldOK, Servers
<1>1. ~DeleteByHand(n)
  BY <1>t DEF DeleteByHand, ByHand
<1>2. ~MadeIn(n)
  BY <1>t DEF MadeIn
<1>3. ASSUME Join, n = Due PROVE Trusted(n)
  <2>1. At("join") /\ server[Due].id = run.at
    BY <1>3 DEF Join, Step, Blocked, At
  <2> QED
    BY <1>t, <1>3, <2>1 DEF BuildInv, Trusted, At
<1>4. DeleteServer(n) => rehearsal /\ run.cmd = "down"
  BY DEF DeleteServer, At, BuildInv
<1> QED
  BY <1>t, <1>1, <1>2, <1>3, <1>4, EachServer

(* A step on the cluster or its marker: over the session on the trusted    *)
(* host of a build that is not complete.                                   *)
LEMMA HostFilled ==
  ASSUME TypeInv, PlaceInv, BuildInv, [Next]_vars, byHand' = byHand
  PROVE  /\ cp'.ca # cp.ca => \/ ~Exists(Cp)'
                              \/ Trusted(Cp) /\ cp.marker = "running"
         /\ cp'.marker # cp.marker => ~Exists(Cp) \/ ~Exists(Cp)' \/ Trusted(Cp)
<1>t. WorldOK /\ cp \in CpType /\ byHand \in Nat /\ server \in [Hosts -> ServerType]
  BY DEF TypeInv, WorldOK
<1>1. ASSUME run.step \in CpSteps, Session PROVE Trusted(Cp) /\ cp.marker = "running"
  <2>1. Exists(Cp) /\ server[Cp].ip = CpIp
    BY <1>1 DEF Session, Exists, PlaceInv
  <2> QED
    BY <1>1, <2>1 DEF BuildInv, Trusted, Session
<1>2. ASSUME ResetHalfInit \/ InitBegin \/ CompleteBuild PROVE Trusted(Cp) /\ cp.marker = "running"
  <2>1. run.step \in CpSteps /\ Session
    BY <1>2 DEF ResetHalfInit, InitBegin, CompleteBuild, Step, At, Blocked, OnHost, CpSteps
  <2> QED
    BY <1>1, <2>1
<1>3. ASSUME CreateControlPlane PROVE ~Exists(Cp) /\ cp.ca = 0 /\ cp'.ca = 0
  <2>1. ~Exists(Cp)
    BY <1>3 DEF CreateControlPlane, Step, Blocked
  <2> QED
    BY <1>3, <2>1 DEF PlaceInv, CreateControlPlane, NoCp
<1>4. ASSUME NEW n \in Hosts, DeleteServer(n) \/ DeleteByHand(n) PROVE cp' = cp \/ ~Exists(Cp)'
  BY <1>t, <1>4 DEF DeleteServer, DeleteByHand, Exists, NoServer
<1>5. ASSUME Hub \/ InitEnd \/ Services \/ ApiBack \/ ApiDown
      PROVE  cp'.ca = cp.ca /\ cp'.marker = cp.marker
  <2>1. \/ cp' = [cp EXCEPT !.hub = TRUE] \/ cp' = [cp EXCEPT !.api = "up"]
        \/ cp' = [cp EXCEPT !.seeded = TRUE] \/ cp' = [cp EXCEPT !.api = "down"]
    BY <1>5 DEF Hub, InitEnd, Services, ApiBack, ApiDown
  <2> QED
    BY <1>t, <2>1 DEF CpType
<1> QED
  BY <1>2, <1>3, <1>4, <1>5, CpMoves

LEMMA BuildInit == Init => BuildInv
BY DEF Init, BuildInv, NoRun, NoCp, CpSteps

(* Every variable keeps its type, and a host has a CA when it has an API   *)
(* server.                                                                 *)
THEOREM UpTypes == Spec => []TypeOK
<1>1. TypeInv /\ BuildInv => TypeOK
  BY TypesMeet DEF BuildInv
<1> QED
  BY <1>1, TypeInit, TypeStep, InvInit, BuildInit, IdStep, PlaceStep, BuildStep, PTL DEF Spec

(* No command but a rehearsal's down takes a server away; none changes a   *)
(* server or a Control Plane whose key is not the pinned one; and the      *)
(* cluster of a complete build is never initialised again (cp.go           *)
(* buildControlPlane, node_add.go buildWorker, cloud/down.go DeleteAll).    *)
THEOREM CommandsFillSlots == Spec => FillsSlots
<1>1. TypeInv /\ PlaceInv /\ BuildInv /\ [Next]_vars =>
        [byHand' = byHand =>
         /\ \A n \in Servers : \/ server'[n] = server[n]
                               \/ server'[n].id = server[n].id /\ Trusted(n)
                               \/ rehearsal /\ run.cmd = "down" /\ server'[n] = NoServer
         /\ cp'.ca # cp.ca => \/ ~Exists(Cp)'
                              \/ Trusted(Cp) /\ cp.marker = "running"
         /\ cp'.marker # cp.marker => \/ ~Exists(Cp) \/ ~Exists(Cp)'
                                      \/ Trusted(Cp)]_vars
  BY ServersFilled, HostFilled
<1> QED
  BY <1>1, TypeInit, TypeStep, InvInit, BuildInit, IdStep, PlaceStep, BuildStep, PTL DEF Spec, FillsSlots

-----------------------------------------------------------------------------
(* A down that ends well has cleared the project.                          *)

DownSteps == {"servers", "volume", "ip", "net", "readback", "empty", "forget", "done", "failed"}
DownInv == run.cmd = "down" =>
    /\ run.step \in DownSteps
    /\ run.quiet =>
        /\ run.step \in {"empty", "forget", "done"} => Empty
        /\ run.step \in {"forget", "done"} => ~bucket
        /\ run.step = "done" => \A a \in Addresses : pins[a] = 0

(* What a down's steps are.                                                *)
LEMMA DownMoves ==
  ASSUME RunOK, [Next]_vars, ~Starts, run.step \in DownSteps
  PROVE  \/ DeleteBalancers \/ DeleteVolume \/ DeletePrimaryIP \/ DeleteNetwork
         \/ Readback \/ EmptyBucket \/ Forget
         \/ run'.step = "failed"
         \/ run'.step = run.step /\ (Aside \/ UNCHANGED vars)
<1>t. run \in RunType
  BY DEF RunOK
<1>1. CASE Onward
  BY <1>1 DEF DownSteps, Step, At,
     Onward, Shared, Login, Hub, Initialised, InitBegin, InitEnd, Addons, ProveRoute,
     LaptopWireGuard, RestartUnit, LaptopKubeconfig, UseContext, CompleteBuild, PinControlPlane,
     Reach, Join, Services
<1>2. CASE Remembering
  <2>1. DeletePrimaryIP \/ Stop
    BY <1>2 DEF Remembering, CreateControlPlane, PinVPNAddress, PlanWorkers, PinWorker, BuildWorker,
       NodeReady, ApplyWorker, DownSteps, Step, At
  <2>2. Stop => run'.step = "failed"
    BY <1>t DEF Stop, RunType
  <2> QED
    BY <2>1, <2>2
<1>3. CASE Fails
  BY <1>t, <1>3, ToKeeps DEF Fails, Fail
<1>4. ~ResetHalfInit
  BY DEF ResetHalfInit, Step, At, DownSteps
<1>5. CASE Aside \/ UNCHANGED vars
  BY <1>t, <1>5, RunAside DEF vars, RunType
<1> QED
  BY <1>1, <1>2, <1>3, <1>4, <1>5, NextIs

(* Nothing grows in an empty project while nobody interferes.              *)
LEMMA EmptyStays ==
  ASSUME TypeInv, PlaceInv, [Next]_vars, Empty, run'.quiet, ~Starts,
         run.step \in {"readback", "empty", "forget", "done"}
  PROVE  /\ Empty' /\ bucket' \in {bucket, FALSE}
         /\ run.step = "done" => pins' = pins
<1>t. run \in RunType /\ WorldOK
  BY DEF TypeInv, RunOK
<1>q. ~Disturb
  BY <1>t DEF Disturb, RunType
<1>1. ~Exists(Cp) /\ ~cp.seeded /\ project.ip # "assigned"
  BY Constants DEF Empty, Servers, Present, PlaceInv, NoCp
<1>2. server' = server
  BY <1>q, ServerMoves DEF CreateControlPlane, Join, ApplyWorker, DeleteServer, DeleteByHand,
     CreateByHand, Step, At
<1>3. project' = project
  BY <1>q, <1>1, ProjectMoves DEF Shared, CreateControlPlane, DeleteBalancers, DeleteVolume,
     DeletePrimaryIP, DeleteNetwork, Provide, Unassign, CreateByHand, Step, At
<1>4. bucket' \in {bucket, FALSE}
  BY <1>1, BucketMoves DEF EmptyBucket, Archive
<1>5. run.step = "done" => pins' = pins
  BY PinsMove DEF PinControlPlane, PinVPNAddress, PinWorker, Forget, Step, At
<1> QED
  BY <1>2, <1>3, <1>4, <1>5 DEF Empty, Servers, Exists, Present

LEMMA DownStep == TypeInv /\ PlaceInv /\ DownInv /\ [Next]_vars => DownInv'
<1> SUFFICES ASSUME TypeInv, PlaceInv, DownInv, [Next]_vars, run'.cmd = "down" PROVE DownInv'
  BY DEF DownInv
<1>t. run \in RunType /\ RunOK /\ WorldOK
  BY DEF TypeInv, RunOK
<1>1. CASE StartDown
  <2>1. run'.step = (IF Empty THEN "empty" ELSE "servers")
    BY <1>1 DEF StartDown, NoRun
  <2>2. Empty' = Empty
    BY <1>1 DEF StartDown, cloud, Empty, Servers, Exists, Present
  <2> QED
    BY <2>1, <2>2 DEF DownInv, DownSteps
<1>2. CASE ~StartDown
  <2>0. ~Starts
    BY <1>2 DEF Starts, StartUp, StartInit, StartAdd, Begin, NoRun
  <2>1. run.cmd = "down" /\ run.step \in DownSteps /\ (run'.quiet => run.quiet)
    BY <1>t, <2>0, RunFields DEF SameRun, DownInv
  <2>2. CASE DeleteBalancers \/ DeleteVolume \/ DeletePrimaryIP \/ DeleteNetwork
    <3>1. run'.step \in {"volume", "ip", "net", "readback", "failed"}
      BY <1>t, <2>2 DEF DeleteBalancers, DeleteVolume, DeletePrimaryIP, DeleteNetwork, To, RunType
    <3> QED
      BY <3>1 DEF DownInv, DownSteps
  <2>3. CASE Readback
    <3>1. run'.step = (IF Empty THEN "empty" ELSE "failed") /\ UNCHANGED <<server, project>>
      BY <1>t, <2>3 DEF Readback, To, RunType, cloud
    <3> QED
      BY <3>1 DEF DownInv, DownSteps, Empty, Servers, Exists, Present
  <2>4. CASE EmptyBucket
    <3>1. run.step = "empty" /\ run'.step = "forget" /\ bucket' = FALSE
      BY <1>t, <2>4 DEF EmptyBucket, At, To, RunType
    <3>2. run'.quiet => Empty'
      BY <2>0, <2>1, <3>1, EmptyStays DEF DownInv
    <3> QED
      BY <3>1, <3>2 DEF DownInv, DownSteps
  <2>5. CASE Forget
    <3>1. run.step = "forget" /\ run'.step = "done" /\ bucket' = bucket
          /\ \A a \in Addresses : pins'[a] = 0
      BY <1>t, <2>5 DEF Forget, At, To, RunType
    <3>2. run'.quiet => Empty'
      BY <2>0, <2>1, <3>1, EmptyStays DEF DownInv
    <3> QED
      BY <2>1, <3>1, <3>2 DEF DownInv, DownSteps
  <2>6. CASE run'.step = "failed"
    BY <2>6 DEF DownInv, DownSteps
  <2>7. CASE run'.step = run.step /\ (Aside \/ UNCHANGED vars)
    <3>1. ASSUME run'.quiet, run.step \in {"empty", "forget", "done"}
          PROVE  Empty' /\ bucket' \in {bucket, FALSE} /\ (run.step = "done" => pins' = pins)
      BY <2>0, <2>1, <3>1, EmptyStays DEF DownInv
    <3> QED
      BY <2>1, <2>7, <3>1 DEF DownInv
  <2> QED
    BY <1>t, <2>0, <2>1, <2>2, <2>3, <2>4, <2>5, <2>6, <2>7, DownMoves
<1> QED
  BY <1>1, <1>2

(* When down ends well and nobody interfered, project, bucket and pins are *)
(* empty (cmd/commands.go downCmd: the readback decides, the bucket after). *)
THEOREM DownClears == Spec => []DownSound
<1>1. Init => DownInv
  BY DEF Init, NoRun, DownInv
<1>2. DownInv => DownSound
  BY DEF DownInv, DownSound, Cleared, At
<1> QED
  BY <1>1, <1>2, TypeInit, TypeStep, InvInit, PlaceStep, DownStep, PTL DEF Spec
-----------------------------------------------------------------------------
(* An up that ends well has brought the cluster up.                        *)

(* What a build knows of the hub, the CA and the laptop, step by step, and *)
(* what its marker says once it is complete.                               *)
CaSteps   == {"prove", "wireguard", "restart", "kubeconfig", "context", "complete"}
ConfSteps == {"restart", "kubeconfig", "context", "complete"}
LaptopInv ==
    /\ run.step \in CpSteps => cp.marker = "none" \/ Session
    /\ Session /\ run.step \in CpSteps \ {"hub"} => cp.hub
    /\ Session /\ run.step \in CaSteps => run.ca = cp.ca
    /\ run.step \in ConfSteps => laptop.conf = run.cp
    /\ run.step \in {"context", "complete"} => laptop.ca = run.ca
    /\ run.step = "complete" => rehearsal \/ laptop.current
    /\ cp.marker = "complete" => /\ cp.hub /\ laptop.conf = server[Cp].id /\ laptop.ca = cp.ca
                                 /\ rehearsal \/ laptop.current

(* How a run goes on within a build.                                       *)
LEMMA BuildMoves ==
  ASSUME RunOK, [Next]_vars, run'.step \in CpSteps
  PROVE  \/ Login /\ run'.step = "hub"
         \/ Hub /\ run'.step = "kubeadm"
         \/ Initialised /\ run'.step = "addons"
         \/ InitBegin /\ run'.step = "cut"
         \/ InitEnd /\ run'.step = "addons"
         \/ Addons /\ run'.step = "vpn"
         \/ PinVPNAddress /\ run'.step = "prove"
         \/ ProveRoute /\ run'.step = "wireguard"
         \/ LaptopWireGuard /\ run'.step \in {"restart", "kubeconfig"}
         \/ RestartUnit /\ run'.step = "kubeconfig"
         \/ LaptopKubeconfig /\ run'.step \in {"context", "complete"}
         \/ UseContext /\ run'.step = "complete"
         \/ run'.step = run.step /\ (Aside \/ ResetHalfInit \/ UNCHANGED vars)
<1>t. run \in RunType
  BY DEF RunOK
<1>s. ASSUME NEW x, To(x) PROVE run'.step = x
  BY <1>t, <1>s, ToKeeps
<1>1. ~Starts
  BY StartFields DEF CpSteps
<1>2. CASE Onward
  <2>1. ~Shared /\ ~PinControlPlane /\ ~CompleteBuild /\ ~Reach /\ ~Join /\ ~Services
    BY <1>s DEF Shared, PinControlPlane, CompleteBuild, Reach, Join, Services, CpSteps
  <2>2. /\ ~DeleteBalancers /\ ~DeleteVolume /\ ~DeleteNetwork /\ ~Readback /\ ~EmptyBucket
        /\ ~Forget
    BY <1>s DEF DeleteBalancers, DeleteVolume, DeleteNetwork, Readback, EmptyBucket, Forget, CpSteps
  <2>3. /\ Login => run'.step = "hub"
        /\ Hub => run'.step = "kubeadm"
        /\ Initialised => run'.step = "addons"
        /\ InitBegin => run'.step = "cut"
        /\ InitEnd => run'.step = "addons"
        /\ Addons => run'.step = "vpn"
        /\ ProveRoute => run'.step = "wireguard"
    BY <1>s DEF Login, Hub, Initialised, InitBegin, InitEnd, Addons, ProveRoute, CpSteps
  <2>4. /\ LaptopWireGuard => run'.step \in {"restart", "kubeconfig"}
        /\ RestartUnit => run'.step = "kubeconfig"
        /\ LaptopKubeconfig => run'.step \in {"context", "complete"}
        /\ UseContext => run'.step = "complete"
    BY <1>s DEF LaptopWireGuard, RestartUnit, LaptopKubeconfig, UseContext
  <2> QED
    BY <1>2, <2>1, <2>2, <2>3, <2>4 DEF Onward
<1>3. CASE Remembering
  <2>1. PinVPNAddress => run'.step = "prove"
    BY <1>t DEF PinVPNAddress, RunType
  <2>2. ~PinVPNAddress => run'.step \notin CpSteps
    <3>1. ASSUME ~PinVPNAddress
          PROVE  run'.step \in {"pincp", "build", "apply", "pin", "services", "done", "net",
                                "failed", "join"}
      BY <1>t, <1>3, <3>1 DEF Remembering, CreateControlPlane, PlanWorkers, PinWorker, BuildWorker,
         NodeReady, DeletePrimaryIP, To, Stop, ApplyWorker, RunType
    <3> QED
      BY <3>1 DEF CpSteps
  <2> QED
    BY <2>1, <2>2
<1>4. ~Fails
  BY <1>s DEF Fails, Fail, CpSteps
<1>5. Aside \/ ResetHalfInit \/ UNCHANGED vars => run'.step = run.step
  BY <1>t, RunAside DEF ResetHalfInit, vars, RunType
<1> QED
  BY <1>1, <1>2, <1>3, <1>4, <1>5, NextIs

(* A marker appears with a server and goes with it; only a session's build *)
(* completes it, and no cluster is initialised outside a build.            *)
LEMMA MarkerMoves ==
  ASSUME TypeInv, PlaceInv, [Next]_vars, ~CreateControlPlane
  PROVE  /\ cp' = NoCp \/ (cp'.marker = cp.marker /\ (cp.hub => cp'.hub)) \/ CompleteBuild
         /\ CompleteBuild => cp'.marker = "complete" /\ cp'.hub = cp.hub /\ cp'.ca = cp.ca
         /\ run.step # "kubeadm" => cp' = NoCp \/ cp'.ca = cp.ca
<1>t. cp \in CpType
  BY DEF TypeInv, WorldOK
<1>1. CASE Hub \/ InitEnd \/ Services \/ ApiBack \/ ApiDown
  <2>1. \/ cp' = [cp EXCEPT !.hub = TRUE] \/ cp' = [cp EXCEPT !.api = "up"]
        \/ cp' = [cp EXCEPT !.seeded = TRUE] \/ cp' = [cp EXCEPT !.api = "down"]
    BY <1>1 DEF Hub, InitEnd, Services, ApiBack, ApiDown
  <2>2. ~CompleteBuild
    BY <1>1, <1>t DEF CompleteBuild, Hub, InitEnd, Services, Step, At, ApiBack, ApiDown, CpType
  <2> QED
    BY <1>t, <2>1 DEF CpType, CompleteBuild
<1>2. CASE ResetHalfInit \/ InitBegin
  <2>1. run.step = "kubeadm"
    BY <1>2 DEF ResetHalfInit, InitBegin, Step, At
  <2>2. cp'.marker = cp.marker /\ cp'.hub = cp.hub
    BY <1>t, <1>2 DEF ResetHalfInit, InitBegin, CpType
  <2> QED
    BY <2>1, <2>2 DEF CompleteBuild, Step, At
<1>3. CASE CompleteBuild
  BY <1>t, <1>3 DEF CompleteBuild, CpType
<1>4. ASSUME NEW n \in Hosts, DeleteServer(n) \/ DeleteByHand(n) PROVE cp' \in {cp, NoCp}
  BY <1>4 DEF DeleteServer, DeleteByHand
<1>5. CASE cp' = cp \/ cp' = NoCp
  BY <1>t, <1>5 DEF CompleteBuild, CpType
<1> QED
  BY <1>1, <1>2, <1>3, <1>4, <1>5, CpMoves

LEMMA LaptopStep ==
  TypeInv /\ IdInv /\ PlaceInv /\ BuildInv /\ LaptopInv /\ [Next]_vars => LaptopInv'
<1> SUFFICES ASSUME TypeInv, IdInv, PlaceInv, BuildInv, LaptopInv, [Next]_vars PROVE LaptopInv'
  OBVIOUS
<1>t. WorldOK /\ RunOK /\ IntentOK /\ run \in RunType /\ server \in [Hosts -> ServerType]
      /\ made \in Nat /\ cp \in CpType /\ laptop \in LaptopType
  BY DEF TypeInv, WorldOK, RunOK
<1>n. NoCp.marker = "none" /\ rehearsal' = rehearsal
  BY <1>t, IntentStep DEF NoCp
<1>l. laptop' # laptop => run.step \in {"wireguard", "restart", "kubeconfig", "context"}
  BY LaptopMoves DEF LaptopWireGuard, RestartUnit, LaptopKubeconfig, UseContext, Step, At
<1>b. ASSUME run'.step \in CpSteps, ~Login
      PROVE  /\ run.step \in CpSteps /\ ~CompleteBuild /\ ~CreateControlPlane
             /\ run'.cp = run.cp /\ (run'.ca = run.ca \/ PinVPNAddress)
  <2>1. run.step \in CpSteps /\ ~CompleteBuild
    BY <1>t, <1>b, Into
  <2>2. ~Starts
    BY <1>b, StartFields DEF CpSteps
  <2>3. ~CreateControlPlane
    BY <2>1 DEF CreateControlPlane, Step, At, CpSteps
  <2> QED
    BY <1>t, <2>1, <2>2, <2>3, RunFields DEF SameRun
<1>i. ASSUME Login
      PROVE  Session /\ Session' /\ UNCHANGED <<server, cp, laptop>> /\ run'.cp = run.cp
             /\ (run'.step \in CpSteps => run'.step = "hub")
  <2>1. Session /\ UNCHANGED <<server, cp, laptop>>
    BY <1>i DEF Login, Step, At, Blocked, OnHost, cloud, host
  <2>2. ~CreateControlPlane /\ SameRun /\ run'.step \in {"hub", "reach", "done"}
    BY <1>t, <1>i, ToKeeps DEF Login, CreateControlPlane, Step, At
  <2> QED
    BY <2>1, <2>2 DEF SameRun, Session, CpSteps
<1>1. run'.step \in CpSteps => cp'.marker = "none" \/ Session'
  <2>1. CASE Login
    BY <2>1, <1>i
  <2>2. ASSUME run'.step \in CpSteps, ~Login, cp.marker = "none" PROVE cp'.marker = "none"
    BY <1>b, <1>n, <2>2, MarkerMoves
  <2>3. ASSUME run'.step \in CpSteps, ~Login, Session PROVE cp'.marker = "none" \/ Session'
    <3>1. run'.cp = run.cp /\ Exists(Cp)
      BY <1>b, <2>3 DEF Session, Exists
    <3>2. CASE server'[Cp].id = server[Cp].id
      BY <2>3, <3>1, <3>2 DEF Session
    <3>3. CASE DeleteServer(Cp) \/ DeleteByHand(Cp)
      BY <1>n, <3>3 DEF DeleteServer, DeleteByHand
    <3> QED
      BY <1>t, <3>1, <3>2, <3>3, EachServer, Constants DEF MadeIn
  <2> QED
    BY <1>b, <2>1, <2>2, <2>3 DEF LaptopInv
<1>s. ASSUME run'.step \in CpSteps, Session', ~Login
      PROVE  Session /\ cp' # NoCp
  <2>1. Session /\ cp.marker = "running"
    BY <1>s, <1>b, SessionKept DEF BuildInv
  <2>2. ~DeleteServer(Cp) /\ ~DeleteByHand(Cp)
    BY <1>s, <1>b, SessionKept
  <2>3. ASSUME NEW n \in Hosts, DeleteServer(n) \/ DeleteByHand(n) PROVE cp' = cp
    BY <2>2, <2>3 DEF DeleteServer, DeleteByHand
  <2>4. cp'.marker = cp.marker
    <3>1. Hub \/ ResetHalfInit \/ InitBegin \/ InitEnd \/ Services => cp'.marker = cp.marker
      BY <1>t DEF Hub, ResetHalfInit, InitBegin, InitEnd, Services, CpType
    <3>2. ApiBack \/ ApiDown => cp'.marker = cp.marker
      BY <1>t DEF ApiBack, ApiDown, CpType
    <3> QED
      BY <1>s, <1>b, <2>3, <3>1, <3>2, CpMoves
  <2> QED
    BY <1>n, <2>1, <2>4
<1>2. ASSUME Session', run'.step \in CpSteps \ {"hub"} PROVE cp'.hub
  <2>0. ~Login /\ run.step \in CpSteps
    BY <1>2, <1>i, <1>b
  <2>1. CASE Hub
    BY <1>t, <2>1 DEF Hub, CpType
  <2>2. CASE run.step # "hub"
    BY <1>2, <1>b, <1>s, <2>0, <2>2, MarkerMoves DEF LaptopInv
  <2> QED
    BY <1>t, <1>2, <2>0, <2>1, <2>2, BuildMoves DEF Initialised, InitBegin, InitEnd, Addons,
       PinVPNAddress, ProveRoute, LaptopWireGuard, RestartUnit, LaptopKubeconfig, UseContext, Step, At
<1>3. ASSUME Session', run'.step \in CaSteps PROVE run'.ca = cp'.ca
  <2>0. ~Login /\ run.step \in CpSteps /\ run'.step \in CpSteps
    BY <1>3, <1>i, <1>b DEF CaSteps, CpSteps
  <2>1. CASE PinVPNAddress
    BY <1>t, <2>1 DEF PinVPNAddress, host, RunType
  <2>2. CASE run.step \in CaSteps
    <3>1. run'.ca = run.ca
      BY <1>b, <2>0, <2>2 DEF PinVPNAddress, Step, At, CaSteps
    <3>2. cp'.ca = cp.ca
      BY <1>3, <1>b, <1>s, <2>0, <2>2, MarkerMoves DEF CaSteps
    <3> QED
      BY <1>3, <1>s, <2>0, <2>2, <3>1, <3>2 DEF LaptopInv
  <2> QED
    BY <1>t, <1>3, <2>0, <2>1, <2>2, BuildMoves DEF CaSteps, ProveRoute, LaptopWireGuard,
       RestartUnit, LaptopKubeconfig, UseContext, Step, At
<1>4. ASSUME run'.step \in ConfSteps PROVE laptop'.conf = run'.cp
  <2>0. ~Login /\ run'.step \in CpSteps /\ run'.cp = run.cp
    BY <1>4, <1>i, <1>b DEF ConfSteps, CpSteps
  <2>1. CASE LaptopWireGuard
    BY <1>t, <2>0, <2>1 DEF LaptopWireGuard, LaptopType
  <2>2. CASE run.step \in ConfSteps
    <3>1. laptop.conf = run.cp
      BY <2>2 DEF LaptopInv
    <3>2. RestartUnit \/ LaptopKubeconfig \/ UseContext => laptop'.conf = laptop.conf
      BY <1>t DEF RestartUnit, LaptopKubeconfig, UseContext, LaptopType
    <3> QED
      BY <2>0, <2>1, <3>1, <3>2, LaptopMoves
  <2> QED
    BY <1>t, <1>4, <2>0, <2>1, <2>2, BuildMoves DEF ConfSteps, RestartUnit, LaptopKubeconfig,
       UseContext, Step, At
<1>5. ASSUME run'.step \in {"context", "complete"} PROVE laptop'.ca = run'.ca
  <2>0. ~Login /\ run'.step \in CpSteps /\ (run'.ca = run.ca \/ PinVPNAddress)
    BY <1>5, <1>i, <1>b DEF CpSteps
  <2>1. CASE LaptopKubeconfig
    BY <1>t, <2>0, <2>1 DEF LaptopKubeconfig, LaptopType, PinVPNAddress, Step, At
  <2>2. CASE run.step \in {"context", "complete"}
    <3>1. run'.ca = run.ca /\ laptop.ca = run.ca
      BY <2>0, <2>2 DEF LaptopInv, PinVPNAddress, Step, At
    <3>2. UseContext => laptop'.ca = laptop.ca
      BY <1>t DEF UseContext, LaptopType
    <3>3. ~LaptopWireGuard /\ ~RestartUnit
      BY <2>2 DEF LaptopWireGuard, RestartUnit, Step, At
    <3> QED
      BY <2>1, <3>1, <3>2, <3>3, LaptopMoves
  <2> QED
    BY <1>t, <1>5, <2>0, <2>1, <2>2, BuildMoves DEF UseContext, Step, At
<1>6. ASSUME run'.step = "complete" PROVE rehearsal' \/ laptop'.current
  <2>0. ~Login /\ run'.step \in CpSteps
    BY <1>6, <1>i DEF CpSteps
  <2>1. CASE LaptopKubeconfig
    <3>1. rehearsal \/ laptop.current
      BY <1>t, <1>6, <2>1, ToKeeps DEF LaptopKubeconfig
    <3> QED
      BY <1>t, <1>n, <2>1, <3>1 DEF LaptopKubeconfig, LaptopType
  <2>2. CASE UseContext
    BY <1>t, <2>2 DEF UseContext, LaptopType
  <2>3. CASE run.step = "complete"
    <3>1. laptop' = laptop
      BY <1>l, <2>3
    <3> QED
      BY <1>n, <2>3, <3>1 DEF LaptopInv
  <2> QED
    BY <1>t, <1>6, <2>0, <2>1, <2>2, <2>3, BuildMoves
<1>7. ASSUME cp'.marker = "complete"
      PROVE  /\ cp'.hub /\ laptop'.conf = server'[Cp].id /\ laptop'.ca = cp'.ca
             /\ rehearsal' \/ laptop'.current
  <2>0. ~CreateControlPlane /\ cp' # NoCp
    BY <1>t, <1>n, <1>7 DEF CreateControlPlane, CpType, NoCp
  <2>1. CASE CompleteBuild
    <3>1. Session /\ run.step = "complete" /\ UNCHANGED <<server, laptop>>
      BY <2>1 DEF CompleteBuild, Step, At, Blocked, OnHost, cloud
    <3>2. cp'.hub = cp.hub /\ cp'.ca = cp.ca
      BY <2>0, <2>1, MarkerMoves
    <3>3. run.step \in CpSteps \ {"hub"} /\ run.step \in CaSteps /\ run.step \in ConfSteps
      BY <3>1 DEF CpSteps, CaSteps, ConfSteps
    <3>4. cp.hub /\ run.ca = cp.ca /\ laptop.conf = run.cp /\ laptop.ca = run.ca
          /\ (rehearsal \/ laptop.current)
      BY <3>1, <3>3 DEF LaptopInv
    <3> QED
      BY <1>n, <3>1, <3>2, <3>4 DEF Session
  <2>2. CASE ~CompleteBuild
    <3>1. cp.marker = "complete" /\ cp'.hub
      BY <1>7, <2>0, <2>2, MarkerMoves DEF LaptopInv
    <3>2. run.step \notin CpSteps
      BY <3>1 DEF LaptopInv, BuildInv
    <3>3. laptop' = laptop
      BY <1>l, <3>2 DEF CpSteps
    <3>4. cp'.ca = cp.ca
      BY <2>0, <3>2, MarkerMoves DEF CpSteps
    <3>5. server'[Cp].id = server[Cp].id
      <4>1. Exists(Cp)
        BY <1>n, <3>1 DEF PlaceInv
      <4>2. ~DeleteServer(Cp) /\ ~DeleteByHand(Cp)
        BY <2>0 DEF DeleteServer, DeleteByHand
      <4> QED
        BY <1>t, <4>1, <4>2, EachServer, Constants DEF MadeIn
    <3> QED
      BY <1>n, <3>1, <3>3, <3>4, <3>5 DEF LaptopInv
  <2> QED
    BY <2>1, <2>2
<1> QED
  BY <1>1, <1>2, <1>3, <1>4, <1>5, <1>6, <1>7 DEF LaptopInv

(* What a run of up nobody interfered with knows.                          *)
Early == CpSteps \cup {"shared", "create", "pincp", "login"}
Late  == {"reach", "workers", "apply", "pin", "build", "join", "ready", "services", "done"}
UpInv == run.cmd = "up" /\ run.quiet =>
    /\ run.step \in Early \cup Late \cup {"idle", "failed"}
    /\ Servers \subseteq declared \cup {Cp}
    /\ run.todo \subseteq declared /\ run.new \subseteq declared
    /\ run.step \in Early => run.todo = declared
    /\ run.step \in Late =>
        /\ Session /\ cp.marker = "complete" /\ Trusted(Cp)
        /\ \A w \in declared \ run.todo : ReadyIn(w) /\ Trusted(w)
    /\ run.step \in {"join", "ready"} => Trusted(Due)
    /\ run.step \in {"services", "done"} => run.todo = {}
    /\ run.step = "done" => cp.seeded /\ (rehearsal \/ laptop.wire = server[Cp].id)

(* How up goes on.                                                         *)
LEMMA UpMoves ==
  ASSUME RunOK, [Next]_vars, ~Starts, run.step \in Early \cup Late \cup {"idle", "failed"}
  PROVE  \/ run'.step = "failed"
         \/ run.step \in Early /\ run'.step \in Early
         \/ Login \/ CompleteBuild
         \/ Reach /\ run'.step = "workers"
         \/ PlanWorkers /\ run'.step \in {"build", "apply"}
         \/ (\E w \in Workers, ip \in Pool : ApplyWorker(w, ip)) /\ run'.step \in {"apply", "pin"}
         \/ PinWorker /\ run'.step \in {"build", "pin"}
         \/ BuildWorker /\ run'.step = "join"
         \/ Join /\ run'.step = "ready"
         \/ NodeReady /\ run'.step \in {"build", "services", "done"}
         \/ Services /\ run'.step = "done"
         \/ run'.step = run.step /\ (Aside \/ UNCHANGED vars)
<1>t. run \in RunType
  BY DEF RunOK
<1>s. ASSUME NEW x, To(x) PROVE run'.step = x
  BY <1>t, <1>s, ToKeeps
<1>1. CASE Onward
  <2>1. CASE Shared \/ PinControlPlane \/ Hub \/ Initialised \/ InitBegin \/ InitEnd \/ Addons \/ ProveRoute
    <3>1. run.step \in {"shared", "pincp", "hub", "kubeadm", "cut", "addons", "prove"}
      BY <2>1 DEF Shared, PinControlPlane, Hub, Initialised, InitBegin, InitEnd, Addons, ProveRoute, Step, At
    <3>2. run'.step \in {"create", "login", "kubeadm", "addons", "cut", "vpn", "wireguard"}
      BY <1>s, <2>1 DEF Shared, PinControlPlane, Hub, Initialised, InitBegin, InitEnd, Addons, ProveRoute
    <3> QED
      BY <3>1, <3>2 DEF Early, CpSteps
  <2>2. CASE LaptopWireGuard \/ RestartUnit \/ LaptopKubeconfig \/ UseContext
    <3>1. run.step \in {"wireguard", "restart", "kubeconfig", "context"}
      BY <2>2 DEF LaptopWireGuard, RestartUnit, LaptopKubeconfig, UseContext, Step, At
    <3>2. run'.step \in {"restart", "kubeconfig", "context", "complete"}
      BY <1>s, <2>2 DEF LaptopWireGuard, RestartUnit, LaptopKubeconfig, UseContext
    <3> QED
      BY <3>1, <3>2 DEF Early, CpSteps
  <2>3. /\ Reach => run'.step = "workers"
        /\ Join => run'.step = "ready"
        /\ Services => run'.step = "done"
    BY <1>s DEF Reach, Join, Services
  <2>4. /\ ~DeleteBalancers /\ ~DeleteVolume /\ ~DeleteNetwork /\ ~Readback /\ ~EmptyBucket
        /\ ~Forget
    BY DEF DeleteBalancers, DeleteVolume, DeleteNetwork, Readback, EmptyBucket, Forget, At,
       Early, Late, CpSteps
  <2> QED
    BY <1>1, <2>1, <2>2, <2>3, <2>4 DEF Onward
<1>2. CASE Remembering
  <2>1. CASE CreateControlPlane
    <3>1. run.step = "create" /\ run'.step = "pincp"
      BY <1>t, <2>1 DEF CreateControlPlane, Step, At, RunType
    <3> QED
      BY <3>1 DEF Early
  <2>2. CASE PinVPNAddress
    <3>1. run.step = "vpn" /\ run'.step = "prove"
      BY <1>t, <2>2 DEF PinVPNAddress, Step, At, RunType
    <3> QED
      BY <3>1 DEF Early, CpSteps
  <2>3. ~DeletePrimaryIP
    BY DEF DeletePrimaryIP, At, Early, Late, CpSteps
  <2>4. Stop => run'.step = "failed"
    BY <1>t DEF Stop, RunType
  <2>5. /\ PlanWorkers => run'.step \in {"build", "apply"}
        /\ PinWorker => run'.step \in {"build", "pin"}
        /\ BuildWorker => run'.step = "join"
        /\ NodeReady => run'.step \in {"build", "services", "done"}
    BY <1>t DEF PlanWorkers, PinWorker, BuildWorker, NodeReady, RunType
  <2>6. (\E w \in Workers, ip \in Pool : ApplyWorker(w, ip)) => run'.step \in {"apply", "pin"}
    BY <1>t DEF ApplyWorker, RunType
  <2> QED
    BY <1>2, <2>1, <2>2, <2>3, <2>4, <2>5, <2>6 DEF Remembering
<1>3. Fails => run'.step = "failed"
  BY <1>s DEF Fails, Fail
<1>4. CASE ResetHalfInit
  <2>1. run.step = "kubeadm" /\ run'.step = "kubeadm"
    BY <1>4 DEF ResetHalfInit, Step, At
  <2> QED
    BY <2>1 DEF Early, CpSteps
<1>5. Aside \/ UNCHANGED vars => run'.step = run.step
  BY <1>t, RunAside DEF vars, RunType
<1> QED
  BY <1>1, <1>2, <1>3, <1>4, <1>5, NextIs

(* A step of an up that nobody interferes with: servers are only added.    *)
LEMMA QuietUp ==
  ASSUME TypeInv, IdInv, PlaceInv, ForgetInv, BuildInv, UpInv, [Next]_vars, ~Starts,
         run'.cmd = "up", run'.quiet
  PROVE  /\ run.cmd = "up" /\ run.quiet
         /\ \A n \in Hosts : ~DeleteServer(n) /\ ~DeleteByHand(n)
         /\ \A n \in Hosts : Exists(n) => /\ server'[n].id = server[n].id
                                          /\ Exists(n)'
                                          /\ Trusted(n) => Trusted(n)'
         /\ \A n \in Servers' : n \in Servers \/ n = Cp \/ n \in run.new
<1>t. WorldOK /\ RunOK /\ run \in RunType /\ server \in [Hosts -> ServerType]
  BY DEF TypeInv, RunOK, WorldOK
<1>1. run.cmd = "up" /\ run.quiet
  BY <1>t, RunFields DEF SameRun
<1>2. ~Disturb
  BY <1>t DEF Disturb, RunType
<1>3. ASSUME NEW n \in Hosts PROVE ~DeleteServer(n) /\ ~DeleteByHand(n)
  BY <1>1, <1>2 DEF DeleteServer, DeleteByHand, At, BuildInv
<1>4. ASSUME NEW n \in Hosts, Exists(n)
      PROVE  server'[n].id = server[n].id /\ Exists(n)' /\ (Trusted(n) => Trusted(n)')
  <2>1. server'[n].id = server[n].id
    BY <1>t, <1>3, <1>4, EachServer DEF MadeIn
  <2> QED
    BY <1>4, <2>1, KeptStep DEF Exists
<1>5. ASSUME NEW n \in Servers' PROVE n \in Servers \/ n = Cp \/ n \in run.new
  <2>0. n \in Hosts /\ Exists(n)'
    BY DEF Servers
  <2>1. ASSUME NEW w \in Workers, NEW ip \in Pool, ApplyWorker(w, ip), n # w PROVE server'[n] = server[n]
    BY <1>t, <2>0, <2>1 DEF ApplyWorker, Create
  <2>2. ASSUME NEW m \in Hosts, NEW ip \in Addresses PROVE ~CreateByHand(m, ip)
    BY <1>2 DEF CreateByHand
  <2>3. CreateControlPlane /\ n # Cp => server'[n] = server[n]
    BY <1>t, <2>0, Constants DEF CreateControlPlane, Create
  <2>4. Join => server'[n].id = server[n].id
    BY <1>t, <2>0 DEF Join, ServerType
  <2>5. server'[n].id = server[n].id => n \in Servers
    BY <2>0 DEF Servers, Exists
  <2>6. ASSUME NEW w \in Workers, NEW ip \in Pool, ApplyWorker(w, ip) PROVE w \in run.new
    BY <2>6 DEF ApplyWorker
  <2> QED
    BY <1>3, <2>1, <2>2, <2>3, <2>4, <2>5, <2>6, ServerMoves
<1> QED
  BY <1>1, <1>3, <1>4, <1>5

(* Late in up, the Control Plane stays as it is.                           *)
LEMMA LateCp ==
  ASSUME TypeInv, [Next]_vars, run.step \in Late, cp.marker = "complete",
         \A n \in Hosts : ~DeleteServer(n) /\ ~DeleteByHand(n)
  PROVE  cp'.marker = "complete" /\ cp'.ca = cp.ca /\ (cp.seeded => cp'.seeded)
<1>t. cp \in CpType
  BY DEF TypeInv, WorldOK
<1>1. /\ ~CreateControlPlane /\ ~Hub /\ ~ResetHalfInit /\ ~InitBegin /\ ~InitEnd
      /\ ~CompleteBuild
  BY DEF CreateControlPlane, Hub, ResetHalfInit, InitBegin, InitEnd, CompleteBuild, Step, At, Late
<1>2. Services => cp'.marker = cp.marker /\ cp'.ca = cp.ca /\ cp'.seeded
  BY <1>t DEF Services, CpType
<1>3. ApiBack \/ ApiDown => cp'.marker = cp.marker /\ cp'.ca = cp.ca /\ cp'.seeded = cp.seeded
  BY <1>t DEF ApiBack, ApiDown, CpType
<1> QED
  BY <1>1, <1>2, <1>3, CpMoves

(* A Worker that is ready stays ready.                                     *)
LEMMA LateWorker ==
  ASSUME TypeInv, [Next]_vars, run.step \in Late,
         \A n \in Hosts : ~DeleteServer(n) /\ ~DeleteByHand(n),
         NEW w \in Workers, ReadyIn(w), cp'.ca = cp.ca, server'[w].id = server[w].id
  PROVE  ReadyIn(w)'
<1>t. WorldOK /\ server \in [Hosts -> ServerType] /\ nodes \in [Workers -> Nat] /\ w \in Hosts
      /\ cp.ca \in Nat
  BY Constants DEF TypeInv, WorldOK, CpType
<1>r. server[w].id # 0 /\ nodes[w] = server[w].id /\ cp.ca # 0 /\ server[w].joined = cp.ca
  BY DEF ReadyIn, Exists
<1>1. server'[w].joined = server[w].joined
  <2>1. Join => server'[w].joined = server[w].joined
    BY <1>t, <1>r DEF Join, ServerType
  <2>2. ~MadeIn(w) /\ server'[w] # NoServer
    BY <1>r DEF MadeIn, Exists, NoServer
  <2> QED
    BY <1>t, <2>1, <2>2, EachServer
<1>2. nodes'[w] = nodes[w]
  <2>1. ~ResetHalfInit
    BY DEF ResetHalfInit, Step, At, Late
  <2>2. ASSUME NEW v \in Workers, Register(v) \/ ForgetNode(v) PROVE nodes'[w] = nodes[w]
    <3>1. v # w
      BY <1>r, <2>2 DEF Register, ForgetNode
    <3> QED
      BY <1>t, <2>2, <3>1 DEF Register, ForgetNode
  <2> QED
    BY <2>1, <2>2, NodesMove
<1> QED
  BY <1>r, <1>1, <1>2 DEF ReadyIn, Exists

(* An up begins with nothing undeclared in the project.                    *)
LEMMA UpBegins == ASSUME IntentOK, WorldOK, Starts, run'.cmd = "up" PROVE UpInv'
<1>1. CASE StartUp
  <2>1. run' = [NoRun EXCEPT !.cmd = "up", !.step = "shared", !.cp = server[Cp].id,
                             !.have = Servers \cap Workers, !.todo = declared]
        /\ UNCHANGED <<server, declared, rehearsal>>
    BY <1>1 DEF StartUp, Begin, intent, cloud
  <2>2. run'.step = "shared" /\ run'.todo = declared /\ run'.new = {}
    BY <2>1 DEF NoRun
  <2>3. Servers' = Servers /\ Servers \subseteq declared \cup {Cp}
    BY <1>1, <2>1 DEF StartUp, Preflight, Sorted, Servers, Exists
  <2> QED
    BY <2>1, <2>2, <2>3 DEF UpInv, Early, Late
<1>2. ~StartInit
  BY DEF StartInit, Begin, NoRun
<1>3. ASSUME NEW w \in Workers PROVE ~StartAdd(w)
  BY DEF StartAdd, Begin, NoRun
<1>4. ~StartDown
  BY DEF StartDown, NoRun
<1> QED
  BY <1>1, <1>2, <1>3, <1>4 DEF Starts

LEMMA UpStep ==
  TypeInv /\ IdInv /\ PlaceInv /\ ForgetInv /\ BuildInv /\ UpInv /\ [Next]_vars => UpInv'
<1> SUFFICES ASSUME TypeInv, IdInv, PlaceInv, ForgetInv, BuildInv, UpInv, [Next]_vars,
                    run'.cmd = "up", run'.quiet, ~Starts
             PROVE  UpInv'
  BY UpBegins DEF TypeInv, UpInv
<1>t. WorldOK /\ RunOK /\ IntentOK /\ run \in RunType /\ cp \in CpType /\ laptop \in LaptopType
      /\ declared \in SUBSET Workers
  BY DEF TypeInv, WorldOK, RunOK, IntentOK
<1>d. declared' = declared /\ rehearsal' = rehearsal
  BY <1>t, IntentStep
<1>q. /\ run.cmd = "up" /\ run.quiet
      /\ \A n \in Hosts : ~DeleteServer(n) /\ ~DeleteByHand(n)
      /\ \A n \in Hosts : Exists(n) => /\ server'[n].id = server[n].id
                                       /\ Exists(n)'
                                       /\ Trusted(n) => Trusted(n)'
      /\ \A n \in Servers' : n \in Servers \/ n = Cp \/ n \in run.new
  BY QuietUp
<1>u. /\ run.step \in Early \cup Late \cup {"idle", "failed"}
      /\ Servers \subseteq declared \cup {Cp}
      /\ run.todo \subseteq declared /\ run.new \subseteq declared
      /\ run.step \in Early => run.todo = declared
  BY <1>q DEF UpInv
<1>l. run.step \in Late =>
        /\ Session /\ cp.marker = "complete" /\ Trusted(Cp)
        /\ \A w \in declared \ run.todo : ReadyIn(w) /\ Trusted(w)
  BY <1>q DEF UpInv
<1>e. /\ run.step \in {"join", "ready"} => Trusted(Due)
      /\ run.step \in {"services", "done"} => run.todo = {}
      /\ run.step = "done" => cp.seeded /\ (rehearsal \/ laptop.wire = server[Cp].id)
  BY <1>q DEF UpInv
<1>f. SameRun
  BY <1>t, RunFields
<1>due. run.step \in Working => run.todo # {} /\ Due \in declared /\ Due \in Hosts
  <2>1. run.step \in Working => run.todo # {}
    BY <1>t, <1>q DEF RunOK, StepInv, Working, Rest
  <2> QED
    BY <1>t, <1>u, <2>1, FirstIn, Constants DEF Due
<1>log. ASSUME Login
        PROVE  /\ Session /\ Trusted(Cp) /\ run.step = "login"
               /\ run'.step = IF cp.marker = "running" THEN "hub" ELSE "reach"
               /\ run'.step # "hub" => cp.marker = "complete"
               /\ run'.todo = run.todo /\ UNCHANGED <<server, cp, laptop>>
  <2>1. Session /\ Dials(Cp) /\ cp.marker # "none" /\ run.step = "login"
        /\ UNCHANGED <<server, cp, laptop>>
    BY <1>log DEF Login, Step, At, Blocked, OnHost, cloud, host
  <2>2. run'.step = IF cp.marker = "running" THEN "hub" ELSE "reach"
    BY <1>t, <1>q, <1>log, ToKeeps DEF Login
  <2>3. run'.todo = run.todo
    BY <1>f, <2>1 DEF SameRun, NodeReady, Step, At
  <2> QED
    BY <1>t, <2>1, <2>2, <2>3 DEF Dials, CpType
<1>com. ASSUME CompleteBuild
        PROVE  /\ Session /\ Trusted(Cp) /\ run.step = "complete" /\ run'.step = "reach"
               /\ cp'.marker = "complete" /\ run'.todo = run.todo
  <2>1. Session /\ run.step = "complete"
    BY <1>com DEF CompleteBuild, Step, At, Blocked, OnHost
  <2>2. run'.step = "reach"
    BY <1>t, <1>q, <1>com, ToKeeps DEF CompleteBuild
  <2>3. run'.todo = run.todo
    BY <1>f, <2>1 DEF SameRun, NodeReady, Step, At
  <2>4. pins[CpIp] = run.cp
    BY <2>1 DEF BuildInv, CpSteps
  <2>5. Exists(Cp) /\ server[Cp].ip = CpIp
    BY <2>1 DEF Session, Exists, PlaceInv
  <2>6. cp'.marker = "complete"
    BY <1>t, <1>com DEF CompleteBuild, CpType
  <2> QED
    BY <2>1, <2>2, <2>3, <2>4, <2>5, <2>6 DEF Session, Trusted
<1>rdy. ASSUME NodeReady
        PROVE  /\ run.step = "ready" /\ ReadyIn(Due) /\ run'.todo = run.todo \ {Due}
               /\ run'.step = IF run.todo # {Due} THEN "build" ELSE "services"
  <2>1. run.step = "ready" /\ ReadyIn(Due)
        /\ run' = [run EXCEPT !.todo = @ \ {Due},
                              !.step = IF run.todo # {Due} THEN "build" ELSE "services"]
    BY <1>q, <1>rdy DEF NodeReady, Step, At, DueReady
  <2> QED
    BY <1>t, <2>1 DEF RunType
<1>todo. ~NodeReady => run'.todo = run.todo /\ Due' = Due
  BY <1>f DEF SameRun, Due
<1>mov. \/ run'.step = "failed"
        \/ run.step \in Early /\ run'.step \in Early
        \/ Login \/ CompleteBuild
        \/ run.step \in Late /\ run'.step \in Late
        \/ run'.step = run.step
  <2>1. Reach \/ PlanWorkers \/ (\E w \in Workers, ip \in Pool : ApplyWorker(w, ip)) \/ PinWorker
        \/ BuildWorker \/ Join \/ NodeReady \/ Services => run.step \in Late
    BY DEF Reach, PlanWorkers, ApplyWorker, PinWorker, BuildWorker, Join, NodeReady, Services,
           Step, At, Late
  <2> QED
    BY <1>t, <1>u, <2>1, UpMoves DEF Late
<1>1. run'.step \in Early \cup Late \cup {"idle", "failed"}
  BY <1>u, <1>mov, <1>log, <1>com DEF Early, Late, CpSteps
<1>2. Servers' \subseteq declared' \cup {Cp}
  BY <1>q, <1>u, <1>d
<1>3. run'.todo \subseteq declared' /\ run'.new \subseteq declared'
  <2>1. run'.todo \subseteq run.todo
    BY <1>rdy, <1>todo
  <2>2. PlanWorkers => run'.new \subseteq run.todo
    BY <1>t DEF PlanWorkers, RunType, Missing
  <2>3. ASSUME NEW w \in Workers, NEW ip \in Pool, ApplyWorker(w, ip) PROVE run'.new \subseteq run.new
    BY <1>t, <2>3 DEF ApplyWorker, RunType
  <2> QED
    BY <1>d, <1>u, <1>f, <2>1, <2>2, <2>3 DEF SameRun
<1>4. ASSUME run'.step \in Early PROVE run'.todo = declared'
  <2>1. run.step \in Early
    BY <1>4, <1>mov, <1>log, <1>com DEF Early, Late, CpSteps
  <2>2. ~NodeReady
    BY <2>1 DEF NodeReady, Step, At, Early, CpSteps
  <2> QED
    BY <1>d, <1>u, <1>todo, <2>1, <2>2
<1>5. ASSUME run'.step \in Late
      PROVE  /\ Session' /\ cp'.marker = "complete" /\ Trusted(Cp)'
             /\ \A w \in declared' \ run'.todo : ReadyIn(w)' /\ Trusted(w)'
  <2>s. ASSUME Session, ~CreateControlPlane PROVE Session'
    <3>1. Exists(Cp) /\ run'.cp = run.cp
      BY <1>f, <2>s DEF SameRun, Session, Exists
    <3> QED
      BY <1>q, <2>s, <3>1, Constants DEF Session
  <2>1. CASE Login
    <3>1. run'.todo = declared /\ cp.marker = "complete" /\ Session /\ Trusted(Cp)
      BY <1>5, <1>u, <1>log, <2>1 DEF Late, Early
    <3>2. ~CreateControlPlane /\ Exists(Cp)
      BY <1>log, <2>1, <3>1 DEF CreateControlPlane, Step, At, Trusted
    <3> QED
      BY <1>d, <1>q, <1>log, <2>1, <2>s, <3>1, <3>2, Constants
  <2>2. CASE CompleteBuild
    <3>1. run'.todo = declared /\ cp'.marker = "complete" /\ Session /\ Trusted(Cp)
      BY <1>u, <1>com, <2>2 DEF Early, CpSteps
    <3>2. ~CreateControlPlane /\ Exists(Cp)
      BY <1>com, <2>2, <3>1 DEF CreateControlPlane, Step, At, Trusted
    <3> QED
      BY <1>d, <1>q, <2>s, <3>1, <3>2, Constants
  <2>3. CASE run.step \in Late
    <3>1. Session /\ cp.marker = "complete" /\ Trusted(Cp) /\ ~CreateControlPlane
      BY <1>l, <2>3 DEF CreateControlPlane, Step, At, Late
    <3>2. cp'.marker = "complete" /\ cp'.ca = cp.ca
      BY <1>q, <2>3, <3>1, LateCp
    <3>3. Session' /\ Trusted(Cp)'
      BY <1>q, <2>s, <3>1, Constants DEF Trusted
    <3>4. ASSUME NEW w \in declared \ run'.todo PROVE ReadyIn(w)' /\ Trusted(w)'
      <4>1. ReadyIn(w) /\ Trusted(w)
        BY <1>l, <1>e, <1>rdy, <1>todo, <2>3, <3>4
      <4>2. w \in Workers /\ w \in Hosts /\ Exists(w)
        BY <1>t, <4>1, Constants DEF ReadyIn
      <4> QED
        BY <1>q, <2>3, <3>2, <4>1, <4>2, LateWorker
    <3> QED
      BY <1>d, <3>2, <3>3, <3>4
  <2> QED
    BY <1>5, <1>mov, <2>1, <2>2, <2>3 DEF Early, Late, CpSteps
<1>6. ASSUME run'.step \in {"join", "ready"} PROVE Trusted(Due)'
  <2>0. ~NodeReady
    BY <1>6, <1>rdy
  <2>1. Trusted(Due) /\ run.step \in Working
    <3>1. BuildWorker => Dials(Due) /\ run.step = "build"
      BY DEF BuildWorker, Step, At, Blocked
    <3>2. Join => run.step = "join"
      BY DEF Join, Step, At
    <3> QED
      BY <1>t, <1>u, <1>e, <1>6, <1>log, <1>com, <2>0, <3>1, <3>2, UpMoves
         DEF Dials, Working, Early, CpSteps
  <2>2. Trusted(Due) /\ Due \in Hosts /\ Due' = Due
    BY <1>due, <1>todo, <2>0, <2>1
  <2>3. ASSUME NEW n \in Hosts, Trusted(n) PROVE Trusted(n)'
    BY <1>q, <2>3 DEF Trusted
  <2>4. PICK n \in Hosts : n = Due
    BY <2>2
  <2>5. Trusted(n)'
    BY <2>2, <2>3, <2>4
  <2> QED
    BY <2>2, <2>4, <2>5 DEF Trusted, Exists
<1>7. ASSUME run'.step \in {"services", "done"} PROVE run'.todo = {}
  <2>1. NodeReady => run'.todo = {}
    BY <1>7, <1>rdy
  <2>2. Services => run.step = "services"
    BY DEF Services, Step, At
  <2> QED
    BY <1>t, <1>u, <1>e, <1>7, <1>log, <1>com, <1>todo, <2>1, <2>2, UpMoves DEF Early, CpSteps
<1>8. ASSUME run'.step = "done" PROVE cp'.seeded /\ (rehearsal' \/ laptop'.wire = server'[Cp].id)
  <2>1. CASE Services
    <3>1. Reaches /\ cp'.seeded /\ UNCHANGED <<server, laptop, rehearsal>>
      BY <1>t, <2>1 DEF Services, Step, At, Blocked, CpType, intent, cloud
    <3> QED
      BY <3>1 DEF Reaches
  <2>2. CASE run.step = "done"
    <3>1. run.step \in Late /\ Session /\ cp.marker = "complete"
      BY <1>l, <2>2 DEF Late
    <3>2. cp'.seeded
      BY <1>e, <1>q, <2>2, <3>1, LateCp
    <3>3. server'[Cp].id = server[Cp].id
      BY <1>q, <3>1, Constants DEF Session, Exists
    <3>4. laptop' = laptop
      BY <2>2, LaptopMoves DEF LaptopWireGuard, RestartUnit, LaptopKubeconfig, UseContext, Step, At
    <3> QED
      BY <1>d, <1>e, <2>2, <3>2, <3>3, <3>4
  <2>3. NodeReady => run'.step # "done"
    BY <1>rdy
  <2> QED
    BY <1>t, <1>u, <1>8, <1>log, <1>com, <2>1, <2>2, <2>3, UpMoves DEF Early, CpSteps
<1> QED
  BY <1>1, <1>2, <1>3, <1>4, <1>5, <1>6, <1>7, <1>8 DEF UpInv

LEMMA UpInit == Init => LaptopInv /\ UpInv
<1> SUFFICES ASSUME Init PROVE LaptopInv /\ UpInv
  OBVIOUS
<1>1. run.step = "idle" /\ run.todo = {} /\ run.new = {} /\ cp.marker = "none"
  BY DEF Init, NoRun, NoCp
<1>2. Servers = {}
  BY DEF Init, Servers, Exists, NoServer
<1> QED
  BY <1>1, <1>2 DEF LaptopInv, UpInv, CpSteps, CaSteps, ConfSteps, Early, Late

(* cmd/up.go upPreflight to upServices: when up ended well and nobody      *)
(* interfered, the declared Workers are the project's Workers, each a      *)
(* Ready Node of this Control Plane's cluster under its pinned key, and    *)
(* the laptop names this hub and this CA, and on live dials through it.    *)
THEOREM UpEndsUp == Spec => []UpSound
<1>1. Init => TypeInv /\ IdInv /\ PlaceInv /\ ForgetInv /\ BuildInv /\ LaptopInv /\ UpInv
  BY TypeInit, InvInit, BuildInit, UpInit
<1>2. /\ TypeInv /\ IdInv /\ PlaceInv /\ ForgetInv /\ BuildInv /\ LaptopInv /\ UpInv
      /\ [Next]_vars
      => (TypeInv /\ IdInv /\ PlaceInv /\ ForgetInv /\ BuildInv /\ LaptopInv /\ UpInv)'
  BY TypeStep, IdStep, PlaceStep, ForgetStep, BuildStep, LaptopStep, UpStep
<1>3. TypeInv /\ LaptopInv /\ UpInv => UpSound
  <2> SUFFICES ASSUME TypeInv, LaptopInv, UpInv, run.step = "done", run.cmd = "up", run.quiet
               PROVE  Up
    BY DEF UpSound, At
  <2>1. /\ Servers \subseteq declared \cup {Cp} /\ run.todo = {} /\ cp.seeded
        /\ Session /\ cp.marker = "complete" /\ Trusted(Cp)
        /\ \A w \in declared : ReadyIn(w) /\ Trusted(w)
        /\ rehearsal \/ laptop.wire = server[Cp].id
    BY DEF UpInv, Late
  <2>2. declared \cup {Cp} \subseteq Servers
    BY <2>1, Constants DEF Servers, ReadyIn, Trusted, TypeInv, IntentOK
  <2>3. /\ cp.hub /\ laptop.conf = server[Cp].id /\ laptop.ca = cp.ca
        /\ rehearsal \/ laptop.current
    BY <2>1 DEF LaptopInv
  <2> QED
    BY <2>1, <2>2, <2>3 DEF Up, Trusted
<1> QED
  BY <1>1, <1>2, <1>3, PTL DEF Spec
=============================================================================
