-------------------------- MODULE MCWorkerLifecycle --------------------------
(* Runs and public addresses whose names are interchangeable.  (A Worker's *)
(* name is not: an idle run's is chosen among them.)                       *)
EXTENDS WorkerLifecycle, TLC

Symmetry == Permutations(Procs) \cup Permutations(IPs)

(* Which of two built Workers has which address, key and public address at *)
(* the start makes no difference but in names.  This keeps one of the      *)
(* eight initial states, and all of its successors: a server keeps these   *)
(* as long as it exists.                                                   *)
OneNumbering ==
  \A s \in servers :
    s.key = 1 => s.name = NoName /\ s.addr = 1 /\ s.ip = CHOOSE i \in IPs : TRUE
=============================================================================
