---------------------------- MODULE ArchiveLedger ----------------------------
(***************************************************************************)
(* What the archive of a database promises, whatever steps a run takes: a  *)
(* path of the archive is claimed by one new Cluster while nobody has      *)
(* written it, and only the holder writes; a live recovery claims the path *)
(* after the newest one that was ever written, under a lock nobody takes   *)
(* off; and a Cluster is certified only while it holds its path and has a  *)
(* base backup there.  Only a rehearsal's archive is ever cleared.         *)
(***************************************************************************)
EXTENDS Naturals

CONSTANTS Clusters,  \* the names of Clusters, none used twice
          Paths      \* the paths of the archive, in order

VARIABLES live,      \* whether it is the live archive
          holder,    \* the Cluster there is: its path, what it recovered from, its backup
          writers,   \* the Clusters that wrote each path
          locked,    \* the paths under a lock
          certified  \* the Clusters reported good

vars == <<live, holder, writers, locked, certified>>

NoSource == 0  \* a fresh Cluster recovers from no path

Init ==
  /\ live \in BOOLEAN
  /\ holder = {}
  /\ writers = [p \in Paths |-> {}]
  /\ locked = {}
  /\ certified = {}

IsNew(c) == c \notin certified /\ \A p \in Paths : c \notin writers[p]

(* The newest path written, and one under a lock to write to.              *)
Continues(from, p) ==
  /\ writers[from] # {}
  /\ \A q \in Paths : q > from => writers[q] = {}
  /\ p \in locked

Claim(c, p, from) ==
  /\ holder = {} /\ IsNew(c)
  /\ writers[p] = {}
  /\ from # NoSource => p = from + 1
  /\ from # NoSource /\ live => Continues(from, p)
  /\ holder' = {[id |-> c, at |-> p, from |-> from, backed |-> FALSE]}
  /\ UNCHANGED <<live, writers, locked, certified>>

Write(h) ==
  /\ writers' = [writers EXCEPT ![h.at] = @ \cup {h.id}]
  /\ UNCHANGED <<live, holder, locked, certified>>

BackUp(h) ==
  /\ holder' = {[h EXCEPT !.backed = TRUE]}
  /\ UNCHANGED <<live, writers, locked, certified>>

Certify(h) ==
  /\ h.backed
  /\ certified' = certified \cup {h.id}
  /\ UNCHANGED <<live, holder, writers, locked>>

Release ==
  /\ holder' = {}
  /\ UNCHANGED <<live, writers, locked, certified>>

Lock(p) ==
  /\ locked' = locked \cup {p}
  /\ UNCHANGED <<live, holder, writers, certified>>

Clear ==
  /\ ~live /\ holder = {}
  /\ writers' = [p \in Paths |-> {}]
  /\ UNCHANGED <<live, holder, locked, certified>>

Next ==
  \/ \E c \in Clusters, p \in Paths, from \in Paths \cup {NoSource} : Claim(c, p, from)
  \/ \E h \in holder : Write(h) \/ BackUp(h) \/ Certify(h)
  \/ Release \/ Clear \/ \E p \in Paths : Lock(p)

Spec == Init /\ [][Next]_vars
=============================================================================
