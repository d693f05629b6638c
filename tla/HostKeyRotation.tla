--------------------------- MODULE HostKeyRotation ---------------------------
(***************************************************************************)
(* The rotation of a server's seeded SSH host key (stages.RotateHostKey)   *)
(* and the pins file it edits (hostkey.Pins).                              *)
(*                                                                         *)
(* One goroutine per host runs the stage: probe, act, probe again.  The    *)
(* act makes a key on the host, pins it beside the seeded one, installs    *)
(* it, logs in with it alone and pins it alone.  Every edit of the pins    *)
(* file reads it, opens (and truncates) <path>.tmp, writes it and renames  *)
(* it; no lock is held.  Every command rotates one host at a time, but     *)
(* `rehearse core`, which rotates all of them at once (stage.RunAll):      *)
(* Parallel.                                                               *)
(*                                                                         *)
(* A key is a number: Seed, then the keys made on the host, in order.  A   *)
(* run stops at an error, an interrupt (the remote script is killed where  *)
(* it is) or a crash.  A script that outlives its run ends, or dies,       *)
(* before the next run logs in.                                            *)
(***************************************************************************)
EXTENDS Naturals, Sequences

CONSTANTS Hosts,     \* the servers
          Inodes,    \* the files known_hosts and known_hosts.tmp can name
          Parallel,  \* TRUE: several hosts are rotated at the same time
          MaxKey,    \* bound: the last key made on a host
          MaxStops   \* bound: errors, interrupts, crashes and host restarts

NoKey  == 0
Seed   == 1
NoFile == 0

ASSUME ConstantsAssumption ==
  /\ Parallel \in BOOLEAN
  /\ MaxKey \in Nat /\ MaxStops \in Nat
  /\ Inodes \subseteq Nat \ {NoFile} /\ 1 \in Inodes

VARIABLES
  inode,     \* the contents of each file: a sequence of keys for each host
  pinsName,  \* the file known_hosts names
  tmpName,   \* the file known_hosts.tmp names, or NoFile
  pc,        \* where each host's goroutine is
  edit,      \* "add" or "set": the rewrite of the pins a goroutine is in
  fd,        \* the file a goroutine opened for writing
  buf,       \* the contents a goroutine is about to write
  key,       \* the key a goroutine adds, proves or pins alone
  made,      \* the last key made on each host
  newKey,    \* the host's kluster_new_host_ed25519_key
  disk,      \* the host's ssh_host_ed25519_key
  served,    \* the key sshd shows
  marker,    \* the host's rotated marker
  reported,  \* the stage has said "done" for this host
  stops      \* stops so far

fileVars == <<inode, pinsName, tmpName>>
runVars  == <<edit, fd, buf, key>>
hostVars == <<made, newKey, disk, served, marker>>
vars == <<fileVars, pc, runVars, hostVars, reported, stops>>

pins == inode[pinsName]
Last(s) == s[Len(s)]
KeysIn(s) == {s[i] : i \in DOMAIN s}

Scripts  == {"generate", "rm", "mv", "restart", "mark"}
Rewrites == {"read", "open", "write", "rename"}
Steps == {"idle", "probe", "act", "dial", "probeAgain"} \cup Scripts \cup Rewrites

Goto(h, step) == pc' = [pc EXCEPT ![h] = step]
Key(h, k) == key' = [key EXCEPT ![h] = k]

Init ==
  /\ inode = [i \in Inodes |-> [h \in Hosts |-> <<Seed>>]]
  /\ pinsName = 1
  /\ tmpName = NoFile
  /\ pc = [h \in Hosts |-> "idle"]
  /\ edit = [h \in Hosts |-> "add"]
  /\ fd = [h \in Hosts |-> NoFile]
  /\ buf = [h \in Hosts |-> [g \in Hosts |-> <<>>]]
  /\ key = [h \in Hosts |-> NoKey]
  /\ made = [h \in Hosts |-> Seed]
  /\ newKey = [h \in Hosts |-> NoKey]
  /\ disk = [h \in Hosts |-> Seed]
  /\ served = [h \in Hosts |-> Seed]
  /\ marker = [h \in Hosts |-> FALSE]
  /\ reported = [h \in Hosts |-> FALSE]
  /\ stops = 0

-----------------------------------------------------------------------------
(* Runs.                                                                   *)

(* A dial verifies the key sshd shows against the pins file as it is now.  *)
CanLogIn(h) == served[h] \in KeysIn(pins[h])

(* A run logs in to the host and runs the stage on it.                     *)
LogIn(h) ==
  /\ pc[h] = "idle"
  /\ Parallel \/ \A g \in Hosts : pc[g] = "idle"
  /\ CanLogIn(h)
  /\ Goto(h, "probe")
  /\ UNCHANGED <<fileVars, runVars, hostVars, reported, stops>>

(* The goroutine of one host returns an error; the others go on.           *)
Stop(h) ==
  /\ pc[h] # "idle"
  /\ stops < MaxStops
  /\ stops' = stops + 1
  /\ Goto(h, "idle")
  /\ fd' = [fd EXCEPT ![h] = NoFile]
  /\ UNCHANGED <<fileVars, edit, buf, key, hostVars, reported>>

(* An interrupt or a crash ends the whole run.                             *)
Kill ==
  /\ \E h \in Hosts : pc[h] # "idle"
  /\ stops < MaxStops
  /\ stops' = stops + 1
  /\ pc' = [h \in Hosts |-> "idle"]
  /\ fd' = [h \in Hosts |-> NoFile]
  /\ UNCHANGED <<fileVars, edit, buf, key, hostVars, reported>>

(* The host restarts: sshd loads the key on its disk, if there is one, and *)
(* the run has lost its connection.                                        *)
HostRestart(h) ==
  /\ stops < MaxStops
  /\ stops' = stops + 1
  /\ served' = [served EXCEPT ![h] = disk[h]]
  /\ Goto(h, "idle")
  /\ fd' = [fd EXCEPT ![h] = NoFile]
  /\ UNCHANGED <<fileVars, edit, buf, key, made, newKey, disk, marker, reported>>

-----------------------------------------------------------------------------
(* The stage.                                                              *)

(* Mutant: a pin left beside the rotated key does not matter.              *)
DoneInstalled(h) == marker[h]

(* Done: the rotated key is installed and no key is pinned beside it.      *)
Done(h) == marker[h] /\ Len(pins[h]) <= 1

(* The run's probe reads the host, then the pins: both as one step, since  *)
(* only this goroutine changes either for this host.                       *)
Probe(h) ==
  /\ pc[h] = "probe"
  /\ Goto(h, IF Done(h) THEN "idle" ELSE "act")
  /\ reported' = [reported EXCEPT ![h] = @ \/ Done(h)]
  /\ UNCHANGED <<fileVars, runVars, hostVars, stops>>

(* Act: after an install only the pin is left to finish, with the key      *)
(* pinned last; no pin at all is an error.                                 *)
Act(h) ==
  /\ pc[h] = "act"
  /\ IF marker[h]
     THEN IF pins[h] = <<>>
          THEN Goto(h, "idle") /\ UNCHANGED key
          ELSE Goto(h, "dial") /\ Key(h, Last(pins[h]))
     ELSE Goto(h, "generate") /\ UNCHANGED key
  /\ UNCHANGED <<fileVars, edit, fd, buf, hostVars, reported, stops>>

(* generateScript: the new key, read back over the connection.             *)
Generate(h) ==
  /\ pc[h] = "generate"
  /\ made[h] < MaxKey
  /\ made' = [made EXCEPT ![h] = @ + 1]
  /\ newKey' = [newKey EXCEPT ![h] = made[h] + 1]
  /\ Key(h, made[h] + 1)
  /\ edit' = [edit EXCEPT ![h] = "add"]
  /\ Goto(h, "read")
  /\ UNCHANGED <<fileVars, fd, buf, disk, served, marker, reported, stops>>

(* The commands of installScript, in order.                                *)
InstallRm(h) ==
  /\ pc[h] = "rm"
  /\ disk' = [disk EXCEPT ![h] = NoKey]
  /\ Goto(h, "mv")
  /\ UNCHANGED <<fileVars, runVars, made, newKey, served, marker, reported, stops>>

InstallMv(h) ==
  /\ pc[h] = "mv"
  /\ disk' = [disk EXCEPT ![h] = newKey[h]]
  /\ newKey' = [newKey EXCEPT ![h] = NoKey]
  /\ Goto(h, "restart")
  /\ UNCHANGED <<fileVars, runVars, made, served, marker, reported, stops>>

InstallRestart(h) ==
  /\ pc[h] = "restart"
  /\ served' = [served EXCEPT ![h] = disk[h]]
  /\ Goto(h, "mark")
  /\ UNCHANGED <<fileVars, runVars, made, newKey, disk, marker, reported, stops>>

(* Mutant: the script ends before it writes the marker.                    *)
InstallForgets(h) ==
  /\ pc[h] = "mark"
  /\ Goto(h, "dial")
  /\ UNCHANGED <<fileVars, runVars, hostVars, reported, stops>>

InstallMark(h) ==
  /\ pc[h] = "mark"
  /\ marker' = [marker EXCEPT ![h] = TRUE]
  /\ Goto(h, "dial")
  /\ UNCHANGED <<fileVars, runVars, made, newKey, disk, served, reported, stops>>

(* A fresh connection that accepts the new key alone; the host proves it   *)
(* holds it, or the act fails and the pins stay as they are.               *)
Dial(h) ==
  /\ pc[h] = "dial"
  /\ IF served[h] = key[h]
     THEN Goto(h, "read") /\ edit' = [edit EXCEPT ![h] = "set"]
     ELSE Goto(h, "idle") /\ UNCHANGED edit
  /\ UNCHANGED <<fileVars, fd, buf, key, hostVars, reported, stops>>

(* The probe after the act: not done is an error.                          *)
ProbeAgain(h) ==
  /\ pc[h] = "probeAgain"
  /\ Goto(h, "idle")
  /\ reported' = [reported EXCEPT ![h] = @ \/ Done(h)]
  /\ UNCHANGED <<fileVars, runVars, hostVars, stops>>

-----------------------------------------------------------------------------
(* Pins.rewrite, for Add (the key after the ones there) and Set (alone).   *)

(* Mutants: Add pins the key alone, or before the ones there; a rewrite    *)
(* starts from what the last one wrote.                                    *)
AddAlone(h) ==
  /\ pc[h] = "read"
  /\ buf' = [buf EXCEPT ![h] = [pins EXCEPT ![h] = <<key[h]>>]]
  /\ Goto(h, "open")
  /\ UNCHANGED <<fileVars, edit, fd, key, hostVars, reported, stops>>

AddFirst(h) ==
  /\ pc[h] = "read"
  /\ buf' = [buf EXCEPT ![h] =
       [pins EXCEPT ![h] = IF edit[h] = "set" THEN <<key[h]>> ELSE <<key[h]>> \o @]]
  /\ Goto(h, "open")
  /\ UNCHANGED <<fileVars, edit, fd, key, hostVars, reported, stops>>

ReadStale(h) ==
  /\ pc[h] = "read"
  /\ buf' = [buf EXCEPT ![h] =
       [IF edit[h] = "set" THEN @ ELSE pins EXCEPT ![h] =
          IF edit[h] = "set" THEN <<key[h]>> ELSE Append(@, key[h])]]
  /\ Goto(h, "open")
  /\ UNCHANGED <<fileVars, edit, fd, key, hostVars, reported, stops>>

RewriteRead(h) ==
  /\ pc[h] = "read"
  /\ buf' = [buf EXCEPT ![h] =
       [pins EXCEPT ![h] = IF edit[h] = "set" THEN <<key[h]>> ELSE Append(@, key[h])]]
  /\ Goto(h, "open")
  /\ UNCHANGED <<fileVars, edit, fd, key, hostVars, reported, stops>>

(* os.WriteFile opens .tmp, truncating the file it names or making one.    *)
RewriteOpen(h) ==
  /\ pc[h] = "open"
  /\ \E i \in IF tmpName # NoFile THEN {tmpName}
              ELSE Inodes \ ({pinsName} \cup {fd[g] : g \in Hosts}) :
       /\ tmpName' = i
       /\ fd' = [fd EXCEPT ![h] = i]
       /\ inode' = [inode EXCEPT ![i] = [g \in Hosts |-> <<>>]]
  /\ Goto(h, "write")
  /\ UNCHANGED <<pinsName, edit, buf, key, hostVars, reported, stops>>

RewriteWrite(h) ==
  /\ pc[h] = "write"
  /\ inode' = [inode EXCEPT ![fd[h]] = buf[h]]
  /\ fd' = [fd EXCEPT ![h] = NoFile]
  /\ Goto(h, "rename")
  /\ UNCHANGED <<pinsName, tmpName, edit, buf, key, hostVars, reported, stops>>

(* The rename fails if another rewrite has renamed .tmp already.           *)
RewriteRename(h) ==
  /\ pc[h] = "rename"
  /\ IF tmpName # NoFile
     THEN /\ pinsName' = tmpName
          /\ tmpName' = NoFile
          /\ Goto(h, IF edit[h] = "add" THEN "rm" ELSE "probeAgain")
     ELSE Goto(h, "idle") /\ UNCHANGED <<pinsName, tmpName>>
  /\ UNCHANGED <<inode, runVars, hostVars, reported, stops>>

-----------------------------------------------------------------------------
Step(h) ==
  \/ Probe(h) \/ Act(h) \/ Generate(h)
  \/ RewriteRead(h) \/ RewriteOpen(h) \/ RewriteWrite(h) \/ RewriteRename(h)
  \/ InstallRm(h) \/ InstallMv(h) \/ InstallRestart(h) \/ InstallMark(h)
  \/ Dial(h) \/ ProbeAgain(h)

Next ==
  \/ Kill
  \/ \E h \in Hosts : LogIn(h) \/ Step(h) \/ Stop(h) \/ HostRestart(h)

Spec == Init /\ [][Next]_vars

(* A run that is not stopped goes on, and the operator runs the command    *)
(* again after a run that stopped; nobody owes a stop.                     *)
Fairness == \A h \in Hosts : WF_vars(Step(h)) /\ SF_vars(LogIn(h))

FairSpec == Spec /\ Fairness

-----------------------------------------------------------------------------
(* The type of every variable; the pins of a host are a sequence of keys.  *)
TypeOK ==
  /\ inode \in [Inodes -> [Hosts -> Seq(Nat)]]
  /\ pinsName \in Inodes
  /\ tmpName \in Inodes \cup {NoFile}
  /\ pc \in [Hosts -> Steps]
  /\ edit \in [Hosts -> {"add", "set"}]
  /\ fd \in [Hosts -> Inodes \cup {NoFile}]
  /\ buf \in [Hosts -> [Hosts -> Seq(Nat)]]
  /\ key \in [Hosts -> Nat]
  /\ made \in [Hosts -> Nat]
  /\ newKey \in [Hosts -> Nat]
  /\ disk \in [Hosts -> Nat]
  /\ served \in [Hosts -> Nat]
  /\ marker \in [Hosts -> BOOLEAN]
  /\ reported \in [Hosts -> BOOLEAN]
  /\ stops \in Nat

(* Wherever a run stops, the next one can log in: the key sshd shows is    *)
(* pinned (hostkey.go:114, "both keys pass from here until the end").      *)
Reachable == \A h \in Hosts : served[h] # NoKey => CanLogIn(h)

(* The same, once the parallel run has ended.                              *)
EndsReachable == (\A h \in Hosts : pc[h] = "idle") => Reachable

(* The key pinned last is the one the host installed, which finishPin      *)
(* relies on: Last is "the new key, never the seeded one" (pins.go:124).   *)
LastIsInstalled ==
  \A h \in Hosts : marker[h] =>
    /\ Len(pins[h]) > 0
    /\ Last(pins[h]) = disk[h]
    /\ disk[h] # Seed

(* Also when all hosts are rotated at once and rewrites of the pins file   *)
(* mix: a pin may be lost then, but none is made up.  Every key pinned     *)
(* for a host is the seeded one or was made on it, and a host that says it *)
(* is rotated shows, and would load again, a key that was made on it       *)
(* (RotateHostKey.Act, stage.RunAll).  In no run: HostKeyRotationProofs    *)
(* proves it.                                                              *)
OwnKeysOnly ==
  \A h \in Hosts :
    /\ KeysIn(pins[h]) \subseteq Seed..made[h]
    /\ marker[h] => served[h] = disk[h] /\ disk[h] \in (Seed + 1)..made[h]

(* Once the stage has said done, the host's own key is the only one that   *)
(* passes, and it is not the seeded key (Probe, hostkey.go:59).            *)
RotatedAlone ==
  \A h \in Hosts : reported[h] => pins[h] = <<served[h]>> /\ served[h] # Seed

(* The seeded key, readable by every process on the server, never passes   *)
(* again once it has stopped passing (no rewrite brings back an old pin).  *)
SeedNeverReturns ==
  [][\A h \in Hosts : Seed \notin KeysIn(pins[h]) => Seed \notin KeysIn(pins'[h])]_vars

(* From every point where a run can stop, the runs after it end with every *)
(* host rotated, unless a host restarted with no key on its disk.          *)
Rotates == [](\A h \in Hosts : served[h] # NoKey) => <>[](\A h \in Hosts : reported[h])

(* The rotation implements the trust it promises.                          *)
Trust == INSTANCE PinTrust WITH Keys <- Seed..MaxKey,
                                trusted <- [h \in Hosts |-> KeysIn(pins[h])]
TrustSpec == Trust!Spec
=============================================================================
