------------------------ MODULE HostKeyRotationProofs ------------------------
(***************************************************************************)
(* Theorems about the rotation of a host key, for any hosts and bounds.    *)
(* Types, and that a host and its pins have keys of the host's own, hold   *)
(* however the hosts run; the rest needs one host at a time, which is      *)
(* every command but `rehearse core`.                                      *)
(***************************************************************************)
EXTENDS HostKeyRotation, TLAPS

USE DEF NoKey, Seed, NoFile

(* A sequence of keys that is not empty ends in a key it holds.            *)
LEMMA LastIn ==
  ASSUME NEW s \in Seq(Nat), s # <<>>
  PROVE  Last(s) \in Nat /\ Last(s) \in KeysIn(s)
BY DEF Last, KeysIn

(* One key at most and one at least is one key.                            *)
LEMMA OneKey ==
  ASSUME NEW s \in Seq(Nat), s # <<>>
  PROVE  Len(s) <= 1 <=> Len(s) = 1
<1>1. \A n \in Nat : n > 0 => (n <= 1 <=> n = 1)
  OBVIOUS
<1>2. Len(s) \in Nat /\ Len(s) > 0
  OBVIOUS
<1> QED
  BY <1>1, <1>2

(* A sequence of one key is that key.                                      *)
LEMMA OneLong ==
  ASSUME NEW s \in Seq(Nat), Len(s) = 1, NEW k, k = s[1]
  PROVE  s = <<k>>
OBVIOUS

(* A run goes from step to step.                                           *)
LEMMA GotoType ==
  ASSUME TypeOK, NEW h \in Hosts, NEW s \in Steps, Goto(h, s)
  PROVE  pc' \in [Hosts -> Steps]
BY DEF TypeOK, Goto

(* What a rewrite writes for a host is a sequence of keys.                 *)
LEMMA EditType ==
  ASSUME TypeOK, NEW h \in Hosts
  PROVE  [pins EXCEPT ![h] = IF edit[h] = "set" THEN <<key[h]>> ELSE Append(@, key[h])]
           \in [Hosts -> Seq(Nat)]
<1>1. pins \in [Hosts -> Seq(Nat)] /\ key[h] \in Nat
  BY DEF TypeOK, pins
<1>2. <<key[h]>> \in Seq(Nat) /\ Append(pins[h], key[h]) \in Seq(Nat)
  BY <1>1
<1> QED
  BY <1>1, <1>2

(* No step gives a variable a value of another type.                       *)
LEMMA TypeStep == TypeOK /\ [Next]_vars => TypeOK'
<1> SUFFICES ASSUME TypeOK, [Next]_vars PROVE TypeOK'
  OBVIOUS
<1> USE DEF Key, fileVars, runVars, hostVars
<1>1. Scripts \cup Rewrites \cup {"idle", "probe", "act", "dial", "probeAgain"} \subseteq Steps
  BY DEF Steps
<1>s. /\ \A s \in {"idle", "probe", "act", "dial", "probeAgain"} : s \in Steps
      /\ \A s \in {"generate", "rm", "mv", "restart", "mark"} : s \in Steps
      /\ \A s \in {"read", "open", "write", "rename"} : s \in Steps
  BY <1>1 DEF Scripts, Rewrites
<1>g. \A h \in Hosts, s \in Steps : Goto(h, s) => pc' \in [Hosts -> Steps]
  BY GotoType
<1>2. CASE Kill
  <2>1. pc' \in [Hosts -> Steps] /\ fd' \in [Hosts -> Inodes \cup {NoFile}]
    BY <1>2, <1>s DEF Kill
  <2>2. UNCHANGED <<inode, pinsName, tmpName, edit, buf, key, made, newKey, disk, served,
                    marker, reported>> /\ stops' \in Nat
    BY <1>2 DEF Kill, TypeOK
  <2> QED
    BY <2>1, <2>2 DEF TypeOK
<1>3. ASSUME NEW h \in Hosts, LogIn(h) PROVE TypeOK'
  <2>1. pc' \in [Hosts -> Steps]
    BY <1>3, <1>s, <1>g DEF LogIn
  <2> QED
    BY <1>3, <2>1 DEF LogIn, TypeOK
<1>4. ASSUME NEW h \in Hosts, Stop(h) \/ HostRestart(h) PROVE TypeOK'
  <2>1. pc' \in [Hosts -> Steps]
    BY <1>4, <1>s, <1>g DEF Stop, HostRestart
  <2>2. fd' \in [Hosts -> Inodes \cup {NoFile}] /\ served' \in [Hosts -> Nat]
    BY <1>4 DEF Stop, HostRestart, TypeOK
  <2>3. UNCHANGED <<inode, pinsName, tmpName, edit, buf, key, made, newKey, disk,
                    marker, reported>> /\ stops' \in Nat
    BY <1>4 DEF Stop, HostRestart, TypeOK
  <2> QED
    BY <2>1, <2>2, <2>3 DEF TypeOK
<1>6. ASSUME NEW h \in Hosts, Step(h) PROVE TypeOK'
  <2>1. CASE Probe(h) \/ ProbeAgain(h)
    <3>1. pc' \in [Hosts -> Steps]
      BY <2>1, <1>s, <1>g DEF Probe, ProbeAgain
    <3>2. reported' \in [Hosts -> BOOLEAN]
      BY <2>1 DEF Probe, ProbeAgain, TypeOK
    <3> QED
      BY <2>1, <3>1, <3>2 DEF Probe, ProbeAgain, TypeOK
  <2>2. CASE Act(h)
    <3>1. pins[h] \in Seq(Nat)
      BY DEF TypeOK, pins
    <3>2. key' \in [Hosts -> Nat]
      BY <2>2, <3>1, LastIn DEF Act, TypeOK
    <3>3. Goto(h, "idle") \/ Goto(h, "dial") \/ Goto(h, "generate")
      BY <2>2 DEF Act
    <3>4. pc' \in [Hosts -> Steps]
      BY <3>3, <1>s, <1>g
    <3> QED
      BY <2>2, <3>2, <3>4 DEF Act, TypeOK
  <2>3. CASE Generate(h)
    <3>1. pc' \in [Hosts -> Steps]
      BY <2>3, <1>s, <1>g DEF Generate
    <3>2. made' \in [Hosts -> Nat] /\ newKey' \in [Hosts -> Nat] /\ key' \in [Hosts -> Nat]
      BY <2>3 DEF Generate, TypeOK
    <3> QED
      BY <2>3, <3>1, <3>2 DEF Generate, TypeOK
  <2>4. CASE RewriteRead(h)
    <3>1. pc' \in [Hosts -> Steps]
      BY <2>4, <1>s, <1>g DEF RewriteRead
    <3>2. buf' \in [Hosts -> [Hosts -> Seq(Nat)]]
      BY <2>4, EditType DEF RewriteRead, TypeOK
    <3> QED
      BY <2>4, <3>1, <3>2 DEF RewriteRead, TypeOK
  <2>5. CASE RewriteOpen(h)
    <3>1. pc' \in [Hosts -> Steps]
      BY <2>5, <1>s, <1>g DEF RewriteOpen
    <3>2. PICK i \in Inodes : /\ tmpName' = i
                              /\ fd' = [fd EXCEPT ![h] = i]
                              /\ inode' = [inode EXCEPT ![i] = [g \in Hosts |-> <<>>]]
      BY <2>5 DEF RewriteOpen, TypeOK
    <3>3. inode' \in [Inodes -> [Hosts -> Seq(Nat)]]
      BY <3>2 DEF TypeOK
    <3> QED
      BY <2>5, <3>1, <3>2, <3>3 DEF RewriteOpen, TypeOK
  <2>6. CASE RewriteWrite(h)
    <3>1. pc' \in [Hosts -> Steps]
      BY <2>6, <1>s, <1>g DEF RewriteWrite
    <3>2. inode' \in [Inodes -> [Hosts -> Seq(Nat)]]
      BY <2>6 DEF RewriteWrite, TypeOK
    <3> QED
      BY <2>6, <3>1, <3>2 DEF RewriteWrite, TypeOK
  <2>7. CASE RewriteRename(h)
    <3>1. pc' \in [Hosts -> Steps]
      BY <2>7, <1>s, <1>g DEF RewriteRename
    <3> QED
      BY <2>7, <3>1 DEF RewriteRename, TypeOK
  <2>8. CASE InstallRm(h) \/ InstallMv(h) \/ InstallRestart(h) \/ InstallMark(h)
    <3>1. pc' \in [Hosts -> Steps]
      BY <2>8, <1>s, <1>g DEF InstallRm, InstallMv, InstallRestart, InstallMark
    <3>2. /\ disk' = disk \/ disk' = [disk EXCEPT ![h] = NoKey]
                          \/ disk' = [disk EXCEPT ![h] = newKey[h]]
          /\ newKey' = newKey \/ newKey' = [newKey EXCEPT ![h] = NoKey]
          /\ served' = served \/ served' = [served EXCEPT ![h] = disk[h]]
          /\ marker' = marker \/ marker' = [marker EXCEPT ![h] = TRUE]
      BY <2>8, Zenon DEF InstallRm, InstallMv, InstallRestart, InstallMark
    <3>t. /\ disk \in [Hosts -> Nat] /\ newKey \in [Hosts -> Nat]
          /\ served \in [Hosts -> Nat] /\ marker \in [Hosts -> BOOLEAN]
      BY DEF TypeOK
    <3>4. disk' \in [Hosts -> Nat]
      BY <3>2, <3>t
    <3>5. newKey' \in [Hosts -> Nat]
      BY <3>2, <3>t
    <3>6. served' \in [Hosts -> Nat]
      BY <3>2, <3>t
    <3>7. marker' \in [Hosts -> BOOLEAN]
      BY <3>2, <3>t
    <3>3. UNCHANGED <<inode, pinsName, tmpName, edit, fd, buf, key, made, reported, stops>>
      BY <2>8 DEF InstallRm, InstallMv, InstallRestart, InstallMark
    <3> QED
      BY <3>1, <3>3, <3>4, <3>5, <3>6, <3>7 DEF TypeOK
  <2>9. CASE Dial(h)
    <3>1. Goto(h, "read") \/ Goto(h, "idle")
      BY <2>9 DEF Dial
    <3>2. pc' \in [Hosts -> Steps]
      BY <3>1, <1>s, <1>g
    <3>3. edit' \in [Hosts -> {"add", "set"}]
      BY <2>9 DEF Dial, TypeOK
    <3> QED
      BY <2>9, <3>2, <3>3 DEF Dial, TypeOK
  <2> QED
    BY <1>6, <2>1, <2>2, <2>3, <2>4, <2>5, <2>6, <2>7, <2>8, <2>9 DEF Step
<1>7. CASE UNCHANGED vars
  BY <1>7 DEF vars, TypeOK
<1> QED
  BY <1>2, <1>3, <1>4, <1>6, <1>7 DEF Next

(* The types hold where the servers have just been created and pinned.     *)
LEMMA InitialTypes == Init => TypeOK
<1> SUFFICES ASSUME Init PROVE TypeOK
  OBVIOUS
<1>1. <<Seed>> \in Seq(Nat) /\ <<>> \in Seq(Nat)
  OBVIOUS
<1>2. inode \in [Inodes -> [Hosts -> Seq(Nat)]] /\ buf \in [Hosts -> [Hosts -> Seq(Nat)]]
  BY <1>1 DEF Init
<1>3. /\ pinsName \in Inodes /\ tmpName \in Inodes \cup {NoFile}
      /\ pc \in [Hosts -> Steps] /\ edit \in [Hosts -> {"add", "set"}]
      /\ fd \in [Hosts -> Inodes \cup {NoFile}]
  BY ConstantsAssumption DEF Init, Steps
<1>4. /\ key \in [Hosts -> Nat] /\ made \in [Hosts -> Nat] /\ newKey \in [Hosts -> Nat]
      /\ disk \in [Hosts -> Nat] /\ served \in [Hosts -> Nat]
      /\ marker \in [Hosts -> BOOLEAN] /\ reported \in [Hosts -> BOOLEAN]
      /\ stops \in Nat
  BY DEF Init
<1> QED
  BY <1>2, <1>3, <1>4 DEF TypeOK

(* Every variable keeps its type, in parallel runs too.                    *)
THEOREM TypeCorrect == Spec => []TypeOK
BY InitialTypes, TypeStep, PTL DEF Spec

-----------------------------------------------------------------------------
(* The inductive invariant of a run on one host at a time.                 *)

(* Only one host's goroutine is under way.                                 *)
Solo == \A g, h \in Hosts : pc[g] # "idle" /\ pc[h] # "idle" => g = h

(* What a rewrite in progress is going to put in place of the pins.        *)
Edited(h) ==
  [pins EXCEPT ![h] = IF edit[h] = "set" THEN <<key[h]>> ELSE Append(@, key[h])]

(* .tmp is never the pins file; a rewrite holds the edit of the pins as    *)
(* they are, in its buffer and then in the file it renames.                *)
FileInv(h) ==
  /\ pc[h] \in {"open", "write", "rename"} => buf[h] = Edited(h)
  /\ pc[h] = "write" => fd[h] = tmpName /\ tmpName # NoFile
  /\ pc[h] = "rename" => tmpName # NoFile /\ inode[tmpName] = buf[h]

(* The host's keys: what it serves and has on its disk is pinned, and once *)
(* the marker is there both are the key pinned last, made on the host.     *)
KeyInv(h) ==
  /\ Len(pins[h]) > 0
  /\ served[h] # NoKey => served[h] \in KeysIn(pins[h])
  /\ disk[h] # NoKey => disk[h] \in KeysIn(pins[h])
  /\ marker[h] => /\ disk[h] = Last(pins[h]) /\ served[h] = Last(pins[h])
                  /\ Last(pins[h]) # Seed /\ Last(pins[h]) # NoKey
  /\ reported[h] => marker[h] /\ Len(pins[h]) = 1 /\ pc[h] \in {"idle", "probe"}
  /\ made[h] >= Seed

(* Where the run is: the key it works with is one made on the host, pinned *)
(* last from the rename of the add on, and what the next step relies on.   *)
RunInv(h) ==
  /\ pc[h] \in Rewrites \cup {"rm", "mv", "restart", "mark", "dial"} =>
       key[h] # Seed /\ key[h] # NoKey
  /\ pc[h] = "generate" => ~marker[h]
  /\ pc[h] \in Rewrites /\ edit[h] = "add" =>
       ~marker[h] /\ newKey[h] = key[h] /\ key[h] <= MaxKey
  /\ pc[h] \in Rewrites /\ edit[h] = "set" => marker[h] /\ key[h] = Last(pins[h])
  /\ pc[h] \in {"rm", "mv"} =>
       ~marker[h] /\ newKey[h] = key[h] /\ key[h] = Last(pins[h])
  /\ pc[h] \in {"restart", "mark"} =>
       ~marker[h] /\ disk[h] = key[h] /\ key[h] = Last(pins[h])
  /\ pc[h] = "mark" => served[h] = key[h]
  /\ pc[h] = "dial" => marker[h] /\ key[h] = Last(pins[h])

HostInv(h) == FileInv(h) /\ KeyInv(h) /\ RunInv(h)

IInv ==
  /\ TypeOK
  /\ Solo
  /\ pinsName # tmpName
  /\ \A h \in Hosts : HostInv(h)

-----------------------------------------------------------------------------
(* What a step leaves alone for a host.                                    *)
Same(g) ==
  /\ pc'[g] = pc[g] /\ edit'[g] = edit[g] /\ fd'[g] = fd[g] /\ buf'[g] = buf[g]
  /\ key'[g] = key[g] /\ made'[g] = made[g] /\ newKey'[g] = newKey[g]
  /\ disk'[g] = disk[g] /\ served'[g] = served[g] /\ marker'[g] = marker[g]
  /\ reported'[g] = reported[g]

(* A host a step does not touch, the pins file and .tmp included, keeps    *)
(* its part of the invariant.                                              *)
LEMMA FrameFiles ==
  ASSUME NEW g \in Hosts, HostInv(g), Same(g), UNCHANGED fileVars
  PROVE  HostInv(g)'
<1>1. pins' = pins
  BY DEF fileVars, pins
<1>2. FileInv(g)'
  <2>1. Edited(g)' = Edited(g)
    BY <1>1 DEF Edited, Same
  <2> QED
    BY <2>1 DEF FileInv, Same, fileVars, HostInv
<1>3. KeyInv(g)'
  BY <1>1 DEF KeyInv, HostInv, Same
<1>4. RunInv(g)'
  BY <1>1 DEF RunInv, HostInv, Same
<1> QED
  BY <1>2, <1>3, <1>4 DEF HostInv

(* An idle host keeps it when another host's rewrite keeps its pins.       *)
LEMMA FrameIdle ==
  ASSUME NEW g \in Hosts, HostInv(g), Same(g), pc[g] = "idle", pins'[g] = pins[g]
  PROVE  HostInv(g)'
<1>1. FileInv(g)'
  BY DEF FileInv, Same
<1>2. KeyInv(g)'
  BY DEF KeyInv, HostInv, Same
<1>3. RunInv(g)'
  BY DEF RunInv, Same, Rewrites
<1> QED
  BY <1>1, <1>2, <1>3 DEF HostInv

(* A step of one host under way, whose rewrite keeps the others' pins,     *)
(* keeps the invariant if it does for that host.                           *)
LEMMA OneHost ==
  ASSUME IInv, TypeOK', NEW h \in Hosts, pc[h] # "idle",
         \A g \in Hosts \ {h} : Same(g) /\ pins'[g] = pins[g],
         pinsName' # tmpName', HostInv(h)'
  PROVE  IInv'
<1>1. \A g \in Hosts \ {h} : pc[g] = "idle" /\ HostInv(g)
  BY DEF IInv, Solo
<1>2. \A g \in Hosts \ {h} : HostInv(g)'
  BY <1>1, FrameIdle
<1>3. Solo'
  BY <1>1 DEF Solo, Same
<1> QED
  BY <1>2, <1>3 DEF IInv

-----------------------------------------------------------------------------
(* The steps that leave the files alone.                                   *)
LEMMA QuietStep ==
  ASSUME IInv, TypeOK', NEW h \in Hosts,
         \/ Probe(h) \/ Act(h) \/ Generate(h) \/ Dial(h) \/ ProbeAgain(h)
         \/ InstallRm(h) \/ InstallMv(h) \/ InstallRestart(h) \/ InstallMark(h)
  PROVE  IInv'
<1> DEFINE Quiet == UNCHANGED <<fileVars, fd, buf>>
<1>p. ASSUME NEW s, Goto(h, s) PROVE pc'[h] = s /\ \A g \in Hosts \ {h} : pc'[g] = pc[g]
  BY <1>p DEF Goto, IInv, TypeOK
<1>k. ASSUME NEW k, Key(h, k) PROVE \A g \in Hosts \ {h} : key'[g] = key[g]
  BY <1>k DEF Key, IInv, TypeOK
<1>1. Quiet /\ pc[h] # "idle" /\ \A g \in Hosts \ {h} : Same(g)
  <2> USE DEF IInv, TypeOK, Same, Goto, Key, runVars, hostVars
  <2>1. CASE Probe(h)
    BY <2>1 DEF Probe
  <2>2. CASE Act(h)
    <3> HIDE DEF IInv, TypeOK, Goto, Key
    <3>1. pc[h] = "act" /\ UNCHANGED <<fileVars, fd, buf, edit, hostVars, reported>>
      BY <2>2 DEF Act
    <3>2. \A g \in Hosts \ {h} : pc'[g] = pc[g]
      BY <2>2, <1>p, Zenon DEF Act
    <3>3. \A g \in Hosts \ {h} : key'[g] = key[g]
      BY <2>2, <1>k, Zenon DEF Act
    <3> QED
      BY <3>1, <3>2, <3>3
  <2>3. CASE Generate(h)
    BY <2>3 DEF Generate
  <2>4. CASE InstallRm(h)
    BY <2>4 DEF InstallRm
  <2>5. CASE InstallMv(h)
    BY <2>5 DEF InstallMv
  <2>6. CASE InstallRestart(h)
    BY <2>6 DEF InstallRestart
  <2>7. CASE InstallMark(h)
    BY <2>7 DEF InstallMark
  <2>8. CASE Dial(h)
    <3>e. edit' = edit \/ edit' = [edit EXCEPT ![h] = "set"]
      BY <2>8 DEF Dial
    <3>f. edit \in [Hosts -> {"add", "set"}]
      OBVIOUS
    <3> HIDE DEF IInv, TypeOK, Goto
    <3>1. pc[h] = "dial" /\ UNCHANGED <<fileVars, fd, buf, key, hostVars, reported>>
      BY <2>8 DEF Dial
    <3>2. \A g \in Hosts \ {h} : pc'[g] = pc[g]
      BY <2>8, <1>p, Zenon DEF Dial
    <3>3. \A g \in Hosts \ {h} : edit'[g] = edit[g]
      BY <3>e, <3>f
    <3> QED
      BY <3>1, <3>2, <3>3
  <2>9. CASE ProbeAgain(h)
    BY <2>9 DEF ProbeAgain
  <2> QED
    BY <2>1, <2>2, <2>3, <2>4, <2>5, <2>6, <2>7, <2>8, <2>9
<1>2. pins' = pins /\ pinsName' # tmpName'
  BY <1>1 DEF fileVars, pins, IInv
<1>3. FileInv(h)'
  <2>1. pc'[h] \notin {"open", "write", "rename"}
    <3>1. \E s \in {"idle", "act", "dial", "generate", "read", "mv", "restart", "mark"} : Goto(h, s)
      BY DEF Probe, Act, Generate, Dial, ProbeAgain,
             InstallRm, InstallMv, InstallRestart, InstallMark
    <3> QED
      BY <3>1, <1>p
  <2> QED
    BY <2>1 DEF FileInv
<1>4. KeyInv(h)' /\ RunInv(h)'
  <2>1. HostInv(h) /\ pins[h] \in Seq(Nat)
    BY DEF IInv, TypeOK, pins
  <2>2. Len(pins[h]) > 0 => Last(pins[h]) \in KeysIn(pins[h])
    BY <2>1, LastIn
  <2>3. TypeOK /\ MaxKey \in Nat
    BY ConstantsAssumption DEF IInv
  <2>d. (Done(h) => marker[h] /\ Len(pins[h]) = 1) /\ (reported[h] => Done(h))
    <3>1. pins[h] # <<>>
      BY <2>1 DEF HostInv, KeyInv
    <3>2. reported[h] => marker[h] /\ Len(pins[h]) = 1
      BY <2>1 DEF HostInv, KeyInv
    <3>3. Len(pins[h]) <= 1 <=> Len(pins[h]) = 1
      BY <2>1, <3>1, OneKey
    <3> QED
      BY <3>2, <3>3, Zenon DEF Done
  <2> HIDE DEF Quiet
  <2> USE <1>2, <2>1, <2>2, <2>3 DEF TypeOK, HostInv, KeyInv, RunInv, Rewrites, Goto, Key, runVars, hostVars
  <2>4. CASE Probe(h)
    <3>1. reported'[h] <=> reported[h] \/ Done(h)
      BY <2>4 DEF Probe
    <3>2. pc'[h] \in {"idle", "act"} /\ (Done(h) \/ reported[h] => pc'[h] = "idle")
      BY <2>4, <2>d DEF Probe, Done
    <3>3. pc[h] \in {"probe", "probeAgain"} /\ UNCHANGED <<runVars, hostVars>>
      BY <2>4 DEF Probe
    <3> QED
      BY <2>d, <3>1, <3>2, <3>3
  <2>5. CASE Act(h)
    <3>1. /\ pc[h] = "act" /\ UNCHANGED <<edit, hostVars, reported>>
          /\ marker[h] => pc'[h] \in {"idle", "dial"} /\ (pc'[h] = "dial" => key'[h] = Last(pins[h]))
          /\ ~marker[h] => pc'[h] = "generate" /\ key'[h] = key[h]
      BY <2>5 DEF Act
    <3>2. ~reported[h]
      BY <3>1
    <3> HIDE DEF TypeOK, Goto, Key
    <3>3. KeyInv(h)'
      BY <3>1, <3>2
    <3>4. RunInv(h)'
      BY <3>1
    <3> QED
      BY <3>3, <3>4
  <2>6. CASE Generate(h)
    <3>1. /\ pc[h] = "generate" /\ made[h] < MaxKey /\ UNCHANGED <<disk, served, marker, reported>>
          /\ made[h] \in Nat /\ made'[h] = made[h] + 1 /\ newKey'[h] = made[h] + 1
          /\ key'[h] = made[h] + 1 /\ edit'[h] = "add" /\ pc'[h] = "read"
      BY <2>6 DEF Generate
    <3> HIDE DEF TypeOK, Goto, Key
    <3>2. ~marker[h] /\ ~reported[h] /\ made[h] >= Seed
      BY <3>1
    <3>3. /\ made[h] + 1 <= MaxKey /\ made[h] + 1 # Seed /\ made[h] + 1 # NoKey
          /\ made[h] + 1 >= Seed
      BY <3>1, <3>2
    <3>4. KeyInv(h)'
      BY <3>1, <3>2, <3>3
    <3>5. RunInv(h)'
      BY <3>1, <3>2, <3>3
    <3> QED
      BY <3>4, <3>5
  <2>7. CASE InstallRm(h)
    BY <2>7 DEF InstallRm
  <2>8. CASE InstallMv(h)
    BY <2>8 DEF InstallMv
  <2>9. CASE InstallRestart(h)
    BY <2>9 DEF InstallRestart
  <2>10. CASE InstallMark(h)
    BY <2>10 DEF InstallMark
  <2>11. CASE Dial(h)
    BY <2>11 DEF Dial
  <2>12. CASE ProbeAgain(h)
    <3>1. reported'[h] <=> reported[h] \/ Done(h)
      BY <2>12 DEF ProbeAgain
    <3>2. pc'[h] \in {"idle", "act"} /\ (Done(h) \/ reported[h] => pc'[h] = "idle")
      BY <2>12, <2>d DEF ProbeAgain, Done
    <3>3. pc[h] \in {"probe", "probeAgain"} /\ UNCHANGED <<runVars, hostVars>>
      BY <2>12 DEF ProbeAgain
    <3> QED
      BY <2>d, <3>1, <3>2, <3>3
  <2> QED
    BY <2>4, <2>5, <2>6, <2>7, <2>8, <2>9, <2>10, <2>11, <2>12
<1> QED
  BY <1>1, <1>2, <1>3, <1>4, OneHost DEF HostInv

-----------------------------------------------------------------------------
(* The steps of a rewrite.                                                 *)

(* A rewrite's steps before the rename leave the host and its pins alone.  *)
LEMMA RewriteKeeps ==
  ASSUME IInv, NEW h \in Hosts, pc[h] \in Rewrites, pc'[h] \in Rewrites,
         pins' = pins, UNCHANGED <<edit, key, hostVars, reported>>
  PROVE  KeyInv(h)' /\ RunInv(h)'
<1>1. HostInv(h)
  BY DEF IInv
<1>2. KeyInv(h)'
  <2>1. pc[h] \notin {"idle", "probe"}
    BY DEF Rewrites
  <2> QED
    BY <1>1, <2>1 DEF HostInv, KeyInv, hostVars
<1> QED
  BY <1>1, <1>2 DEF HostInv, RunInv, Rewrites, hostVars

(* The file read while no other host is under way is the file as it is.    *)
LEMMA ReadStep == ASSUME IInv, TypeOK', NEW h \in Hosts, RewriteRead(h) PROVE IInv'
<1> USE DEF RewriteRead
<1>1. pins' = pins /\ pinsName' # tmpName'
  BY DEF IInv, fileVars, pins
<1>2. pc[h] = "read" /\ pc'[h] = "open" /\ \A g \in Hosts \ {h} : Same(g)
  BY DEF IInv, TypeOK, Same, Goto, hostVars
<1>3. FileInv(h)'
  <2>1. buf'[h] = Edited(h)
    BY DEF IInv, TypeOK, Edited
  <2>2. Edited(h)' = Edited(h)
    BY <1>1 DEF Edited
  <2> QED
    BY <1>2, <2>1, <2>2 DEF FileInv
<1>4. KeyInv(h)' /\ RunInv(h)'
  BY <1>1, <1>2, RewriteKeeps DEF Rewrites
<1> QED
  BY <1>1, <1>2, <1>3, <1>4, OneHost DEF HostInv

(* A new .tmp, or an old one emptied, is never the pins file.              *)
LEMMA OpenStep == ASSUME IInv, TypeOK', NEW h \in Hosts, RewriteOpen(h) PROVE IInv'
<1> USE DEF RewriteOpen
<1>1. pinsName' = pinsName /\ pinsName \in Inodes /\ tmpName' \in Inodes /\ tmpName' # pinsName
  BY DEF IInv, TypeOK
<1>2. pins' = pins
  BY <1>1 DEF IInv, TypeOK, pins
<1>3. pc[h] = "open" /\ pc'[h] = "write" /\ \A g \in Hosts \ {h} : Same(g)
  BY DEF IInv, TypeOK, Same, Goto, hostVars
<1>4. FileInv(h)'
  <2>1. buf'[h] = Edited(h)'
    BY <1>2, <1>3 DEF IInv, HostInv, FileInv, Edited
  <2>2. fd'[h] = tmpName' /\ tmpName' # NoFile
    BY <1>1, ConstantsAssumption DEF IInv, TypeOK
  <2> QED
    BY <1>3, <2>1, <2>2 DEF FileInv
<1>5. KeyInv(h)' /\ RunInv(h)'
  BY <1>2, <1>3, RewriteKeeps DEF Rewrites
<1> QED
  BY <1>1, <1>2, <1>3, <1>4, <1>5, OneHost DEF HostInv

(* What is written to .tmp is the edit of the pins as they still are.      *)
LEMMA WriteStep == ASSUME IInv, TypeOK', NEW h \in Hosts, RewriteWrite(h) PROVE IInv'
<1> USE DEF RewriteWrite
<1>1. fd[h] = tmpName /\ tmpName # NoFile /\ buf[h] = Edited(h)
  BY DEF IInv, HostInv, FileInv
<1>2. pinsName' = pinsName /\ tmpName' = tmpName /\ pinsName' # tmpName'
  BY DEF IInv
<1>3. pins' = pins
  BY <1>1, <1>2 DEF IInv, TypeOK, pins
<1>4. pc[h] = "write" /\ pc'[h] = "rename" /\ \A g \in Hosts \ {h} : Same(g)
  BY DEF IInv, TypeOK, Same, Goto, hostVars
<1>5. FileInv(h)'
  <2>1. inode'[tmpName'] = buf'[h]
    BY <1>1, <1>2 DEF IInv, TypeOK
  <2>2. buf'[h] = Edited(h)'
    BY <1>1, <1>3 DEF Edited
  <2> QED
    BY <1>1, <1>2, <1>4, <2>1, <2>2 DEF FileInv
<1>6. KeyInv(h)' /\ RunInv(h)'
  BY <1>3, <1>4, RewriteKeeps DEF Rewrites
<1> QED
  BY <1>2, <1>3, <1>4, <1>5, <1>6, OneHost DEF HostInv

(* The rename puts the edit in place: the host's own pins change, to the   *)
(* key alone or to one more, and no other host's.                          *)
LEMMA Renamed ==
  ASSUME IInv, NEW h \in Hosts, RewriteRename(h)
  PROVE  /\ pins' = Edited(h)
         /\ \A g \in Hosts \ {h} : pins'[g] = pins[g]
         /\ pins'[h] = IF edit[h] = "set" THEN <<key[h]>> ELSE Append(pins[h], key[h])
         /\ pc'[h] = IF edit[h] = "add" THEN "rm" ELSE "probeAgain"
         /\ pinsName' # tmpName'
<1>1. tmpName # NoFile /\ inode[tmpName] = buf[h] /\ buf[h] = Edited(h)
  BY DEF IInv, HostInv, FileInv, RewriteRename
<1>2. pins' = Edited(h) /\ pinsName' # tmpName'
  BY <1>1 DEF RewriteRename, pins, IInv, TypeOK
<1>3. pins \in [Hosts -> Seq(Nat)]
  BY DEF IInv, TypeOK, pins
<1>4. pc'[h] = IF edit[h] = "add" THEN "rm" ELSE "probeAgain"
  BY <1>1 DEF RewriteRename, IInv, TypeOK, Goto
<1> QED
  BY <1>2, <1>3, <1>4 DEF Edited

(* A key appended to a host's pins is the last of them, and the others stay.*)
LEMMA Appended ==
  ASSUME NEW s \in Seq(Nat), NEW k \in Nat
  PROVE  /\ KeysIn(Append(s, k)) = KeysIn(s) \cup {k}
         /\ Last(Append(s, k)) = k
         /\ Len(Append(s, k)) > 0
         /\ KeysIn(<<k>>) = {k} /\ Last(<<k>>) = k /\ Len(<<k>>) = 1
<1>1. Append(s, k) \in Seq(Nat) /\ Len(Append(s, k)) = Len(s) + 1 /\ Len(s) \in Nat
  OBVIOUS
<1>2. \A i \in 1..Len(s) : Append(s, k)[i] = s[i]
  OBVIOUS
<1>3. Append(s, k)[Len(s) + 1] = k
  OBVIOUS
<1>4. DOMAIN Append(s, k) = 1..Len(s) \cup {Len(s) + 1} /\ DOMAIN s = 1..Len(s)
  BY <1>1
<1>5. KeysIn(Append(s, k)) = KeysIn(s) \cup {k}
  BY <1>2, <1>3, <1>4 DEF KeysIn
<1>6. KeysIn(<<k>>) = {k} /\ Last(<<k>>) = k /\ Len(<<k>>) = 1
  BY DEF KeysIn, Last
<1> QED
  BY <1>1, <1>3, <1>5, <1>6 DEF Last

(* After the rename the pins file is the edit, and no .tmp is left.        *)
LEMMA RenameStep == ASSUME IInv, TypeOK', NEW h \in Hosts, RewriteRename(h) PROVE IInv'
<1> USE DEF RewriteRename
<1>1. pc[h] = "rename" /\ \A g \in Hosts \ {h} : Same(g)
  BY DEF IInv, TypeOK, Same, Goto, runVars, hostVars
<1>2. HostInv(h) /\ pins[h] \in Seq(Nat) /\ key[h] \in Nat
  BY DEF IInv, TypeOK, pins
<1>3. FileInv(h)'
  BY Renamed DEF FileInv
<1>4. key[h] # Seed /\ key[h] # NoKey
  BY <1>1, <1>2 DEF HostInv, RunInv, Rewrites
<1>5. KeyInv(h)' /\ RunInv(h)'
  <2>1. CASE edit[h] = "add"
    <3>1. ~marker[h] /\ newKey[h] = key[h] /\ ~reported[h]
      BY <1>1, <1>2, <2>1 DEF HostInv, RunInv, KeyInv, Rewrites
    <3>a. pins'[h] = Append(pins[h], key[h])
      BY <2>1, Renamed
    <3>2. /\ KeysIn(pins'[h]) = KeysIn(pins[h]) \cup {key[h]}
          /\ Last(pins'[h]) = key[h] /\ Len(pins'[h]) > 0
      <4> HIDE DEF RewriteRename
      <4> QED
        BY <1>2, <3>a, Appended
    <3>3. pc'[h] = "rm"
      BY <2>1, Renamed
    <3>4. UNCHANGED <<key, edit, hostVars, reported>>
      BY DEF runVars
    <3>5. key[h] = Last(pins'[h]) /\ key[h] \in KeysIn(pins'[h])
      BY <3>2
    <3> HIDE DEF RewriteRename
    <3>6. KeyInv(h)'
      BY <1>2, <3>1, <3>2, <3>3, <3>4 DEF HostInv, KeyInv, hostVars
    <3>7. RunInv(h)'
      BY <1>4, <3>1, <3>3, <3>4, <3>5 DEF RunInv, Rewrites, hostVars
    <3> QED
      BY <3>6, <3>7
  <2>2. CASE edit[h] = "set"
    <3>1. marker[h] /\ key[h] = Last(pins[h])
      BY <1>1, <1>2, <2>2 DEF HostInv, RunInv, Rewrites
    <3>a. pins'[h] = <<key[h]>>
      BY <2>2, Renamed
    <3>2. /\ KeysIn(pins'[h]) = {key[h]}
          /\ Last(pins'[h]) = key[h] /\ Len(pins'[h]) = 1
      <4> HIDE DEF RewriteRename
      <4> QED
        BY <1>2, <3>a, Appended
    <3>3. pc'[h] = "probeAgain" /\ ~reported[h]
      BY <1>1, <1>2, <2>2, Renamed DEF HostInv, KeyInv
    <3> QED
      BY <1>2, <1>4, <3>1, <3>2, <3>3 DEF HostInv, KeyInv, RunInv, Rewrites, runVars, hostVars
  <2> QED
    BY <2>1, <2>2 DEF IInv, TypeOK
<1> QED
  BY <1>1, <1>3, <1>5, Renamed, OneHost DEF HostInv

-----------------------------------------------------------------------------
(* Runs that begin and end.                                                *)

(* A host whose goroutine ends or begins, its files and keys as they are.  *)
LEMMA Ended ==
  ASSUME NEW h \in Hosts, HostInv(h), UNCHANGED <<fileVars, hostVars, reported>>,
         pc'[h] = "idle" \/ pc'[h] = "probe"
  PROVE  HostInv(h)'
<1>1. pins' = pins
  BY DEF fileVars, pins
<1>2. FileInv(h)'
  BY DEF FileInv
<1>3. KeyInv(h)' /\ RunInv(h)'
  BY <1>1 DEF HostInv, KeyInv, RunInv, Rewrites, hostVars
<1> QED
  BY <1>2, <1>3 DEF HostInv

(* A restart of a host serves the key on its disk.                         *)
LEMMA Restarted ==
  ASSUME TypeOK, TypeOK', NEW h \in Hosts, HostInv(h), HostRestart(h)
  PROVE  HostInv(h)'
<1>1. pins' = pins
  BY DEF HostRestart, fileVars, pins
<1>2. pc'[h] = "idle" /\ served'[h] = disk[h]
  BY DEF HostRestart, Goto, TypeOK
<1>3. FileInv(h)' /\ RunInv(h)'
  BY <1>2 DEF FileInv, RunInv, Rewrites
<1>4. KeyInv(h)'
  BY <1>1, <1>2 DEF HostInv, KeyInv, HostRestart
<1> QED
  BY <1>3, <1>4 DEF HostInv

(* Every step of a run on a host keeps the invariant.                      *)
LEMMA RunStep ==
  ASSUME IInv, TypeOK', ~Parallel, NEW h \in Hosts, LogIn(h) \/ Stop(h) \/ HostRestart(h)
  PROVE  IInv'
<1> USE DEF IInv, TypeOK
<1>1. pinsName' # tmpName'
  BY DEF LogIn, Stop, HostRestart, fileVars
<1>2. Solo'
  <2>1. CASE LogIn(h)
    BY <2>1 DEF Solo, LogIn, Goto
  <2>2. ASSUME pc' = [pc EXCEPT ![h] = "idle"] PROVE Solo'
    BY <2>2 DEF Solo
  <2> QED
    BY <2>1, <2>2 DEF Stop, HostRestart, Goto
<1>3. ASSUME NEW g \in Hosts PROVE HostInv(g)'
  <2>1. CASE LogIn(h)
    <3>1. pc[g] = "idle" /\ (pc'[g] = "idle" \/ pc'[g] = "probe")
      BY <2>1 DEF LogIn, Goto
    <3> QED
      BY <2>1, <3>1, Ended DEF LogIn
  <2>2. CASE Stop(h)
    <3>1. CASE g = h
      BY <2>2, <3>1, Ended DEF Stop, Goto
    <3>2. CASE g # h
      BY <2>2, <3>2, FrameFiles DEF Stop, Goto, Same, hostVars
    <3> QED
      BY <3>1, <3>2
  <2>3. CASE HostRestart(h)
    <3>1. CASE g = h
      BY <2>3, <3>1, Restarted
    <3>2. CASE g # h
      <4>1. Same(g) /\ UNCHANGED fileVars
        BY <2>3, <3>2 DEF HostRestart, Goto, Same
      <4> QED
        BY <4>1, FrameFiles
    <3> QED
      BY <3>1, <3>2
  <2> QED
    BY <2>1, <2>2, <2>3
<1> QED
  BY <1>1, <1>2, <1>3

(* Every step of the system keeps the invariant.                           *)
LEMMA Inductive == ASSUME IInv, [Next]_vars, ~Parallel PROVE IInv'
<1>1. TypeOK'
  BY TypeStep DEF IInv
<1>3. CASE Kill
  <2>1. pinsName' # tmpName' /\ Solo'
    BY <1>3 DEF Kill, IInv, Solo, fileVars
  <2>2. ASSUME NEW g \in Hosts PROVE HostInv(g)'
    BY <1>3, Ended DEF Kill, IInv
  <2> QED
    BY <1>1, <2>1, <2>2 DEF IInv
<1>4. ASSUME NEW h \in Hosts, LogIn(h) \/ Stop(h) \/ HostRestart(h) PROVE IInv'
  BY <1>1, <1>4, RunStep
<1>5. ASSUME NEW h \in Hosts, Step(h) PROVE IInv'
  BY <1>1, <1>5, QuietStep, ReadStep, OpenStep, WriteStep, RenameStep DEF Step
<1>6. CASE UNCHANGED vars
  <2>1. UNCHANGED <<fileVars, pinsName, tmpName>> /\ Solo' /\ \A g \in Hosts : Same(g)
    BY <1>6 DEF vars, fileVars, runVars, hostVars, Same, IInv, Solo
  <2> QED
    BY <1>1, <2>1, FrameFiles DEF IInv
<1> QED
  BY <1>3, <1>4, <1>5, <1>6 DEF Next

(* It holds where the servers have just been created and pinned.           *)
LEMMA Initial == Init => IInv
<1> SUFFICES ASSUME Init PROVE IInv
  OBVIOUS
<1>1. TypeOK
  BY InitialTypes
<1>2. Solo /\ pinsName # tmpName
  BY DEF Init, Solo
<1>3. ASSUME NEW h \in Hosts PROVE HostInv(h)
  <2>1. pins[h] = <<Seed>>
    BY ConstantsAssumption DEF Init, pins
  <2>2. Len(pins[h]) = 1 /\ KeysIn(pins[h]) = {Seed}
    BY <2>1, pins[h] \in Seq(Nat) DEF KeysIn
  <2>3. FileInv(h) /\ RunInv(h)
    BY DEF Init, FileInv, RunInv, Rewrites
  <2>4. KeyInv(h)
    BY <2>2 DEF Init, KeyInv
  <2> QED
    BY <2>3, <2>4 DEF HostInv
<1> QED
  BY <1>1, <1>2, <1>3 DEF IInv

-----------------------------------------------------------------------------
(* Wherever a run on one host stops, the next one can log in.              *)
THEOREM ReachableAlways == ASSUME ~Parallel PROVE Spec => []Reachable
<1>1. IInv => Reachable
  BY DEF IInv, HostInv, KeyInv, Reachable, CanLogIn
<1> QED
  BY <1>1, Initial, Inductive, PTL DEF Spec

(* The key pinned last is the one a rotated host installed.                *)
THEOREM LastIsInstalledAlways == ASSUME ~Parallel PROVE Spec => []LastIsInstalled
<1>1. IInv => LastIsInstalled
  BY DEF IInv, HostInv, KeyInv, LastIsInstalled
<1> QED
  BY <1>1, Initial, Inductive, PTL DEF Spec

(* A host reported rotated passes with its own key alone.                  *)
THEOREM RotatedAloneAlways == ASSUME ~Parallel PROVE Spec => []RotatedAlone
<1>1. IInv => RotatedAlone
  <2> SUFFICES ASSUME IInv, NEW h \in Hosts, reported[h]
               PROVE  pins[h] = <<served[h]>> /\ served[h] # Seed
    BY DEF RotatedAlone
  <2>1. pins[h] \in Seq(Nat) /\ Len(pins[h]) = 1 /\ served[h] = Last(pins[h]) /\ served[h] # Seed
    BY DEF IInv, TypeOK, HostInv, KeyInv, pins
  <2>2. served[h] = pins[h][1]
    BY <2>1 DEF Last
  <2> HIDE DEF pins
  <2>3. pins[h] = <<served[h]>>
    BY <2>1, <2>2, OneLong
  <2> QED
    BY <2>1, <2>3
<1> QED
  BY <1>1, Initial, Inductive, PTL DEF Spec

-----------------------------------------------------------------------------
(* How the pins of a host and the key it serves can change.                *)

(* No step but a rename changes the pins.                                  *)
LEMMA RenameOnly ==
  ASSUME IInv, [Next]_vars, ~Parallel
  PROVE  \/ pins' = pins
         \/ \E h \in Hosts : RewriteRename(h)
<1>1. CASE Kill \/ \E h \in Hosts : LogIn(h) \/ Stop(h) \/ HostRestart(h)
  BY <1>1 DEF Kill, LogIn, Stop, HostRestart, fileVars, pins
<1>2. ASSUME NEW h \in Hosts, Step(h) PROVE pins' = pins \/ RewriteRename(h)
  <2>1. CASE RewriteOpen(h)
    BY <2>1 DEF RewriteOpen, IInv, TypeOK, pins
  <2>2. CASE RewriteWrite(h)
    BY <2>2 DEF RewriteWrite, IInv, TypeOK, HostInv, FileInv, pins
  <2> QED
    BY <1>2, <2>1, <2>2 DEF Step, Probe, Act, Generate, RewriteRead, InstallRm, InstallMv,
       InstallRestart, InstallMark, Dial, ProbeAgain, fileVars, pins
<1> QED
  BY <1>1, <1>2 DEF Next, vars, fileVars, pins

(* A rename adds a key made on the host to its pins, or leaves the one     *)
(* they end in, which the host serves.                                     *)
LEMMA RenameKeys ==
  ASSUME IInv, NEW h \in Hosts, RewriteRename(h)
  PROVE  /\ \A g \in Hosts \ {h} : pins'[g] = pins[g]
         /\ key[h] # Seed /\ key[h] # NoKey
         /\ \/ /\ KeysIn(pins'[h]) = KeysIn(pins[h]) \cup {key[h]} /\ key[h] <= MaxKey
            \/ /\ KeysIn(pins'[h]) = {key[h]} /\ key[h] = served[h]
               /\ key[h] \in KeysIn(pins[h])
         /\ UNCHANGED served
<1>1. HostInv(h) /\ pc[h] = "rename" /\ pins[h] \in Seq(Nat) /\ key[h] \in Nat
  BY DEF IInv, TypeOK, RewriteRename, pins
<1>2. key[h] # Seed /\ key[h] # NoKey
  BY <1>1 DEF HostInv, RunInv, Rewrites
<1>3. CASE edit[h] = "add"
  <2>1. KeysIn(pins'[h]) = KeysIn(pins[h]) \cup {key[h]}
    <3>1. pins'[h] = Append(pins[h], key[h])
      BY <1>3, Renamed
    <3>2. KeysIn(Append(pins[h], key[h])) = KeysIn(pins[h]) \cup {key[h]}
      BY <1>1, Appended
    <3> QED
      BY <3>1, <3>2
  <2>2. pc[h] \in Rewrites
    BY <1>1 DEF Rewrites
  <2>3. key[h] <= MaxKey
    BY <1>1, <1>3, <2>2, Zenon DEF HostInv, RunInv
  <2> QED
    BY <1>2, <2>1, <2>3, Renamed DEF RewriteRename, hostVars
<1>4. CASE edit[h] = "set"
  <2>1. KeysIn(pins'[h]) = {key[h]}
    <3>1. pins'[h] = <<key[h]>>
      BY <1>4, Renamed
    <3>2. KeysIn(<<key[h]>>) = {key[h]}
      BY <1>1, Appended
    <3> QED
      BY <3>1, <3>2
  <2>2. marker[h] /\ key[h] = Last(pins[h])
    BY <1>1, <1>4 DEF HostInv, RunInv, Rewrites
  <2>3. key[h] = served[h] /\ served[h] \in KeysIn(pins[h])
    BY <1>1, <1>2, <2>2 DEF HostInv, KeyInv
  <2> QED
    BY <1>2, <2>1, <2>3, Renamed DEF RewriteRename, hostVars
<1> QED
  BY <1>3, <1>4 DEF IInv, TypeOK

(* The seeded key never passes again once it has stopped passing.          *)
THEOREM SeedNeverReturnsAlways == ASSUME ~Parallel PROVE Spec => SeedNeverReturns
<1> DEFINE Stays == \A h \in Hosts : Seed \notin KeysIn(pins[h]) => Seed \notin KeysIn(pins'[h])
<1>1. IInv /\ [Next]_vars => [Stays]_vars
  <2> SUFFICES ASSUME IInv, [Next]_vars PROVE Stays
    OBVIOUS
  <2>1. CASE pins' = pins
    BY <2>1
  <2>2. ASSUME NEW h \in Hosts, RewriteRename(h), NEW g \in Hosts, Seed \notin KeysIn(pins[g])
        PROVE  Seed \notin KeysIn(pins'[g])
    <3>1. CASE g = h
      BY <2>2, <3>1, RenameKeys
    <3>2. CASE g # h
      BY <2>2, <3>2, RenameKeys
    <3> QED
      BY <3>1, <3>2
  <2> QED
    BY <2>1, <2>2, RenameOnly
<1> QED
  BY <1>1, Initial, Inductive, PTL DEF Spec, SeedNeverReturns

-----------------------------------------------------------------------------
(* The rotation implements the trust it promises.                          *)

(* A step of a rotation is a step of the trust or leaves it alone.         *)
LEMMA TrustStep ==
  ASSUME IInv, [Next]_vars, ~Parallel
  PROVE  [Trust!Next]_(Trust!vars)
<1> DEFINE trusted == [h \in Hosts |-> KeysIn(pins[h])]
<1>1. CASE pins' = pins
  <2>1. trusted' = trusted
    BY <1>1
  <2>2. \/ UNCHANGED served
        \/ \E h \in Hosts : served' = [served EXCEPT ![h] = disk[h]]
    BY DEF Next, vars, hostVars, Kill, LogIn, Stop, HostRestart, Step, Probe, Act,
       Generate, RewriteRead, RewriteOpen, RewriteWrite, RewriteRename, InstallRm, InstallMv,
       InstallRestart, InstallMark, Dial, ProbeAgain
  <2>3. ASSUME NEW h \in Hosts, served' = [served EXCEPT ![h] = disk[h]]
        PROVE  Trust!Switch(h)
    <3>1. disk[h] \in trusted[h] \cup {NoKey}
      BY DEF IInv, HostInv, KeyInv
    <3> QED
      BY <2>1, <2>3, <3>1 DEF Trust!Switch, Trust!NoKey
  <2> QED
    BY <2>1, <2>2, <2>3 DEF Trust!Next, Trust!vars
<1>2. ASSUME NEW h \in Hosts, RewriteRename(h) PROVE Trust!Next
  <2>1. key[h] \in Nat /\ MaxKey \in Nat
    BY ConstantsAssumption DEF IInv, TypeOK
  <2>2. CASE KeysIn(pins'[h]) = KeysIn(pins[h]) \cup {key[h]} /\ key[h] <= MaxKey
    <3>1. key[h] \in (Seed..MaxKey) \ {Trust!Seed, Trust!NoKey}
      BY <1>2, <2>1, <2>2, RenameKeys DEF Trust!Seed, Trust!NoKey
    <3>2. trusted' = [trusted EXCEPT ![h] = @ \cup {key[h]}]
      BY <1>2, <2>2, RenameKeys
    <3> QED
      BY <1>2, <3>1, <3>2, RenameKeys DEF Trust!Next, Trust!Trust
  <2>3. CASE KeysIn(pins'[h]) = {key[h]} /\ key[h] = served[h]
    <3>1. served[h] \notin {Trust!Seed, Trust!NoKey}
      BY <1>2, <2>3, RenameKeys DEF Trust!Seed, Trust!NoKey
    <3>2. trusted' = [trusted EXCEPT ![h] = {served[h]}]
      BY <1>2, <2>3, RenameKeys
    <3> QED
      BY <1>2, <3>1, <3>2, RenameKeys DEF Trust!Next, Trust!Settle
  <2> QED
    BY <1>2, <2>2, <2>3, RenameKeys
<1> QED
  BY <1>1, <1>2, RenameOnly

(* Every behaviour of the rotation is one of PinTrust.                     *)
THEOREM ImplementsTrust == ASSUME ~Parallel PROVE Spec => TrustSpec
<1>1. Init => Trust!Init
  <2> SUFFICES ASSUME Init PROVE Trust!Init
    OBVIOUS
  <2>1. ASSUME NEW h \in Hosts PROVE KeysIn(pins[h]) = {Seed}
    <3>1. pins[h] = <<Seed>> /\ pins[h] \in Seq(Nat)
      BY ConstantsAssumption DEF Init, pins
    <3> QED
      BY <3>1 DEF KeysIn
  <2> QED
    BY <2>1 DEF Init, Trust!Init, Trust!Seed
<1> QED
  BY <1>1, Initial, Inductive, TrustStep, PTL DEF Spec, TrustSpec, Trust!Spec
-----------------------------------------------------------------------------
(* Any number of hosts at a time.                                          *)

(* Every file, and every buffer on its way to one, has keys of the host's. *)
FilesOwn ==
  \A h \in Hosts :
    /\ \A i \in Inodes : KeysIn(inode[i][h]) \subseteq Seed..made[h]
    /\ \A g \in Hosts : KeysIn(buf[g][h]) \subseteq Seed..made[h]

(* The key a goroutine works with is the host's, a new one until the       *)
(* marker is written; the steps of the install bring it to the disk, then  *)
(* to sshd.                                                                *)
Working    == Rewrites \cup {"rm", "mv", "restart", "mark", "dial"}
Adding(h)  == pc[h] \in Rewrites /\ edit[h] # "set"
Setting(h) == pc[h] \in Rewrites /\ edit[h] = "set"

KeysOwn(h) ==
  /\ made[h] >= Seed
  /\ pc[h] \in Working => key[h] \in Seed..made[h]
  /\ Setting(h) \/ pc[h] = "dial" => marker[h]
  /\ Adding(h) \/ pc[h] \in {"generate", "rm", "mv", "restart", "mark"} => ~marker[h]
  /\ Adding(h) \/ pc[h] \in {"rm", "mv", "restart", "mark"} => key[h] # Seed
  /\ Adding(h) \/ pc[h] \in {"rm", "mv"} => newKey[h] = key[h]
  /\ pc[h] \in {"restart", "mark"} => disk[h] = key[h]
  /\ pc[h] = "mark" => served[h] = key[h]
  /\ marker[h] => served[h] = disk[h] /\ disk[h] \in (Seed + 1)..made[h]

OwnInv == TypeOK /\ FilesOwn /\ \A h \in Hosts : KeysOwn(h)

(* A step of one host's goroutine leaves the others where they are.        *)
LEMMA OthersStay ==
  ASSUME TypeOK, NEW h \in Hosts, NEW g \in Hosts \ {h}, LogIn(h) \/ Step(h) \/ Stop(h) \/ HostRestart(h)
  PROVE  Same(g)
<1> USE DEF TypeOK, Same, Goto, Key, runVars, hostVars
<1>1. CASE LogIn(h) \/ Stop(h) \/ HostRestart(h)
  BY <1>1 DEF LogIn, Stop, HostRestart
<1>2. CASE Probe(h) \/ ProbeAgain(h) \/ Generate(h)
  BY <1>2 DEF Probe, ProbeAgain, Generate
<1>3. CASE Act(h)
  BY <1>3 DEF Act
<1>4. CASE Dial(h)
  BY <1>4 DEF Dial
<1>5. CASE InstallRm(h) \/ InstallMv(h) \/ InstallRestart(h) \/ InstallMark(h)
  BY <1>5 DEF InstallRm, InstallMv, InstallRestart, InstallMark
<1>6. CASE RewriteRead(h)
  BY <1>6 DEF RewriteRead
<1>7. CASE RewriteOpen(h) \/ RewriteWrite(h)
  BY <1>7 DEF RewriteOpen, RewriteWrite
<1>8. CASE RewriteRename(h)
  BY <1>8 DEF RewriteRename
<1> QED
  BY <1>1, <1>2, <1>3, <1>4, <1>5, <1>6, <1>7, <1>8 DEF Step

(* The keys made on a host stay made.                                      *)
LEMMA MadeGrows ==
  ASSUME TypeOK, [Next]_vars, NEW h \in Hosts
  PROVE  made[h] \in Nat /\ (made'[h] = made[h] \/ made'[h] = made[h] + 1)
<1>1. made \in [Hosts -> Nat]
  BY DEF TypeOK
<1>2. made' = made \/ \E g \in Hosts : made' = [made EXCEPT ![g] = @ + 1]
  BY DEF Next, vars, hostVars, Kill, LogIn, Stop, HostRestart, Step, Probe, Act, Generate,
     RewriteRead, RewriteOpen, RewriteWrite, RewriteRename, InstallRm, InstallMv, InstallRestart,
     InstallMark, Dial, ProbeAgain
<1> QED
  BY <1>1, <1>2

(* A rewrite takes the pins there are, without some of them, and a key of  *)
(* the host's.                                                             *)
LEMMA FilesStayOwn == ASSUME OwnInv, [Next]_vars PROVE FilesOwn'
<1> DEFINE Own(s, h) == KeysIn(s) \subseteq Seed..made[h]
<1>t. /\ inode \in [Inodes -> [Hosts -> Seq(Nat)]] /\ buf \in [Hosts -> [Hosts -> Seq(Nat)]]
      /\ pinsName \in Inodes /\ key \in [Hosts -> Nat]
  BY DEF OwnInv, TypeOK
<1>0. \A h \in Hosts : (\A i \in Inodes : Own(inode[i][h], h)) /\ (\A g \in Hosts : Own(buf[g][h], h))
  BY DEF OwnInv, FilesOwn
<1>1. ASSUME NEW x \in Hosts, RewriteRead(x), NEW g \in Hosts, NEW h \in Hosts PROVE Own(buf'[g][h], h)
  <2>1. pins \in [Hosts -> Seq(Nat)] /\ Own(pins[h], h)
    BY <1>t, <1>0 DEF pins
  <2>2. buf' = [buf EXCEPT ![x] =
                 [pins EXCEPT ![x] = IF edit[x] = "set" THEN <<key[x]>> ELSE Append(@, key[x])]]
    BY <1>1 DEF RewriteRead
  <2>3. CASE g # x
    BY <1>t, <1>0, <2>2, <2>3
  <2>4. CASE g = x /\ h # x
    <3>1. buf'[g][h] = pins[h]
      BY <1>t, <2>1, <2>2, <2>4
    <3> QED
      BY <2>1, <3>1
  <2>5. CASE g = x /\ h = x
    <3>1. pc[h] = "read"
      BY <1>1, <2>5 DEF RewriteRead
    <3>2. key[h] \in Seed..made[h]
      BY <3>1 DEF OwnInv, KeysOwn, Working, Rewrites
    <3>3. buf'[g][h] = <<key[h]>> \/ buf'[g][h] = Append(pins[h], key[h])
      BY <1>t, <2>1, <2>2, <2>5
    <3>4. KeysIn(<<key[h]>>) = {key[h]} /\ KeysIn(Append(pins[h], key[h])) = KeysIn(pins[h]) \cup {key[h]}
      BY <1>t, <2>1, Appended
    <3> QED
      BY <2>1, <3>2, <3>3, <3>4
  <2> QED
    BY <2>3, <2>4, <2>5
<1>2. ASSUME NEW x \in Hosts, RewriteOpen(x), NEW i \in Inodes, NEW h \in Hosts PROVE Own(inode'[i][h], h)
  <2>1. PICK j : inode' = [inode EXCEPT ![j] = [g \in Hosts |-> <<>>]]
    BY <1>2 DEF RewriteOpen
  <2>2. inode'[i][h] = inode[i][h] \/ inode'[i][h] = <<>>
    BY <1>t, <2>1
  <2>3. KeysIn(<<>>) = {}
    BY DEF KeysIn
  <2> QED
    BY <1>0, <2>2, <2>3
<1>3. ASSUME NEW x \in Hosts, RewriteWrite(x), NEW i \in Inodes, NEW h \in Hosts PROVE Own(inode'[i][h], h)
  <2>1. inode' = [inode EXCEPT ![fd[x]] = buf[x]]
    BY <1>3 DEF RewriteWrite
  <2>2. inode'[i][h] = inode[i][h] \/ inode'[i][h] = buf[x][h]
    BY <1>t, <2>1
  <2> QED
    BY <1>0, <2>2
<1>4. \/ UNCHANGED <<inode, buf>>
      \/ \E x \in Hosts : \/ RewriteRead(x) /\ UNCHANGED inode
                          \/ (RewriteOpen(x) \/ RewriteWrite(x)) /\ UNCHANGED buf
  BY DEF Next, vars, fileVars, runVars, Kill, LogIn, Stop, HostRestart, Step, Probe, Act, Generate,
     RewriteRead, RewriteOpen, RewriteWrite, RewriteRename, InstallRm, InstallMv, InstallRestart,
     InstallMark, Dial, ProbeAgain
<1>5. ASSUME NEW h \in Hosts
      PROVE  (\A i \in Inodes : Own(inode'[i][h], h)) /\ (\A g \in Hosts : Own(buf'[g][h], h))
  BY <1>0, <1>1, <1>2, <1>3, <1>4
<1>6. ASSUME NEW h \in Hosts PROVE Seed..made[h] \subseteq Seed..made'[h]
  BY MadeGrows DEF OwnInv
<1> QED
  BY <1>5, <1>6 DEF FilesOwn

(* A host whose keys, marker and goroutine stay keeps its keys.            *)
LEMMA KeysStayOwn ==
  ASSUME NEW h \in Hosts, KeysOwn(h), Same(h)
  PROVE  KeysOwn(h)'
BY DEF KeysOwn, Adding, Setting, Working, Same

(* The steps of a host's own goroutine.                                    *)
LEMMA OwnKeysStep ==
  ASSUME OwnInv, NEW h \in Hosts, LogIn(h) \/ Step(h) \/ Stop(h) \/ HostRestart(h)
  PROVE  KeysOwn(h)'
<1>0. KeysOwn(h) /\ TypeOK
  BY DEF OwnInv
<1>t. /\ made \in [Hosts -> Nat] /\ key \in [Hosts -> Nat] /\ newKey \in [Hosts -> Nat]
      /\ disk \in [Hosts -> Nat] /\ served \in [Hosts -> Nat] /\ marker \in [Hosts -> BOOLEAN]
      /\ edit \in [Hosts -> {"add", "set"}]
  BY <1>0 DEF TypeOK
<1>p. ASSUME NEW s, Goto(h, s) PROVE pc'[h] = s
  BY <1>0, <1>p DEF Goto, TypeOK
<1> USE DEF KeysOwn, Adding, Setting, Working, Rewrites
<1>1. ASSUME pc'[h] \in {"idle", "probe", "act"}, made'[h] = made[h], marker'[h] = marker[h], disk'[h] = disk[h],
             served'[h] = served[h] \/ served'[h] = disk[h]
      PROVE  KeysOwn(h)'
  BY <1>0, <1>1
<1>2. CASE LogIn(h) \/ Stop(h) \/ Probe(h) \/ ProbeAgain(h)
  <2>1. pc'[h] \in {"idle", "probe", "act"} /\ UNCHANGED hostVars
    BY <1>2, <1>p DEF LogIn, Stop, Probe, ProbeAgain
  <2> QED
    BY <1>1, <2>1 DEF hostVars
<1>3. CASE HostRestart(h)
  <2>1. pc'[h] = "idle" /\ UNCHANGED <<made, marker, disk>> /\ served'[h] = disk[h]
    BY <1>3, <1>p, <1>t DEF HostRestart
  <2> QED
    BY <1>1, <2>1
<1>4. CASE Act(h)
  <2>0. UNCHANGED hostVars /\ pc[h] = "act"
    BY <1>4 DEF Act
  <2>1. CASE ~marker[h]
    <3>1. pc'[h] = "generate"
      BY <1>4, <1>p, <2>1 DEF Act
    <3> QED
      BY <1>0, <2>0, <2>1, <3>1 DEF hostVars
  <2>2. CASE marker[h] /\ pins[h] = <<>>
    <3>1. pc'[h] = "idle"
      BY <1>4, <1>p, <2>2 DEF Act
    <3> QED
      BY <1>1, <2>0, <3>1 DEF hostVars
  <2>3. CASE marker[h] /\ pins[h] # <<>>
    <3>1. pc'[h] = "dial"
      BY <1>4, <1>p, <2>3 DEF Act
    <3>2. key'[h] = Last(pins[h])
      BY <1>4, <1>t, <2>3 DEF Act, Key
    <3>3. pins[h] \in Seq(Nat) /\ KeysIn(pins[h]) \subseteq Seed..made[h]
      BY <1>0 DEF OwnInv, FilesOwn, TypeOK, pins
    <3>4. Last(pins[h]) \in Seed..made[h]
      BY <2>3, <3>3, LastIn
    <3> QED
      BY <1>0, <2>0, <2>3, <3>1, <3>2, <3>4 DEF hostVars
  <2> QED
    BY <2>1, <2>2, <2>3
<1>5. CASE Generate(h)
  <2>1. /\ pc'[h] = "read" /\ pc[h] = "generate" /\ edit'[h] = "add" /\ made'[h] = made[h] + 1
        /\ key'[h] = made[h] + 1 /\ newKey'[h] = made[h] + 1
        /\ UNCHANGED <<disk, served, marker>>
    BY <1>5, <1>p, <1>t DEF Generate, Key
  <2> QED
    BY <1>0, <1>t, <2>1
<1>6. CASE RewriteRead(h) \/ RewriteOpen(h) \/ RewriteWrite(h)
  <2>1. /\ pc'[h] \in Rewrites /\ pc[h] \in Rewrites /\ UNCHANGED <<edit, key, hostVars>>
    BY <1>6, <1>p DEF RewriteRead, RewriteOpen, RewriteWrite
  <2> QED
    BY <1>0, <2>1 DEF hostVars
<1>7. CASE RewriteRename(h)
  <2>1. /\ pc[h] \in Rewrites /\ UNCHANGED <<runVars, hostVars>>
        /\ pc'[h] \in {"idle", "probeAgain", "rm"} /\ (pc'[h] = "rm" => edit[h] = "add")
    BY <1>7, <1>p DEF RewriteRename
  <2> QED
    BY <1>0, <2>1 DEF hostVars, runVars
<1>8. CASE InstallRm(h)
  <2>1. /\ pc[h] = "rm" /\ pc'[h] = "mv" /\ UNCHANGED <<key, edit, made, newKey, served, marker>>
    BY <1>8, <1>p DEF InstallRm, runVars
  <2> QED
    BY <1>0, <2>1
<1>9. CASE InstallMv(h)
  <2>1. /\ pc[h] = "mv" /\ pc'[h] = "restart" /\ disk'[h] = newKey[h]
        /\ UNCHANGED <<key, edit, made, served, marker>>
    BY <1>9, <1>p, <1>t DEF InstallMv, runVars
  <2> QED
    BY <1>0, <2>1
<1>10. CASE InstallRestart(h)
  <2>1. /\ pc[h] = "restart" /\ pc'[h] = "mark" /\ served'[h] = disk[h]
        /\ UNCHANGED <<key, edit, made, newKey, disk, marker>>
    BY <1>10, <1>p, <1>t DEF InstallRestart, runVars
  <2> QED
    BY <1>0, <2>1
<1>11. CASE InstallMark(h)
  <2>1. /\ pc[h] = "mark" /\ pc'[h] = "dial" /\ marker'[h]
        /\ UNCHANGED <<key, edit, made, newKey, disk, served>>
    BY <1>11, <1>p, <1>t DEF InstallMark, runVars
  <2>2. key[h] \in Seed..made[h] /\ key[h] # Seed /\ disk[h] = key[h] /\ served[h] = key[h] /\ made[h] >= Seed
    BY <1>0, <2>1
  <2>3. disk[h] \in (Seed + 1)..made[h]
    BY <1>t, <2>2
  <2> QED
    BY <2>1, <2>2, <2>3
<1>12. CASE Dial(h)
  <2>1. /\ pc[h] = "dial" /\ UNCHANGED <<key, hostVars>>
        /\ pc'[h] = "idle" \/ (pc'[h] = "read" /\ edit'[h] = "set")
    BY <1>12, <1>p, <1>t DEF Dial
  <2> QED
    BY <1>0, <2>1 DEF hostVars
<1> QED
  BY <1>2, <1>3, <1>4, <1>5, <1>6, <1>7, <1>8, <1>9, <1>10, <1>11, <1>12 DEF Step

LEMMA OwnKept == ASSUME OwnInv, [Next]_vars PROVE OwnInv'
<1>0. TypeOK /\ \A h \in Hosts : KeysOwn(h)
  BY DEF OwnInv
<1>1. ASSUME NEW g \in Hosts PROVE KeysOwn(g)'
  <2>1. CASE UNCHANGED vars
    BY <1>0, <2>1, KeysStayOwn DEF vars, fileVars, runVars, hostVars, Same
  <2>2. CASE Kill
    BY <1>0, <2>2 DEF Kill, KeysOwn, Adding, Setting, Working, Rewrites, hostVars
  <2>3. ASSUME NEW h \in Hosts, LogIn(h) \/ Step(h) \/ Stop(h) \/ HostRestart(h) PROVE KeysOwn(g)'
    BY <1>0, <2>3, OthersStay, KeysStayOwn, OwnKeysStep
  <2> QED
    BY <2>1, <2>2, <2>3 DEF Next
<1> QED
  BY <1>1, FilesStayOwn, TypeStep DEF OwnInv

(* Whatever becomes of the pins file when rewrites of several hosts mix, a *)
(* pin is a key of its own host, and a host marked rotated has left the    *)
(* seeded key for good (RotateHostKey.Act, `rehearse core`).               *)
THEOREM OwnKeysAlways == Spec => []OwnKeysOnly
<1>1. Init => OwnInv
  <2> SUFFICES ASSUME Init PROVE OwnInv
    OBVIOUS
  <2>1. KeysIn(<<Seed>>) = {Seed} /\ KeysIn(<<>>) = {}
    BY DEF KeysIn
  <2>2. FilesOwn
    <3>1. ASSUME NEW h \in Hosts
          PROVE  /\ made[h] = Seed /\ \A i \in Inodes : inode[i][h] = <<Seed>>
                 /\ \A g \in Hosts : buf[g][h] = <<>>
      BY DEF Init
    <3>2. Seed \in Seed..Seed
      OBVIOUS
    <3> HIDE DEF Seed
    <3> QED
      BY <2>1, <3>1, <3>2 DEF FilesOwn
  <2>3. ASSUME NEW h \in Hosts PROVE KeysOwn(h)
    <3>1. pc[h] = "idle" /\ ~marker[h] /\ made[h] = Seed
      BY DEF Init
    <3> QED
      BY <3>1 DEF KeysOwn, Adding, Setting, Working, Rewrites
  <2> QED
    BY <2>2, <2>3, InitialTypes DEF OwnInv
<1>2. OwnInv => OwnKeysOnly
  <2> SUFFICES ASSUME OwnInv, NEW h \in Hosts
               PROVE  /\ KeysIn(pins[h]) \subseteq Seed..made[h]
                      /\ marker[h] => served[h] = disk[h] /\ disk[h] \in (Seed + 1)..made[h]
    BY DEF OwnKeysOnly
  <2>1. pinsName \in Inodes
    BY DEF OwnInv, TypeOK
  <2> QED
    BY <2>1 DEF OwnInv, FilesOwn, KeysOwn, pins
<1> QED
  BY <1>1, <1>2, OwnKept, PTL DEF Spec
=============================================================================
