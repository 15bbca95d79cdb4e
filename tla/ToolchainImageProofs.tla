------------------------ MODULE ToolchainImageProofs ------------------------
(***************************************************************************)
(* Proofs about ToolchainImage, for any number of shells, images and edits *)
(* of toolchain/: a pin names an image in the registry, releases follow    *)
(* the pin, backups that take turns leave a snapshot of one image.         *)
(***************************************************************************)
EXTENDS ToolchainImage, TLAPS

-----------------------------------------------------------------------------
(* The invariant.                                                           *)

\* What a command at each place works from: a tag that names an image; a
\* digest, if it is one, of an image that has been pushed; an image to copy.
CommandOK(c) ==
  /\ c.pc = "push" => local[c.rt] \in Built
  /\ c.pc = "extract" => /\ c.file \in pushed \cup {NoImage, Torn}
                         /\ c.stdout \in pushed \cup {NoImage}
  /\ c.pc \in {"truncate", "write"} => c.image \in pushed
  /\ c.pc \in {"clear", "copy"} => c.image \in Built

ShellsOK == \A o \in Shells : CommandOK(sh[o])

\* Where no two backups overlap, the trees in the volume during one are those
\* it has copied.
BackupOK ==
  ~ crossed =>
    /\ \A o, p \in Shells : BackingUp(o) /\ BackingUp(p) => o = p
    /\ \A o \in Shells, t \in Target :
         At(o, "copy") => volume[t] \in {NoImage, sh[o].image}

\* The workflow run works in the image its commit pins.
RunOK ==
  /\ ci.pc \in {"emit", "package"} => /\ ci.image = ci.commit.pin
                                      /\ ci.image \in Built
  /\ ci.pc = "package" => ci.versions = images[ci.image]

IInv == TypeOK /\ ShellsOK /\ PinCanBePulled /\ BackupOK /\ VolumeIsOfOneImage /\ RunOK

LEMMA Constants ==
  /\ MaxImages \in Nat \ {0} /\ MaxTree \in Nat
  /\ NoImage \notin Image /\ Torn \notin Image /\ Torn # NoImage
  /\ Idle \in Command /\ NoRun \in Run
<1>1. MaxImages \in Nat \ {0} /\ MaxTree \in Nat
  BY ImageConstants
<1>2. NoImage \notin Image /\ Torn \notin Image /\ Torn # NoImage
  BY DEF NoImage, Torn, Image
<1>3. Idle \in Command
  BY <1>1 DEF Idle, Command, Runtime, Version, Digest
<1>4. NoRun \in Run
  BY <1>1 DEF NoRun, Run, Commit, Version, Digest
<1> QED
  BY <1>1, <1>2, <1>3, <1>4

LEMMA BuiltImages ==
  ASSUME TypeOK
  PROVE  Len(images) \in Nat /\ Built \subseteq Image
<1>1. Len(images) \in Nat /\ Len(images) <= MaxImages
  BY DEF TypeOK
<1> QED
  BY <1>1, Constants DEF Built, Image

LEMMA InitInv == Init => IInv
<1> SUFFICES ASSUME Init PROVE IInv
  OBVIOUS
<1>0. crossed \in BOOLEAN
  BY DEF Init
<1>1. TypeOK
  BY <1>0, Constants DEF Init, TypeOK, Version, Commit, Digest
<1>2. ShellsOK /\ BackupOK
  BY DEF Init, ShellsOK, CommandOK, BackupOK, BackingUp, At, Idle
<1>3. PinCanBePulled /\ VolumeIsOfOneImage /\ RunOK
  BY Constants DEF Init, PinCanBePulled, VolumeIsOfOneImage, RunOK, NoRun
<1> QED
  BY <1>1, <1>2, <1>3 DEF IInv

-----------------------------------------------------------------------------
(* Steps that change one command and nothing else.                          *)

LEMMA CommandStep ==
  ASSUME IInv, NEW o \in Shells, NEW c \in Command, Becomes(o, c), CommandOK(c),
         c.pc # "copy",
         crossed' \in BOOLEAN, crossed => crossed',
         c.pc = "clear" => crossed' \/ \A p \in Shells : ~ BackingUp(p),
         UNCHANGED <<disk, volume, registry, github>>
  PROVE  IInv'
<1>1. UNCHANGED <<tree, images, local, pin, volume, tagged, pushed, head, ci>>
  BY DEF disk, registry, github
<1>2. /\ sh \in [Shells -> Command]
      /\ sh' = [sh EXCEPT ![o] = c]
  BY DEF IInv, TypeOK, Becomes
<1>3. TypeOK'
  BY <1>1, <1>2 DEF IInv, TypeOK, Built
<1>4. ShellsOK'
  BY <1>1, <1>2 DEF IInv, ShellsOK, CommandOK, Built
<1>5. BackupOK'
  BY <1>1, <1>2 DEF IInv, BackupOK, BackingUp, At
<1>6. PinCanBePulled' /\ VolumeIsOfOneImage' /\ RunOK'
  BY <1>1 DEF IInv, PinCanBePulled, VolumeIsOfOneImage, RunOK, Built
<1> QED
  BY <1>3, <1>4, <1>5, <1>6 DEF IInv

LEMMA InvStartImage ==
  ASSUME IInv, NEW o \in Shells, NEW r \in Runtime, NEW push \in BOOLEAN,
         StartImage(o, r, push)
  PROVE  IInv'
<1> DEFINE c == [Idle EXCEPT !.pc = "build", !.rt = r, !.push = push, !.src = tree]
<1>1. c \in Command /\ c.pc = "build"
  BY Constants DEF Command, Idle, IInv, TypeOK
<1>2. CommandOK(c)
  BY <1>1 DEF CommandOK
<1> QED
  BY <1>1, <1>2, CommandStep DEF StartImage, snapshot, IInv, TypeOK

LEMMA InvExtract ==
  ASSUME IInv, NEW o \in Shells, Extract(o)
  PROVE  IInv'
<1> DEFINE d == extract_pushed_digest(o)
           c == [Idle EXCEPT !.pc = "truncate", !.image = d]
<1>1. d \in Image /\ d \in pushed
  BY Constants DEF Extract, extract_pushed_digest, At, IInv, ShellsOK, CommandOK
<1>2. c \in Command /\ c.pc = "truncate" /\ c.image = d
  BY <1>1, Constants DEF Command, Idle, Digest
<1>3. CommandOK(c)
  BY <1>1, <1>2 DEF CommandOK
<1> QED
  BY <1>2, <1>3, CommandStep DEF Extract, snapshot, IInv, TypeOK

LEMMA InvIdle ==
  ASSUME IInv, NEW o \in Shells, NoDigest(o) \/ Dies(o)
  PROVE  IInv'
<1>1. Idle \in Command /\ Idle.pc = "idle" /\ CommandOK(Idle)
  BY Constants DEF Idle, CommandOK
<1> QED
  BY <1>1, CommandStep DEF NoDigest, Dies, snapshot, IInv, TypeOK

LEMMA InvStartBackup ==
  ASSUME IInv, NEW o \in Shells, StartBackup(o)
  PROVE  IInv'
<1> DEFINE i == local["podman"]
           c == [Idle EXCEPT !.pc = "clear", !.image = i, !.todo = Target]
<1>1. i \in Built /\ i \in Digest
  BY BuiltImages DEF StartBackup, require_image, IInv, TypeOK, Digest, Runtime
<1>2. c \in Command /\ c.pc = "clear" /\ c.image = i
  BY <1>1, Constants DEF Command, Idle
<1>3. CommandOK(c)
  BY <1>1, <1>2 DEF CommandOK
<1> QED
  BY <1>2, <1>3, CommandStep DEF StartBackup, IInv, TypeOK

-----------------------------------------------------------------------------
(* Steps that change more.                                                  *)

LEMMA InvEdit == ASSUME IInv, Edit PROVE IInv'
<1>1. UNCHANGED <<images, local, pin, volume, crossed, sh, tagged, pushed, head, ci>>
  BY DEF Edit, snapshot, registry, github
<1>2. tree' \in Version
  BY Constants DEF Edit, IInv, TypeOK, Version
<1>3. TypeOK'
  BY <1>1, <1>2 DEF IInv, TypeOK, Built
<1>4. ShellsOK' /\ BackupOK'
  BY <1>1 DEF IInv, ShellsOK, CommandOK, BackupOK, BackingUp, At, Built
<1>5. PinCanBePulled' /\ VolumeIsOfOneImage' /\ RunOK'
  BY <1>1 DEF IInv, PinCanBePulled, VolumeIsOfOneImage, RunOK, Built
<1> QED
  BY <1>3, <1>4, <1>5 DEF IInv

\* The branch and the workflow run are the only things that change.
LEMMA InvGithub ==
  ASSUME IInv, CommitAll \/ Dispatch \/ Pull \/ EmitVersions \/ Package \/ JobFails
  PROVE  IInv'
<1>1. UNCHANGED <<tree, images, local, pin, volume, crossed, sh, tagged, pushed>>
  BY DEF CommitAll, Dispatch, Pull, EmitVersions, Package, JobFails, disk, snapshot, registry
<1>2. \A i \in Built : images[i] \in Version
  BY DEF IInv, TypeOK, Built
<1>3. Built \subseteq Digest
  BY BuiltImages DEF IInv, Digest
<1>4. head' \in Commit /\ ci' \in Run
  <2>1. CASE CommitAll
    BY <2>1, <1>3 DEF CommitAll, IInv, TypeOK, Commit, Digest
  <2>2. CASE Dispatch
    BY <2>2, Constants DEF Dispatch, IInv, TypeOK, Run, NoRun
  <2>3. CASE Pull
    <3>1. ci.commit.pin \in Digest
      BY <2>3, <1>3 DEF Pull, IInv, TypeOK
    <3> QED
      BY <2>3, <3>1 DEF Pull, IInv, TypeOK, Run
  <2>4. CASE EmitVersions
    <3>1. images[ci.image] \in Version
      BY <2>4, <1>2 DEF EmitVersions, IInv, RunOK
    <3> QED
      BY <2>4, <3>1 DEF EmitVersions, IInv, TypeOK, Run
  <2>5. CASE Package \/ JobFails
    BY <2>5, Constants DEF Package, JobFails, IInv, TypeOK
  <2> QED
    BY <2>1, <2>2, <2>3, <2>4, <2>5
<1>5. RunOK'
  <2>1. CASE CommitAll
    BY <2>1, <1>1 DEF CommitAll, IInv, RunOK, Built
  <2>2. CASE Dispatch \/ Package \/ JobFails
    <3>1. ci'.pc \in {"none", "pull"}
      <4>1. [NoRun EXCEPT !.pc = "pull", !.commit = head].pc = "pull"
        BY DEF NoRun
      <4>2. NoRun.pc = "none"
        BY DEF NoRun
      <4> QED
        BY <2>2, <4>1, <4>2 DEF Dispatch, Package, JobFails
    <3> QED
      BY <3>1 DEF RunOK
  <2>3. CASE Pull
    <3>1. ci'.pc = "emit" /\ ci'.image = ci.commit.pin /\ ci'.commit = ci.commit
      BY <2>3 DEF Pull, IInv, TypeOK, Run
    <3>2. ci.commit.pin \in Built
      BY <2>3 DEF Pull, IInv, TypeOK
    <3> QED
      BY <3>1, <3>2, <1>1 DEF RunOK, Built
  <2>4. CASE EmitVersions
    <3>1. /\ ci'.image = ci.image /\ ci'.commit = ci.commit
          /\ ci'.versions = images[ci.image]
      BY <2>4 DEF EmitVersions, IInv, TypeOK, Run
    <3> QED
      BY <2>4, <3>1, <1>1 DEF EmitVersions, IInv, RunOK, Built
  <2> QED
    BY <2>1, <2>2, <2>3, <2>4
<1>6. TypeOK'
  BY <1>1, <1>4 DEF IInv, TypeOK, Built
<1>7. ShellsOK' /\ BackupOK' /\ PinCanBePulled' /\ VolumeIsOfOneImage'
  BY <1>1 DEF IInv, ShellsOK, CommandOK, BackupOK, BackingUp, At, Built,
              PinCanBePulled, VolumeIsOfOneImage
<1> QED
  BY <1>5, <1>6, <1>7 DEF IInv

\* An image more, and the tag moved to it.
LEMMA InvBuildImage ==
  ASSUME IInv, NEW o \in Shells, BuildImage(o)
  PROVE  IInv'
<1> DEFINE n == Len(images) + 1
           r == sh[o].rt
           c == IF sh[o].push THEN [Idle EXCEPT !.pc = "push", !.rt = r] ELSE Idle
<1>1. /\ UNCHANGED <<tree, pin, volume, crossed, tagged, pushed, head, ci>>
      /\ Len(images) < MaxImages /\ local' = [local EXCEPT ![r] = n]
      /\ images' = Append(images, sh[o].src)
      /\ sh' = [sh EXCEPT ![o] = c]
  BY DEF BuildImage, Becomes, snapshot, registry, github
<1>2. /\ sh[o] \in Command /\ images \in Seq(Version) /\ Len(images) \in Nat
      /\ r \in Runtime /\ sh[o].src \in Version
  BY BuiltImages DEF IInv, TypeOK, Command
<1>3. /\ images' \in Seq(Version) /\ Len(images') = n
      /\ \A i \in Built : images'[i] = images[i]
  BY <1>1, <1>2 DEF Built
<1>4. Built' = Built \cup {n} /\ n \in Nat /\ n <= MaxImages
  BY <1>1, <1>2, <1>3, Constants DEF Built
<1>5. local' \in [Runtime -> Built' \cup {NoImage}] /\ local'[r] = n
  BY <1>1, <1>2, <1>4 DEF IInv, TypeOK
<1>6. /\ c \in Command /\ c.pc \in {"push", "idle"}
      /\ c.pc = "push" => c.rt = r
  BY <1>2, Constants DEF Command, Idle
<1> HIDE DEF c
<1>7. TypeOK'
  <2>1. sh' \in [Shells -> Command]
    BY <1>1, <1>6 DEF IInv, TypeOK
  <2>2. Len(images') <= MaxImages
    BY <1>3, <1>4
  <2> QED
    BY <1>1, <1>3, <1>4, <1>5, <2>1, <2>2 DEF IInv, TypeOK
<1>8. ShellsOK'
  <2> SUFFICES ASSUME NEW p \in Shells PROVE CommandOK(sh[p])'
    BY DEF ShellsOK
  <2>1. CASE p = o
    BY <2>1, <1>1, <1>4, <1>5, <1>6 DEF CommandOK, IInv, TypeOK
  <2>2. CASE p # o
    <3>1. sh'[p] = sh[p] /\ CommandOK(sh[p]) /\ sh[p] \in Command
      BY <2>2, <1>1 DEF IInv, TypeOK, ShellsOK
    <3>2. sh[p].pc = "push" => local'[sh[p].rt] \in Built'
      BY <3>1, <1>1, <1>2, <1>4 DEF CommandOK, Command, IInv, TypeOK
    <3> QED
      BY <3>1, <3>2, <1>1, <1>4 DEF CommandOK
  <2> QED
    BY <2>1, <2>2
<1>9. BackupOK'
  BY <1>1, <1>6 DEF IInv, TypeOK, BackupOK, BackingUp, At
<1>10. PinCanBePulled' /\ VolumeIsOfOneImage' /\ RunOK'
  BY <1>1, <1>3, <1>4 DEF IInv, PinCanBePulled, VolumeIsOfOneImage, RunOK
<1> QED
  BY <1>7, <1>8, <1>9, <1>10 DEF IInv

\* The registry gains an image, the command goes on or ends.
LEMMA InvUpload ==
  ASSUME IInv, NEW o \in Shells, NEW c \in Command, At(o, "push"),
         Upload(local[sh[o].rt]), Becomes(o, c), UNCHANGED <<disk, snapshot, github>>,
         c.pc \in {"idle", "extract"},
         c.pc = "extract" => /\ c.file \in {local[sh[o].rt], NoImage, Torn}
                             /\ c.stdout \in {local[sh[o].rt], NoImage}
  PROVE  IInv'
<1> DEFINE i == local[sh[o].rt]
<1>1. /\ UNCHANGED <<tree, images, local, pin, volume, crossed, head, ci>>
      /\ tagged' = i /\ pushed' = pushed \cup {i} /\ sh' = [sh EXCEPT ![o] = c]
  BY DEF disk, snapshot, github, Upload, Becomes
<1>2. i \in Built
  BY DEF At, IInv, ShellsOK, CommandOK
<1>3. TypeOK'
  BY <1>1, <1>2 DEF IInv, TypeOK, Built
<1>4. CommandOK(c)'
  BY <1>1 DEF CommandOK
<1>5. ShellsOK'
  BY <1>1, <1>4 DEF IInv, TypeOK, ShellsOK, CommandOK, Built
<1>6. BackupOK'
  BY <1>1 DEF IInv, TypeOK, BackupOK, BackingUp, At
<1>7. PinCanBePulled' /\ VolumeIsOfOneImage' /\ RunOK'
  BY <1>1 DEF IInv, PinCanBePulled, VolumeIsOfOneImage, RunOK, Built
<1> QED
  BY <1>3, <1>5, <1>6, <1>7 DEF IInv

LEMMA InvPush ==
  ASSUME IInv, NEW o \in Shells,
         PushLost(o) \/ \E file, stdout \in -1 .. MaxImages : Push(o, file, stdout)
  PROVE  IInv'
<1>1. CASE PushLost(o)
  BY <1>1, Constants, InvUpload DEF PushLost, Idle
<1>2. ASSUME NEW file, NEW stdout, Push(o, file, stdout) PROVE IInv'
  <2> DEFINE i == local[sh[o].rt]
             c == [sh[o] EXCEPT !.pc = "extract", !.file = file, !.stdout = stdout]
  <2>1. i \in Built /\ i \in Digest /\ sh[o] \in Command
    BY <1>2, BuiltImages DEF Push, At, IInv, TypeOK, ShellsOK, CommandOK, Digest
  <2>2. file \in {i, NoImage, Torn} /\ stdout \in {i, NoImage}
    BY <1>2 DEF Push
  <2>3. file \in Digest \cup {Torn} /\ stdout \in Digest
    BY <2>1, <2>2 DEF Digest
  <2>4. c \in Command /\ c.pc = "extract" /\ c.file = file /\ c.stdout = stdout
    BY <2>1, <2>3 DEF Command
  <2> QED
    BY <1>2, <2>2, <2>4, InvUpload DEF Push
<1> QED
  BY <1>1, <1>2

\* The pin is cut short, then it is the digest of an image that was pushed.
LEMMA InvPin ==
  ASSUME IInv, NEW o \in Shells, Truncate(o) \/ write_image_digest(o)
  PROVE  IInv'
<1> PICK c \in Command :
      /\ sh' = [sh EXCEPT ![o] = c]
      /\ c.pc \in {"idle", "write"}
      /\ c.pc = "write" => c.image = sh[o].image
  <2>1. CASE Truncate(o)
    <3> DEFINE c == [sh[o] EXCEPT !.pc = "write"]
    <3>1. c \in Command /\ c.pc = "write" /\ c.image = sh[o].image
      BY DEF IInv, TypeOK, Command
    <3> QED
      BY <2>1, <3>1 DEF Truncate, Goto, Becomes
  <2>2. CASE write_image_digest(o)
    <3>1. Idle \in Command /\ Idle.pc = "idle"
      BY Constants DEF Idle
    <3> QED
      BY <2>2, <3>1 DEF write_image_digest, Becomes
  <2> QED
    BY <2>1, <2>2
<1>1. UNCHANGED <<tree, images, local, volume, crossed, tagged, pushed, head, ci>>
  BY DEF Truncate, write_image_digest, snapshot, registry, github
<1>2. sh[o].image \in pushed
  BY DEF Truncate, write_image_digest, At, IInv, ShellsOK, CommandOK
<1>3. pin' \in pushed \cup {NoImage}
  BY <1>2 DEF Truncate, write_image_digest
<1>4. TypeOK'
  BY <1>1, <1>3 DEF IInv, TypeOK, Built
<1>5. ShellsOK'
  BY <1>1, <1>2 DEF IInv, TypeOK, ShellsOK, CommandOK, Built
<1>6. BackupOK'
  BY <1>1 DEF IInv, TypeOK, BackupOK, BackingUp, At
<1>7. PinCanBePulled' /\ VolumeIsOfOneImage' /\ RunOK'
  BY <1>1, <1>3 DEF IInv, PinCanBePulled, VolumeIsOfOneImage, RunOK, Built
<1> QED
  BY <1>4, <1>5, <1>6, <1>7 DEF IInv

\* The volume is emptied, in part if rm dies; the backup goes on or ends.
LEMMA InvClear ==
  ASSUME IInv, NEW o \in Shells, Clear(o) \/ ClearDies(o)
  PROVE  IInv'
<1>1. UNCHANGED <<tree, images, local, pin, tagged, pushed, head, ci>>
  BY DEF Clear, ClearDies, disk, registry, github
<1>2. PICK c \in Command :
        /\ sh' = [sh EXCEPT ![o] = c]
        /\ \/ /\ c.pc = "copy" /\ c.image = sh[o].image
              /\ volume' = [t \in Target |-> NoImage]
              /\ crossed' = (crossed /\ \E p \in Shells \ {o} : BackingUp(p))
           \/ c.pc = "idle" /\ crossed' = crossed
  <2>1. CASE Clear(o)
    <3> DEFINE c == [sh[o] EXCEPT !.pc = "copy"]
    <3>1. c \in Command /\ c.pc = "copy" /\ c.image = sh[o].image
      BY DEF IInv, TypeOK, Command
    <3> QED
      BY <2>1, <3>1 DEF Clear, Goto, Becomes
  <2>2. CASE ClearDies(o)
    <3>1. Idle \in Command /\ Idle.pc = "idle"
      BY Constants DEF Idle
    <3> QED
      BY <2>2, <3>1 DEF ClearDies, Becomes
  <2> QED
    BY <2>1, <2>2
<1>3. /\ volume' \in [Target -> Built \cup {NoImage, Torn}]
      /\ \A t \in Target : volume'[t] \in {volume[t], NoImage, Torn}
  BY DEF Clear, ClearDies, IInv, TypeOK
<1>4. BackingUp(o) /\ sh[o].image \in Built /\ sh[o] \in Command
  BY DEF Clear, ClearDies, At, BackingUp, IInv, TypeOK, ShellsOK, CommandOK
<1>5. TypeOK'
  <2>1. crossed' \in BOOLEAN
    BY <1>2 DEF IInv, TypeOK
  <2> QED
    BY <1>1, <1>2, <1>3, <2>1 DEF IInv, TypeOK, Built
<1>6. ShellsOK'
  <2>1. CommandOK(c)'
    BY <1>1, <1>2, <1>4 DEF CommandOK, Built
  <2> QED
    BY <1>1, <1>2, <2>1 DEF IInv, TypeOK, ShellsOK, CommandOK, Built
<1>7. BackupOK'
  <2> SUFFICES ASSUME ~ crossed' PROVE BackupOK'
    BY DEF BackupOK
  <2>1. \A p \in Shells \ {o} : sh'[p] = sh[p] /\ ~ BackingUp(p)
    BY <1>2, <1>4 DEF IInv, TypeOK, BackupOK
  <2>2. sh'[o] = c
    BY <1>2 DEF IInv, TypeOK
  <2> QED
    BY <1>2, <2>1, <2>2 DEF BackupOK, BackingUp, At
<1>8. PinCanBePulled' /\ RunOK'
  BY <1>1 DEF IInv, PinCanBePulled, RunOK, Built
<1>9. VolumeIsOfOneImage'
  BY <1>2, <1>3, Constants DEF IInv, VolumeIsOfOneImage
<1> QED
  BY <1>5, <1>6, <1>7, <1>8, <1>9 DEF IInv

\* A tree is copied, whole or torn.
LEMMA InvCopy ==
  ASSUME IInv, NEW o \in Shells, NEW t \in Target, Copy(o, t) \/ CopyDies(o, t)
  PROVE  IInv'
<1>1. UNCHANGED <<tree, images, local, pin, crossed, tagged, pushed, head, ci>>
  BY DEF Copy, CopyDies, disk, registry, github
<1>2. At(o, "copy") /\ BackingUp(o) /\ sh[o].image \in Built /\ sh[o] \in Command
  BY DEF Copy, CopyDies, At, BackingUp, IInv, TypeOK, ShellsOK, CommandOK
<1>3. PICK c \in Command :
        /\ sh' = [sh EXCEPT ![o] = c]
        /\ \/ c.pc = "idle"
           \/ c.pc = "copy" /\ c.image = sh[o].image /\ Copy(o, t)
  <2> DEFINE d == [sh[o] EXCEPT !.todo = @ \ {t}]
  <2>1. d \in Command /\ d.pc = "copy" /\ d.image = sh[o].image
    BY <1>2 DEF Command, At
  <2>2. Idle \in Command /\ Idle.pc = "idle"
    BY Constants DEF Idle
  <2>3. CASE Copy(o, t)
    BY <2>1, <2>2, <2>3 DEF Copy, Becomes
  <2>4. CASE CopyDies(o, t)
    BY <2>2, <2>4 DEF CopyDies, Becomes
  <2> QED
    BY <2>3, <2>4
<1>4. PICK i \in {sh[o].image, Torn} : volume' = [volume EXCEPT ![t] = i]
  BY DEF Copy, CopyDies, Copied
<1>5. TypeOK'
  BY <1>1, <1>2, <1>3, <1>4 DEF IInv, TypeOK, Built
<1>6. ShellsOK'
  <2>1. CommandOK(c)'
    BY <1>1, <1>2, <1>3 DEF CommandOK, Built
  <2> QED
    BY <1>1, <1>3, <2>1 DEF IInv, TypeOK, ShellsOK, CommandOK, Built
<1>7. BackupOK'
  <2> SUFFICES ASSUME ~ crossed' PROVE BackupOK'
    BY DEF BackupOK
  <2>0. ~ crossed
    BY <1>1
  <2>1. \A p \in Shells \ {o} : sh'[p] = sh[p] /\ ~ BackingUp(p)
    BY <1>2, <1>3, <2>0 DEF IInv, TypeOK, BackupOK
  <2>2. sh'[o] = c
    BY <1>3 DEF IInv, TypeOK
  <2>3. c.pc = "copy" => \A u \in Target : volume'[u] \in {NoImage, c.image}
    <3> SUFFICES ASSUME Copy(o, t) PROVE \A u \in Target : volume'[u] \in {NoImage, sh[o].image}
      BY <1>3
    <3>1. \A u \in Target : volume[u] \in {NoImage, sh[o].image}
      BY <1>2, <2>0 DEF IInv, BackupOK
    <3>2. volume' = [volume EXCEPT ![t] = sh[o].image]
      BY <3>1 DEF Copy, Copied
    <3> QED
      BY <3>1, <3>2 DEF IInv, TypeOK
  <2> QED
    BY <1>3, <2>1, <2>2, <2>3 DEF BackupOK, BackingUp, At
<1>8. PinCanBePulled' /\ RunOK'
  BY <1>1 DEF IInv, PinCanBePulled, RunOK, Built
<1>9. VolumeIsOfOneImage'
  <2> SUFFICES ASSUME ~ crossed' PROVE VolumeIsOfOneImage'
    BY DEF VolumeIsOfOneImage
  <2>1. \A u \in Target : volume'[u] \in {NoImage, Torn, sh[o].image}
    BY <1>1, <1>2, <1>4 DEF IInv, TypeOK, BackupOK
  <2> QED
    BY <2>1, Constants DEF VolumeIsOfOneImage
<1> QED
  BY <1>5, <1>6, <1>7, <1>8, <1>9 DEF IInv

-----------------------------------------------------------------------------
LEMMA NextInv == IInv /\ [Next]_vars => IInv'
<1> SUFFICES ASSUME IInv, [Next]_vars PROVE IInv'
  OBVIOUS
<1>1. CASE UNCHANGED vars
  <2>1. UNCHANGED <<tree, images, local, tagged, pushed, pin, volume, crossed, sh, head, ci>>
    BY <1>1 DEF vars, disk, snapshot, registry, github
  <2> QED
    BY <2>1 DEF IInv, TypeOK, ShellsOK, CommandOK, PinCanBePulled, BackupOK,
                BackingUp, At, VolumeIsOfOneImage, RunOK, Built
<1>2. CASE Edit
  BY <1>2, InvEdit
<1>3. CASE CommitAll \/ Dispatch \/ Pull \/ EmitVersions \/ Package \/ JobFails
  BY <1>3, InvGithub
<1>4. ASSUME NEW o \in Shells, StartBackup(o) PROVE IInv'
  BY <1>4, InvStartBackup
<1>5. ASSUME NEW o \in Shells, NEW r \in Runtime, NEW push \in BOOLEAN,
             StartImage(o, r, push)
      PROVE  IInv'
  BY <1>5, InvStartImage
<1>6. ASSUME NEW o \in Shells, Step(o) PROVE IInv'
  <2>1. CASE BuildImage(o)
    BY <2>1, InvBuildImage
  <2>2. CASE PushLost(o) \/ \E file, stdout \in -1 .. MaxImages : Push(o, file, stdout)
    BY <2>2, InvPush
  <2>3. CASE Extract(o)
    BY <2>3, InvExtract
  <2>4. CASE NoDigest(o) \/ Dies(o)
    BY <2>4, InvIdle
  <2>5. CASE Truncate(o) \/ write_image_digest(o)
    BY <2>5, InvPin
  <2>6. CASE Clear(o) \/ ClearDies(o)
    BY <2>6, InvClear
  <2>7. ASSUME NEW t \in Target, Copy(o, t) \/ CopyDies(o, t) PROVE IInv'
    BY <2>7, InvCopy
  <2> QED
    BY <1>6, <2>1, <2>2, <2>3, <2>4, <2>5, <2>6, <2>7 DEF Step
<1> QED
  BY <1>1, <1>2, <1>3, <1>4, <1>5, <1>6 DEF Next

LEMMA SpecInv == Spec => []IInv
  BY InitInv, NextInv, PTL DEF Spec

\* Every reachable state is well typed: what a tag, the pin or the volume
\* names has been built.
THEOREM ImageTypeCorrect == Spec => []TypeOK
<1>1. IInv => TypeOK
  BY DEF IInv
<1> QED
  BY <1>1, SpecInv, PTL

\* The pin names an image in the registry, however many shells build and push
\* under one tag and wherever they die.
THEOREM PinPulls == Spec => []PinCanBePulled
<1>1. IInv => PinCanBePulled
  BY DEF IInv
<1> QED
  BY <1>1, SpecInv, PTL

\* A release is built in the image its commit pins and names the toolchains
\* in that image.
THEOREM ReleasesPinned == Spec => []ReleasesFollowThePin
<1>1. IInv => ReleasesFollowThePin
  BY DEF IInv, RunOK, ReleasesFollowThePin
<1> QED
  BY <1>1, SpecInv, PTL

\* Backups that take turns never leave whole trees of two images in the volume,
\* wherever they die, and one that runs alone undoes what overlapping ones left.
THEOREM VolumeConsistent == Spec => []VolumeIsOfOneImage
<1>1. IInv => VolumeIsOfOneImage
  BY DEF IInv
<1> QED
  BY <1>1, SpecInv, PTL
=============================================================================
