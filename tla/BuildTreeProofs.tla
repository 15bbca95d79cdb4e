--------------------------- MODULE BuildTreeProofs ---------------------------
(***************************************************************************)
(* Proofs about BuildTree, for any set of builders in one tree and any     *)
(* number of edits.  Types hold however the builds overlap.  For builds    *)
(* that take turns, where the order of the steps is all that separates the *)
(* two makes: what a step finds and leaves depends on the steps before it  *)
(* (OInv), so every capture comes from the right make, every success is    *)
(* true, and the contract of BuildContract is kept.                        *)
(***************************************************************************)
EXTENDS BuildTree, TLAPS

-----------------------------------------------------------------------------
(* The steps.                                                               *)

katapult_make == compile("make", "arm", {"katapult.bin"}, "katapult.bin", FALSE)
firmware_make == compile("make", "arm", KlipperOut, "out/klipper.bin", FALSE)
helper_gcc == compile("gcc", "mips", {"c_helper.so"}, "c_helper.so", TRUE)
host_make ==
  compile("make", "mips", KlipperOut \ {"out/klipper.bin"}, "out/klipper.elf", TRUE)
bin_capture == capture("out/klipper.bin", "mcu/klipper.bin")
dict_capture == capture("out/klipper.dict", "mcu/klipper.dict")
elf_capture == capture("out/klipper.elf", "mcu/klipper_mcu.elf")

Makes == {katapult_make, firmware_make, helper_gcc, host_make}
Copies == {bin_capture, dict_capture, elf_capture}
Others == {clean({"katapult.bin"}), clean(KlipperOut), olddefconfig}

LEMMA StepsAre == Steps \in Seq(Makes \cup Copies \cup Others)
<1> DEFINE a == clean({"katapult.bin"})
           b == olddefconfig
           d == clean(KlipperOut)
           S == {katapult_make, firmware_make, helper_gcc, host_make, bin_capture,
                 dict_capture, elf_capture, a, b, d}
<1>1. Steps = <<a, b, katapult_make>> \o <<d, b, firmware_make>>
              \o <<bin_capture, dict_capture>> \o <<helper_gcc>>
              \o <<d, b, host_make>> \o <<elf_capture>>
  BY DEF Steps, katapult_steps, klipper_steps, c_helper_steps, klipper_mcu_steps,
         make_steps, katapult_make, firmware_make, helper_gcc, host_make,
         bin_capture, dict_capture, elf_capture
<1>2. S = Makes \cup Copies \cup Others
  BY DEF Makes, Copies, Others
<1> HIDE DEF a, b, d
<1>3. /\ <<a, b, katapult_make>> \in Seq(S) /\ <<d, b, firmware_make>> \in Seq(S)
      /\ <<bin_capture, dict_capture>> \in Seq(S) /\ <<helper_gcc>> \in Seq(S)
      /\ <<d, b, host_make>> \in Seq(S) /\ <<elf_capture>> \in Seq(S)
  OBVIOUS
<1>4. \A s, t \in Seq(S) : s \o t \in Seq(S)
  OBVIOUS
<1> HIDE DEF S
<1>5. Steps \in Seq(S)
  BY <1>1, <1>3, <1>4
<1> QED
  BY <1>2, <1>5

\* A step writes what its command is for.
LEMMA StepFacts ==
  ASSUME NEW k \in 1 .. Len(Steps)
  PROVE  LET s == Steps[k] IN
         /\ s.op \in {"make", "gcc"} => s \in Makes
         /\ s.op = "cp" => s \in Copies
<1>1. Steps[k] \in Makes \cup Copies \cup Others
  BY StepsAre
<1> DEFINE s == Steps[k]
<1> HIDE DEF s
<1>2. s \in Makes => s.op \in {"make", "gcc"}
  BY DEF Makes, katapult_make, firmware_make, helper_gcc, host_make, compile
<1>3. s \in Copies => s.op = "cp"
  BY DEF Copies, bin_capture, dict_capture, elf_capture, capture
<1>4. s \in Others => s.op \in {"clean", "olddefconfig"}
  BY DEF Others, clean, olddefconfig
<1> QED
  BY <1>1, <1>2, <1>3, <1>4 DEF s

LEMMA MakeFacts ==
  ASSUME NEW s \in Makes
  PROVE  s.arch \in Arch /\ s.outs \subseteq Path /\ s.output \in Path
BY DEF Makes, katapult_make, firmware_make, helper_gcc, host_make, compile, KlipperOut,
   Path, Arch

LEMMA CopyFacts ==
  ASSUME NEW s \in Copies
  PROVE  s.from \in Path
BY DEF Copies, bin_capture, dict_capture, elf_capture, capture, Path
-----------------------------------------------------------------------------
(* The invariant of any builds.                                             *)

\* A check is of a step, never of the report after the last.
InCheck == \A b \in Builders : phase[b] = "check" => step[b] \in 1 .. Len(Steps)

IInv == TypeOK /\ InCheck

LEMMA Constants ==
  /\ MaxSource \in Nat
  /\ Len(Steps) \in Nat
  /\ Missing \in Contents
  /\ \A a \in Arch, v \in Version : [arch |-> a, src |-> v] \in Contents
<1>1. Len(Steps) \in Nat
  BY StepsAre
<1> QED
  BY <1>1, BuildConstants DEF Missing, Contents

LEMMA WriteType ==
  ASSUME TypeOK, NEW outs, NEW c \in Contents, Write(outs, c)
  PROVE  tree' \in [Path -> Contents]
BY DEF Write, TypeOK

LEMMA InitInv == Init => IInv
<1> SUFFICES ASSUME Init PROVE IInv
  OBVIOUS
<1>1. Missing \in Contents /\ 0 \in Version
  BY Constants DEF Version
<1>2. TypeOK
  BY <1>1, Constants DEF Init, TypeOK
<1>3. InCheck
  BY DEF Init, InCheck
<1> QED
  BY <1>2, <1>3 DEF IInv

\* Going on to the next step or to the check of this one.
LEMMA Onwards ==
  ASSUME IInv, NEW b \in Builders, phase[b] = "command", step[b] \in 1 .. Len(Steps),
         ToNext(b) \/ ToCheck(b)
  PROVE  /\ step' \in [Builders -> 0 .. Len(Steps) + 1]
         /\ phase' \in [Builders -> {"command", "check"}]
         /\ InCheck'
<1>1. CASE ToNext(b)
  BY <1>1, Constants DEF ToNext, IInv, TypeOK, InCheck
<1>2. CASE ToCheck(b)
  BY <1>2, Constants DEF ToCheck, IInv, TypeOK, InCheck
<1> QED
  BY <1>1, <1>2

\* What a make or gcc of a step may write.
LEMMA BuiltType ==
  ASSUME IInv, NEW s \in Makes, NEW p \in Path
  PROVE  Compiled(s, p) \subseteq Contents /\ Built(s, p) \subseteq Contents
<1>1. Compiled(s, p) \subseteq Contents
  BY MakeFacts, Constants DEF Compiled, Arch, IInv, TypeOK
<1>2. tree["out/klipper.elf"] \in Contents
  BY DEF IInv, TypeOK, Path
<1> QED
  BY <1>1, <1>2 DEF Built

\* A command that did its work, or a target of it.
LEMMA InvCommand ==
  ASSUME IInv, NEW b \in Builders,
         Clean(b) \/ OldDefConfig(b) \/ Compile(b) \/ Capture(b)
  PROVE  IInv'
<1> DEFINE s == Steps[step[b]]
<1>1. /\ phase[b] = "command" /\ step[b] \in 1 .. Len(Steps)
      /\ ToNext(b) \/ ToCheck(b)
      /\ UNCHANGED <<source, made, abi, since, exit>>
  BY DEF Clean, OldDefConfig, Compile, Capture, At
<1>2. /\ step' \in [Builders -> 0 .. Len(Steps) + 1]
      /\ phase' \in [Builders -> {"command", "check"}]
      /\ InCheck'
  BY <1>1, Onwards
<1>3. tree' \in [Path -> Contents]
  <2>1. CASE Clean(b)
    BY <2>1, WriteType, Constants DEF Clean, IInv
  <2>2. CASE OldDefConfig(b)
    BY <2>2 DEF OldDefConfig, IInv, TypeOK
  <2>3. CASE Compile(b)
    <3>1. s \in Makes
      BY <1>1, <2>3, StepFacts DEF Compile, At
    <3>2. PICK c \in Compiled(s, s.output) : Write(s.outs, c)
      BY <2>3 DEF Compile
    <3>3. c \in Contents
      BY <3>1, <3>2, MakeFacts, BuiltType
    <3> QED
      BY <3>2, <3>3, WriteType DEF IInv
  <2>4. CASE Capture(b)
    <3>1. s \in Copies
      BY <1>1, <2>4, StepFacts DEF Capture, At
    <3>2. Write(s.outs, tree[s.from]) /\ tree[s.from] \in Contents
      BY <2>4, <3>1, CopyFacts DEF Capture, IInv, TypeOK
    <3> QED
      BY <3>2, WriteType DEF IInv
  <2> QED
    BY <2>1, <2>2, <2>3, <2>4
<1> QED
  BY <1>1, <1>2, <1>3 DEF IInv, TypeOK

LEMMA InvMakeTarget ==
  ASSUME IInv, NEW b \in Builders, MakeTarget(b)
  PROVE  IInv'
<1> DEFINE s == Steps[step[b]]
           done(p) == made[b] \cup {p}
<1>1. step[b] \in 1 .. Len(Steps) /\ s \in Makes
  BY StepFacts DEF MakeTarget, At
<1> HIDE DEF s
<1>2. PICK p \in s.outs \ made[b] :
        /\ \E c \in Built(s, p) \cup ({tree[p]} \ {Missing}) : Write({p}, c)
        /\ made' = [made EXCEPT ![b] = IF done(p) = s.outs THEN {} ELSE done(p)]
        /\ phase' = [phase EXCEPT ![b] = IF done(p) = s.outs THEN "check" ELSE "command"]
  BY DEF MakeTarget, s
<1>3. p \in Path
  BY <1>1, MakeFacts
<1>4. tree' \in [Path -> Contents]
  <2>1. PICK c \in Built(s, p) \cup ({tree[p]} \ {Missing}) : Write({p}, c)
    BY <1>2
  <2>2. c \in Contents
    BY <1>1, <1>3, <2>1, BuiltType DEF IInv, TypeOK
  <2> QED
    BY <2>1, <2>2, WriteType DEF IInv
<1>5. /\ made' \in [Builders -> SUBSET Path]
      /\ phase' \in [Builders -> {"command", "check"}]
  BY <1>2, <1>3 DEF IInv, TypeOK
<1>6. UNCHANGED <<source, step, abi, since, exit>>
  BY DEF MakeTarget
<1>7. InCheck'
  BY <1>1, <1>2, <1>6 DEF IInv, TypeOK, InCheck
<1> QED
  BY <1>4, <1>5, <1>6, <1>7 DEF IInv, TypeOK

LEMMA StopInv ==
  ASSUME IInv, NEW b \in Builders, Stop(b), tree' \in [Path -> Contents]
  PROVE  IInv'
BY Constants DEF Stop, IInv, TypeOK, InCheck

\* A command that did not.
LEMMA InvCommandFails ==
  ASSUME IInv, NEW b \in Builders, CommandFails(b)
  PROVE  IInv'
<1>1. PICK some \in Interrupted(b), left \in Leavings(Steps[step[b]]) : Write(some, left)
  BY DEF CommandFails
<1>2. left \in Contents
  BY <1>1, Constants DEF Leavings, Arch, IInv, TypeOK
<1> QED
  BY <1>1, <1>2, WriteType, StopInv DEF CommandFails, IInv

\* Everything else leaves the files alone.
LEMMA InvRest ==
  ASSUME IInv,
         Edit \/ \E b \in Builders : Begin(b) \/ Check(b) \/ CheckFails(b) \/ Report(b)
  PROVE  IInv'
<1>1. CASE Edit
  BY <1>1, Constants, BuildConstants DEF Edit, IInv, TypeOK, InCheck, Version
<1>2. ASSUME NEW b \in Builders, Begin(b) PROVE IInv'
  BY <1>2, Constants DEF Begin, IInv, TypeOK, InCheck
<1>3. ASSUME NEW b \in Builders, Check(b) PROVE IInv'
  <2>1. step[b] \in 1 .. Len(Steps)
    BY <1>3 DEF Check, CheckVerdict, IInv, InCheck
  <2>2. /\ phase' = [phase EXCEPT ![b] = "command"]
        /\ step' = [step EXCEPT ![b] = @ + 1]
        /\ UNCHANGED <<source, tree, made, since, exit>>
    BY <1>3 DEF Check, CheckVerdict
  <2>3. abi' \in [Builders -> BOOLEAN]
    BY <1>3 DEF Check, CheckVerdict, Violates, IInv, TypeOK
  <2>4. step' \in [Builders -> 0 .. Len(Steps) + 1]
    BY <2>1, <2>2, Constants DEF IInv, TypeOK
  <2>5. TypeOK'
    BY <2>2, <2>3, <2>4 DEF IInv, TypeOK
  <2>6. InCheck'
    BY <2>2 DEF IInv, TypeOK, InCheck
  <2> QED
    BY <2>5, <2>6 DEF IInv
<1>4. ASSUME NEW b \in Builders, CheckFails(b) PROVE IInv'
  BY <1>4, StopInv DEF CheckFails, IInv, TypeOK
<1>5. ASSUME NEW b \in Builders, Report(b) PROVE IInv'
  BY <1>5, Constants DEF Report, IInv, TypeOK, InCheck
<1> QED
  BY <1>1, <1>2, <1>3, <1>4, <1>5

LEMMA NextInv == IInv /\ [Next]_vars => IInv'
<1> SUFFICES ASSUME IInv, [Next]_vars PROVE IInv'
  OBVIOUS
<1>1. CASE UNCHANGED vars
  BY <1>1 DEF vars, IInv, TypeOK, InCheck
<1>2. CASE Next
  BY <1>2, InvCommand, InvMakeTarget, InvCommandFails, InvRest DEF Next
<1> QED
  BY <1>1, <1>2

\* Every reachable state of any builds, overlapping or not, is well typed.
THEOREM TreeTypeCorrect == Spec => []TypeOK
<1>1. IInv => TypeOK
  BY DEF IInv
<1> QED
  BY <1>1, InitInv, NextInv, PTL DEF Spec
-----------------------------------------------------------------------------
(* A run that has the tree to itself: what each step finds and leaves       *)
(* depends on the steps before.                                             *)

wipe_katapult == clean({"katapult.bin"})
wipe_klipper == clean(KlipperOut)

LEMMA StepTable ==
  /\ Len(Steps) = 13
  /\ Steps[1] = wipe_katapult /\ Steps[2] = olddefconfig /\ Steps[3] = katapult_make
  /\ Steps[4] = wipe_klipper /\ Steps[5] = olddefconfig /\ Steps[6] = firmware_make
  /\ Steps[7] = bin_capture /\ Steps[8] = dict_capture /\ Steps[9] = helper_gcc
  /\ Steps[10] = wipe_klipper /\ Steps[11] = olddefconfig /\ Steps[12] = host_make
  /\ Steps[13] = elf_capture
<1>1. Steps = <<wipe_katapult, olddefconfig, katapult_make>>
              \o <<wipe_klipper, olddefconfig, firmware_make>>
              \o <<bin_capture, dict_capture>> \o <<helper_gcc>>
              \o <<wipe_klipper, olddefconfig, host_make>> \o <<elf_capture>>
  BY DEF Steps, katapult_steps, klipper_steps, c_helper_steps, klipper_mcu_steps,
         make_steps, katapult_make, firmware_make, helper_gcc, host_make,
         bin_capture, dict_capture, elf_capture, wipe_katapult, wipe_klipper
<1> QED
  BY <1>1

Checked(b) == phase[b] = "check"
Done(b, j) == step[b] > j \/ (step[b] = j /\ Checked(b))

Fresh(b, p) == tree[p].src >= since[b]
IsArm(b, p) == Fresh(b, p) /\ tree[p].arch = "arm"
IsMips(b, p) == tree[p].arch = "mips" \/ abi[b]

Bounded(b) == since[b] <= source /\ \A p \in Path : tree[p].src <= source

\* Only a make has targets it is done with.
Making(b) ==
  IF ~ Checked(b) /\ step[b] \in {3, 6, 12} THEN made[b] \subseteq Steps[step[b]].outs
  ELSE made[b] = {}

\* From a clean until its make makes it, no target is there: no make finds one
\* up to date.
Cleared(b) ==
  ~ Checked(b) =>
    /\ step[b] \in {2, 3} /\ "katapult.bin" \notin made[b] => tree["katapult.bin"] = Missing
    /\ step[b] \in {5, 6, 11, 12} => \A p \in KlipperOut \ made[b] : tree[p] = Missing

Position(b) ==
  Checked(b) => step[b] \in {3, 6, 7, 8, 9, 12, 13}

\* What the steps so far have made.  The firmware's out/ lasts until the host
\* build's clean.
MadeArm(b) ==
  /\ Done(b, 3) => IsArm(b, "katapult.bin")
  /\ step[b] = 6 /\ ~ Checked(b) => \A p \in made[b] : IsArm(b, p)
  /\ Done(b, 6) /\ step[b] <= 10 => \A p \in KlipperOut : IsArm(b, p)
  /\ Done(b, 7) => IsArm(b, "mcu/klipper.bin")
  /\ Done(b, 8) => IsArm(b, "mcu/klipper.dict")

HostElf(b) == /\ Fresh(b, "out/klipper.elf")
              /\ tree["out/klipper.elf"].arch \in {"mips", "alien", "malformed"}

MadeMips(b) ==
  /\ Done(b, 9) => Fresh(b, "c_helper.so")
  /\ step[b] > 9 => IsMips(b, "c_helper.so")
  /\ step[b] = 12 /\ "out/klipper.elf" \in made[b] => HostElf(b)
  /\ Done(b, 12) => HostElf(b)
  /\ step[b] > 12 => /\ tree["out/klipper.elf"].arch # "malformed"
                     /\ IsMips(b, "out/klipper.elf")
  /\ Done(b, 13) => Fresh(b, "mcu/klipper_mcu.elf") /\ IsMips(b, "mcu/klipper_mcu.elf")

OInv(b) ==
  /\ Bounded(b) /\ Position(b) /\ Making(b) /\ Cleared(b) /\ MadeArm(b) /\ MadeMips(b)
  /\ CapturesFromTheRightBuild

LEMMA InitOne == ASSUME Init, NEW b \in Builders PROVE OInv(b)
<1>1. /\ step[b] = 0 /\ ~ Checked(b) /\ made[b] = {} /\ since[b] = 0 /\ source = 0
      /\ \A p \in Path : tree[p] = Missing
  BY DEF Init, Checked
<1>2. Missing.arch = "none" /\ Missing.src = 0
  BY DEF Missing
<1>3. /\ Bounded(b) /\ Position(b) /\ Making(b) /\ Cleared(b)
      /\ MadeArm(b) /\ MadeMips(b)
  BY <1>1, <1>2 DEF Bounded, Position, Making, Cleared, MadeArm, MadeMips, Done
<1>4. CapturesFromTheRightBuild
  BY <1>1, <1>2 DEF CapturesFromTheRightBuild, Path
<1> QED
  BY <1>3, <1>4 DEF OInv

\* Types of what the invariant is about.
LEMMA OneTypes ==
  ASSUME IInv, NEW b \in Builders
  PROVE  /\ step[b] \in 0 .. 14 /\ phase[b] \in {"command", "check"}
         /\ source \in Nat /\ since[b] \in Nat
         /\ \A p \in Path : tree[p].src \in Nat
         /\ tree \in [Path -> Contents]
         /\ Missing.src = 0 /\ Missing.arch = "none"
<1>1. \A c \in Contents : c.src \in Nat
  BY BuildConstants DEF Contents, Missing, Version
<1>2. step[b] \in 0 .. 14
  BY StepTable DEF IInv, TypeOK
<1> QED
  BY <1>1, <1>2, BuildConstants DEF IInv, TypeOK, Version, Missing

\* Where each operation is.
LEMMA Places ==
  ASSUME NEW b \in Builders, NEW op, At(b, op)
  PROVE  /\ ~ Checked(b)
         /\ op = "clean" => step[b] \in {1, 4, 10}
         /\ op = "olddefconfig" => step[b] \in {2, 5, 11}
         /\ op = "make" => step[b] \in {3, 6, 12}
         /\ op = "gcc" => step[b] = 9
         /\ op = "cp" => step[b] \in {7, 8, 13}
<1>1. step[b] \in 1 .. 13 /\ Steps[step[b]].op = op /\ ~ Checked(b)
  BY StepTable DEF At, Checked
<1>2. /\ Steps[1].op = "clean" /\ Steps[4].op = "clean" /\ Steps[10].op = "clean"
      /\ Steps[2].op = "olddefconfig" /\ Steps[5].op = "olddefconfig"
      /\ Steps[11].op = "olddefconfig"
      /\ Steps[3].op = "make" /\ Steps[6].op = "make" /\ Steps[12].op = "make"
      /\ Steps[9].op = "gcc"
      /\ Steps[7].op = "cp" /\ Steps[8].op = "cp" /\ Steps[13].op = "cp"
  BY StepTable DEF clean, wipe_katapult, wipe_klipper, olddefconfig, compile, capture,
     katapult_make, firmware_make, helper_gcc, host_make, bin_capture, dict_capture,
     elf_capture
<1> QED
  BY <1>1, <1>2

\* A write, file by file.
LEMMA Written ==
  ASSUME NEW outs, NEW c, Write(outs, c)
  PROVE  \A p \in Path : tree'[p] = IF p \in outs THEN c ELSE tree[p]
BY DEF Write

\* A command of the one builder moves only its step and phase.
LEMMA OneMoves ==
  ASSUME IInv, NEW b \in Builders, phase[b] = "command",
         UNCHANGED <<source, made, abi, since>>
  PROVE  /\ source' = source
         /\ made'[b] = made[b]
         /\ abi'[b] = abi[b]
         /\ since'[b] = since[b]
         /\ ToNext(b) => step'[b] = step[b] + 1 /\ ~ Checked(b)'
         /\ ToCheck(b) => step'[b] = step[b] /\ Checked(b)'
BY DEF ToNext, ToCheck, IInv, TypeOK, Checked

LEMMA OneClean ==
  ASSUME IInv, NEW b \in Builders, OInv(b), Clean(b)
  PROVE  OInv(b)'
<1> DEFINE outs == Steps[step[b]].outs
<1>1. /\ ~ Checked(b) /\ step[b] \in {1, 4, 10} /\ phase[b] = "command"
      /\ Write(outs, Missing)
  BY Places DEF Clean, At
<1>2. /\ source' = source /\ abi'[b] = abi[b]
      /\ since'[b] = since[b] /\ made[b] = {} /\ made'[b] = {}
      /\ step'[b] = step[b] + 1 /\ ~ Checked(b)'
  BY <1>1, OneMoves DEF Clean, OInv, Making
<1>3. outs = IF step[b] = 1 THEN {"katapult.bin"} ELSE KlipperOut
  BY <1>1, StepTable DEF wipe_katapult, wipe_klipper, clean
<1>4. \A p \in Path : tree'[p] = IF p \in outs THEN Missing ELSE tree[p]
  BY <1>1, Written
<1> HIDE DEF outs
<1>5. /\ Missing.arch = "none" /\ Missing.src = 0
      /\ source \in Nat /\ \A p \in Path : tree[p].src \in Nat
  BY OneTypes
<1>6. Bounded(b)' /\ Position(b)' /\ Making(b)' /\ Cleared(b)'
  BY <1>1, <1>2, <1>3, <1>4, <1>5
     DEF OInv, Bounded, Position, Making, Cleared, KlipperOut, Path
<1>7. MadeArm(b)'
  BY <1>1, <1>2, <1>3, <1>4 DEF OInv, MadeArm, Done, IsArm, Fresh, KlipperOut, Path
<1>8. MadeMips(b)'
  BY <1>1, <1>2, <1>3, <1>4 DEF OInv, MadeMips, Done, HostElf, IsMips, Fresh, KlipperOut, Path
<1>9. CapturesFromTheRightBuild'
  BY <1>1, <1>3, <1>4 DEF OInv, CapturesFromTheRightBuild, KlipperOut, Path
<1> QED
  BY <1>6, <1>7, <1>8, <1>9 DEF OInv

LEMMA OneOldDefConfig ==
  ASSUME IInv, NEW b \in Builders, OInv(b), OldDefConfig(b)
  PROVE  OInv(b)'
<1>1. ~ Checked(b) /\ step[b] \in {2, 5, 11} /\ phase[b] = "command"
  BY Places DEF OldDefConfig, At
<1>2. /\ source' = source /\ abi'[b] = abi[b] /\ tree' = tree
      /\ since'[b] = since[b] /\ made[b] = {} /\ made'[b] = {}
      /\ step'[b] = step[b] + 1 /\ ~ Checked(b)'
  BY <1>1, OneMoves DEF OldDefConfig, OInv, Making
<1>3. /\ Bounded(b)' /\ Position(b)' /\ Making(b)' /\ Cleared(b)'
      /\ CapturesFromTheRightBuild'
  BY <1>1, <1>2 DEF OInv, Bounded, Position, Making, Cleared, CapturesFromTheRightBuild
<1>4. MadeArm(b)' /\ MadeMips(b)'
  BY <1>1, <1>2 DEF OInv, MadeArm, MadeMips, Done, HostElf, IsArm, IsMips, Fresh
<1> QED
  BY <1>3, <1>4 DEF OInv

\* What a make of a build that is alone in the tree writes into its target:
\* nothing was there, so it is made now, klipper.bin from its own klipper.elf.
LEMMA Target1 ==
  ASSUME IInv, NEW b \in Builders, OInv(b), At(b, "make"),
         NEW p \in Steps[step[b]].outs \ made[b],
         Prerequisites(p) \cap Steps[step[b]].outs \subseteq made[b],
         NEW c \in Built(Steps[step[b]], p) \cup ({tree[p]} \ {Missing})
  PROVE  /\ p \in Path /\ c.src >= since[b] /\ c.src <= source
         /\ step[b] \in {3, 6} => c.arch = "arm"
         /\ step[b] = 12 /\ p = "out/klipper.elf" => c.arch \in {"mips", "alien", "malformed"}
<1> DEFINE s == Steps[step[b]]
<1>1. ~ Checked(b) /\ step[b] \in {3, 6, 12}
  BY Places
<1>2. /\ step[b] = 3 => s.outs = {"katapult.bin"} /\ s.arch = "arm" /\ ~ s.elf
      /\ step[b] = 6 => s.outs = KlipperOut /\ s.arch = "arm" /\ ~ s.elf
      /\ step[b] = 12 => s.outs = {"out/klipper.dict", "out/klipper.elf"} /\ s.arch = "mips"
  BY StepTable DEF katapult_make, firmware_make, host_make, compile, KlipperOut
<1>3. p \in s.outs /\ p \notin made[b] /\ c \in Built(s, p) \cup ({tree[p]} \ {Missing})
      /\ Prerequisites(p) \cap s.outs \subseteq made[b]
  OBVIOUS
<1> HIDE DEF s
<1>4. p \in Path /\ tree[p] = Missing
  BY <1>1, <1>2, <1>3 DEF OInv, Cleared, KlipperOut, Path
<1>5. c \in Built(s, p)
  BY <1>3, <1>4
<1>6. source \in Nat /\ since[b] \in Nat /\ since[b] <= source
      /\ \A q \in Path : tree[q].src \in Nat /\ tree[q].src <= source
  BY OneTypes DEF OInv, Bounded
<1>7. CASE p = "out/klipper.bin"
  <2>1. step[b] = 6 /\ "out/klipper.elf" \in made[b] /\ c = tree["out/klipper.elf"]
    BY <1>1, <1>2, <1>3, <1>5, <1>7 DEF Prerequisites, Built, KlipperOut
  <2>2. IsArm(b, "out/klipper.elf")
    BY <1>1, <2>1 DEF OInv, MadeArm
  <2>3. tree["out/klipper.elf"].src <= source
    BY <1>6 DEF Path
  <2> QED
    BY <1>4, <2>1, <2>2, <2>3 DEF IsArm, Fresh
<1>8. CASE p # "out/klipper.bin"
  <2>1. c \in Compiled(s, p)
    BY <1>5, <1>8 DEF Built
  <2>2. PICK arch \in IF s.elf /\ p = s.output THEN {s.arch, "alien", "malformed"} ELSE {s.arch} :
          c = [arch |-> arch, src |-> source]
    BY <2>1 DEF Compiled
  <2>3. c.src = source /\ c.arch = arch
    BY <2>2
  <2>4. /\ step[b] \in {3, 6} => arch = "arm"
        /\ step[b] = 12 => arch \in {"mips", "alien", "malformed"}
    BY <1>2, <2>2
  <2> QED
    BY <1>4, <1>6, <2>3, <2>4
<1> QED
  BY <1>7, <1>8

LEMMA OneMakeTarget ==
  ASSUME IInv, NEW b \in Builders, OInv(b), MakeTarget(b)
  PROVE  OInv(b)'
<1> DEFINE s == Steps[step[b]]
           outs == s.outs
           done(p) == made[b] \cup {p}
<1>1. ~ Checked(b) /\ step[b] \in {3, 6, 12} /\ phase[b] = "command" /\ At(b, "make")
  BY Places DEF MakeTarget, At
<1>2. PICK p \in outs \ made[b] :
        /\ Prerequisites(p) \cap outs \subseteq made[b]
        /\ \E c \in Built(s, p) \cup ({tree[p]} \ {Missing}) : Write({p}, c)
        /\ made' = [made EXCEPT ![b] = IF done(p) = outs THEN {} ELSE done(p)]
        /\ phase' = [phase EXCEPT ![b] = IF done(p) = outs THEN "check" ELSE "command"]
  BY DEF MakeTarget
<1>3. PICK c \in Built(s, p) \cup ({tree[p]} \ {Missing}) : Write({p}, c)
  BY <1>2
<1>4. /\ p \in Path /\ c.src >= since[b] /\ c.src <= source
      /\ step[b] \in {3, 6} => c.arch = "arm"
      /\ step[b] = 12 /\ p = "out/klipper.elf" => c.arch \in {"mips", "alien", "malformed"}
  BY <1>1, <1>2, <1>3, Target1
<1>5. /\ step[b] = 3 => outs = {"katapult.bin"}
      /\ step[b] = 6 => outs = KlipperOut
      /\ step[b] = 12 => outs = {"out/klipper.dict", "out/klipper.elf"}
  BY StepTable DEF katapult_make, firmware_make, host_make, compile, KlipperOut
<1>6. /\ source' = source /\ abi'[b] = abi[b] /\ since'[b] = since[b]
      /\ step' = step /\ Steps[step'[b]].outs = outs
      /\ made'[b] = IF done(p) = outs THEN {} ELSE done(p)
      /\ Checked(b)' <=> done(p) = outs
  BY <1>2 DEF MakeTarget, IInv, TypeOK, Checked
<1>7. \A q \in Path : tree'[q] = IF q = p THEN c ELSE tree[q]
  BY <1>3, Written
<1>8. made[b] \subseteq outs /\ p \in outs
  BY <1>1 DEF OInv, Making
<1> HIDE DEF s, outs
<1>9. source \in Nat /\ since[b] \in Nat /\ \A q \in Path : tree[q].src \in Nat
  BY OneTypes
<1>10. Bounded(b)' /\ Position(b)'
  BY <1>1, <1>4, <1>6, <1>7, <1>9 DEF OInv, Bounded, Position
<1>11. Making(b)'
  BY <1>1, <1>6, <1>8 DEF Making
<1>12. Cleared(b)'
  BY <1>1, <1>5, <1>6, <1>7, <1>8 DEF OInv, Cleared, KlipperOut, Path
<1>13. MadeArm(b)'
  <2>1. CASE step[b] = 3
    <3>1. p = "katapult.bin" /\ done(p) = outs
      BY <1>5, <1>8, <2>1
    <3> QED
      BY <1>4, <1>6, <1>7, <2>1, <3>1 DEF MadeArm, Done, IsArm, Fresh
  <2>2. CASE step[b] = 6
    <3>1. IsArm(b, "katapult.bin")'
      BY <1>5, <1>6, <1>7, <1>8, <2>2 DEF OInv, MadeArm, Done, IsArm, Fresh, KlipperOut, Path
    <3>2. \A q \in done(p) : IsArm(b, q)'
      BY <1>1, <1>4, <1>5, <1>6, <1>7, <1>8, <2>2
         DEF OInv, MadeArm, IsArm, Fresh, KlipperOut, Path
    <3> QED
      BY <1>5, <1>6, <2>2, <3>1, <3>2 DEF MadeArm, Done
  <2>3. CASE step[b] = 12
    BY <1>5, <1>6, <1>7, <1>8, <2>3 DEF OInv, MadeArm, Done, IsArm, Fresh, Path
  <2> QED
    BY <1>1, <2>1, <2>2, <2>3
<1>14. MadeMips(b)'
  <2>1. CASE step[b] \in {3, 6}
    BY <1>6, <2>1 DEF MadeMips, Done
  <2>2. CASE step[b] = 12
    <3>1. Fresh(b, "c_helper.so")' /\ IsMips(b, "c_helper.so")'
      BY <1>5, <1>6, <1>7, <1>8, <2>2 DEF OInv, MadeMips, Done, IsMips, Fresh, Path
    <3>2. "out/klipper.elf" \in done(p) => HostElf(b)'
      BY <1>4, <1>6, <1>7, <2>2 DEF OInv, MadeMips, HostElf, Fresh, Path
    <3> QED
      BY <1>5, <1>6, <2>2, <3>1, <3>2 DEF MadeMips, Done
  <2> QED
    BY <1>1, <2>1, <2>2
<1>15. CapturesFromTheRightBuild'
  BY <1>1, <1>5, <1>7, <1>8 DEF OInv, CapturesFromTheRightBuild, KlipperOut, Path
<1> QED
  BY <1>10, <1>11, <1>12, <1>13, <1>14, <1>15 DEF OInv

LEMMA OneCompile ==
  ASSUME IInv, NEW b \in Builders, OInv(b), Compile(b)
  PROVE  OInv(b)'
<1> DEFINE s == Steps[step[b]]
<1>1. ~ Checked(b) /\ step[b] = 9 /\ phase[b] = "command"
  BY Places DEF Compile, At
<1>2. /\ source' = source /\ abi'[b] = abi[b]
      /\ since'[b] = since[b] /\ made[b] = {} /\ made'[b] = {}
      /\ step'[b] = step[b] /\ Checked(b)'
  BY <1>1, OneMoves DEF Compile, OInv, Making
<1>3. PICK c \in Compiled(s, s.output) : Write(s.outs, c)
  BY DEF Compile
<1>4. s.outs = {"c_helper.so"}
  BY <1>1, StepTable DEF helper_gcc, compile
<1>5. c.src = source
  BY <1>3 DEF Compiled
<1>6. \A p \in Path : tree'[p] = IF p = "c_helper.so" THEN c ELSE tree[p]
  BY <1>3, <1>4, Written
<1> HIDE DEF s
<1>7. source \in Nat /\ since[b] \in Nat /\ \A p \in Path : tree[p].src \in Nat
  BY OneTypes
<1>8. Bounded(b)' /\ Position(b)' /\ Making(b)' /\ Cleared(b)'
  BY <1>1, <1>2, <1>5, <1>6, <1>7 DEF OInv, Bounded, Position, Making, Cleared
<1>9. MadeArm(b)'
  BY <1>1, <1>2, <1>6 DEF OInv, MadeArm, Done, IsArm, Fresh, KlipperOut, Path
<1>10. MadeMips(b)'
  BY <1>1, <1>2, <1>5, <1>6 DEF OInv, Bounded, MadeMips, Done, Fresh, Path
<1>11. CapturesFromTheRightBuild'
  BY <1>6 DEF OInv, CapturesFromTheRightBuild, Path
<1> QED
  BY <1>8, <1>9, <1>10, <1>11 DEF OInv

LEMMA OneCapture ==
  ASSUME IInv, NEW b \in Builders, OInv(b), Capture(b)
  PROVE  OInv(b)'
<1> DEFINE s == Steps[step[b]]
           from == s.from
           outs == s.outs
<1>1. /\ ~ Checked(b) /\ step[b] \in {7, 8, 13} /\ phase[b] = "command"
      /\ Write(outs, tree[from])
  BY Places DEF Capture, At
<1>2. /\ source' = source /\ abi'[b] = abi[b]
      /\ since'[b] = since[b] /\ made[b] = {} /\ made'[b] = {}
      /\ step'[b] = step[b] /\ Checked(b)'
  BY <1>1, OneMoves DEF Capture, OInv, Making
<1>3. /\ step[b] = 7 => from = "out/klipper.bin" /\ outs = {"mcu/klipper.bin"}
      /\ step[b] = 8 => from = "out/klipper.dict" /\ outs = {"mcu/klipper.dict"}
      /\ step[b] = 13 => from = "out/klipper.elf" /\ outs = {"mcu/klipper_mcu.elf"}
  BY <1>1, StepTable DEF bin_capture, dict_capture, elf_capture, capture
<1>4. \A p \in Path : tree'[p] = IF p \in outs THEN tree[from] ELSE tree[p]
  BY <1>1, Written
<1> HIDE DEF s, from, outs
<1>5. source \in Nat /\ since[b] \in Nat /\ \A p \in Path : tree[p].src \in Nat
  BY OneTypes
<1>6. Bounded(b)' /\ Position(b)' /\ Making(b)' /\ Cleared(b)'
  BY <1>1, <1>2, <1>3, <1>4, <1>5 DEF OInv, Bounded, Position, Making, Cleared, Path
<1>7. MadeArm(b)'
  BY <1>1, <1>2, <1>3, <1>4 DEF OInv, MadeArm, Done, IsArm, Fresh, KlipperOut, Path
<1>8. MadeMips(b)'
  BY <1>1, <1>2, <1>3, <1>4 DEF OInv, MadeMips, Done, HostElf, IsMips, Fresh, KlipperOut, Path
<1>9. CapturesFromTheRightBuild'
  BY <1>1, <1>3, <1>4 DEF OInv, CapturesFromTheRightBuild, MadeArm, MadeMips, Done,
     HostElf, IsArm, IsMips, KlipperOut, Path
<1> QED
  BY <1>6, <1>7, <1>8, <1>9 DEF OInv

\* A run that stopped holds nothing to any step.
LEMMA OneStopped ==
  ASSUME NEW b \in Builders, step'[b] = 0, ~ Checked(b)', made'[b] = {}, Bounded(b)',
         CapturesFromTheRightBuild'
  PROVE  OInv(b)'
BY DEF OInv, Position, Making, Cleared, MadeArm, MadeMips, Done

LEMMA OneCommandFails ==
  ASSUME IInv, NEW b \in Builders, OInv(b), CommandFails(b)
  PROVE  OInv(b)'
<1> DEFINE s == Steps[step[b]]
<1>1. step[b] \in 1 .. 13 /\ phase[b] = "command" /\ Stop(b)
  BY StepTable DEF CommandFails
<1>2. /\ source' = source /\ since'[b] = since[b]
      /\ step'[b] = 0 /\ ~ Checked(b)' /\ made'[b] = {}
  BY <1>1 DEF Stop, IInv, TypeOK, Checked
<1>3. PICK some \in Interrupted(b), left \in Leavings(s) : Write(some, left)
  BY DEF CommandFails
<1>10. some \subseteq s.outs
  BY DEF Interrupted
<1>4. \A p \in Path : tree'[p] = IF p \in some THEN left ELSE tree[p]
  BY <1>3, Written
<1>5. /\ source \in Nat /\ since[b] \in Nat
      /\ \A p \in Path : tree[p].src \in Nat
      /\ Missing.src = 0 /\ Missing.arch = "none"
  BY OneTypes
<1>6. left = Missing \/ left.src = source
  BY <1>3 DEF Leavings
<1>7. Bounded(b)'
  BY <1>2, <1>4, <1>5, <1>6 DEF OInv, Bounded
<1>8. CASE s.op = "cp"
  <2>1. left.arch \in {"none", "malformed"}
    BY <1>3, <1>5, <1>8 DEF Leavings
  <2>2. CapturesFromTheRightBuild'
    BY <1>4, <2>1 DEF OInv, CapturesFromTheRightBuild, Path
  <2> QED
    BY <1>2, <1>7, <2>2, OneStopped
<1>9. CASE s.op # "cp"
  <2>1. s.outs \cap {"mcu/klipper.bin", "mcu/klipper.dict", "mcu/klipper_mcu.elf"} = {}
    BY <1>1, <1>9, StepTable DEF clean, wipe_katapult, wipe_klipper, olddefconfig, compile,
       capture, katapult_make, firmware_make, helper_gcc, host_make, bin_capture,
       dict_capture, elf_capture, KlipperOut
  <2>2. CapturesFromTheRightBuild'
    BY <1>4, <1>10, <2>1 DEF OInv, CapturesFromTheRightBuild, Path
  <2> QED
    BY <1>2, <1>7, <2>2, OneStopped
<1> QED
  BY <1>8, <1>9

LEMMA OneCheckPasses ==
  ASSUME IInv, NEW b \in Builders, OInv(b), Check(b)
  PROVE  OInv(b)'
<1> DEFINE s == Steps[step[b]]
           output == s.output
           elf == s.elf
<1>1. /\ Checked(b) /\ step[b] \in {3, 6, 7, 8, 9, 12, 13}
      /\ tree' = tree /\ source' = source /\ since' = since
  BY DEF Check, CheckVerdict, Checked, OInv, Position
<1>2. /\ step'[b] = step[b] + 1 /\ ~ Checked(b)' /\ made[b] = {} /\ made'[b] = {}
      /\ abi'[b] <=>
           abi[b] \/ (elf /\ tree[output].arch # "mips")
      /\ elf => tree[output].arch # "malformed"
  BY <1>1 DEF Check, CheckVerdict, Violates, Output, IInv, TypeOK, Checked, OInv, Making
<1>3. /\ step[b] = 9 => elf /\ output = "c_helper.so"
      /\ step[b] = 12 => elf /\ output = "out/klipper.elf"
  BY StepTable DEF helper_gcc, host_make, compile
<1> HIDE DEF s, output, elf
<1>4. /\ Bounded(b)' /\ Position(b)' /\ Making(b)' /\ Cleared(b)'
      /\ CapturesFromTheRightBuild'
  BY <1>1, <1>2 DEF OInv, Bounded, Position, Making, Cleared, CapturesFromTheRightBuild
<1>5. MadeArm(b)'
  BY <1>1, <1>2 DEF OInv, MadeArm, Done, IsArm, Fresh
<1>6. MadeMips(b)'
  BY <1>1, <1>2, <1>3 DEF OInv, MadeMips, Done, HostElf, IsMips, Fresh
<1> QED
  BY <1>4, <1>5, <1>6 DEF OInv

\* Ends of the run.
LEMMA OneEnds ==
  ASSUME IInv, NEW b \in Builders, OInv(b), CheckFails(b) \/ Report(b)
  PROVE  OInv(b)'
<1>1. step'[b] = 0 /\ UNCHANGED <<source, tree, since>>
  BY DEF CheckFails, Stop, Report, IInv, TypeOK
<1>2. ~ Checked(b)' /\ made'[b] = {}
  <2>1. CASE CheckFails(b)
    BY <2>1 DEF CheckFails, Stop, IInv, TypeOK, Checked
  <2>2. CASE Report(b)
    BY <2>2, StepTable DEF Report, IInv, InCheck, Checked, OInv, Making
  <2> QED
    BY <2>1, <2>2
<1>3. Bounded(b)' /\ CapturesFromTheRightBuild'
  BY <1>1 DEF OInv, Bounded, CapturesFromTheRightBuild
<1> QED
  BY <1>1, <1>2, <1>3, OneStopped

LEMMA OneBegin ==
  ASSUME IInv, NEW b \in Builders, OInv(b), Begin(b)
  PROVE  OInv(b)'
<1>1. /\ step'[b] = 1 /\ ~ Checked(b)' /\ since'[b] = source /\ made'[b] = {}
      /\ UNCHANGED <<source, tree>>
  BY DEF Begin, IInv, TypeOK, Checked, OInv, Making
<1>2. source \in Nat
  BY OneTypes
<1>3. /\ Bounded(b)' /\ Position(b)' /\ Making(b)' /\ Cleared(b)'
      /\ CapturesFromTheRightBuild'
  BY <1>1, <1>2 DEF OInv, Bounded, Position, Making, Cleared, CapturesFromTheRightBuild
<1>4. MadeArm(b)' /\ MadeMips(b)'
  BY <1>1 DEF MadeArm, MadeMips, Done
<1> QED
  BY <1>3, <1>4 DEF OInv

LEMMA OneEdit ==
  ASSUME IInv, NEW b \in Builders, OInv(b), Edit
  PROVE  OInv(b)'
<1>1. source' = source + 1 /\ UNCHANGED <<tree, step, phase, made, abi, since>>
  BY DEF Edit
<1>2. source \in Nat /\ since[b] \in Nat /\ \A p \in Path : tree[p].src \in Nat
  BY OneTypes
<1>3. Bounded(b)'
  BY <1>1, <1>2 DEF OInv, Bounded
<1>4. /\ Position(b)' /\ Making(b)' /\ Cleared(b)' /\ MadeArm(b)' /\ MadeMips(b)'
      /\ CapturesFromTheRightBuild'
  BY <1>1 DEF OInv, Position, Making, Cleared, MadeArm, MadeMips, Done, HostElf, IsArm,
     IsMips, Fresh, Checked, CapturesFromTheRightBuild
<1> QED
  BY <1>3, <1>4 DEF OInv

-----------------------------------------------------------------------------
(* Taking turns: the other builders' runs are not under way.                *)

Acts(b) ==
  \/ Begin(b)
  \/ Clean(b) \/ OldDefConfig(b) \/ MakeTarget(b) \/ Compile(b) \/ Capture(b)
  \/ CommandFails(b)
  \/ Check(b) \/ CheckFails(b)
  \/ Report(b)

LEMMA OneActs ==
  ASSUME IInv, NEW b \in Builders, OInv(b), Acts(b)
  PROVE  OInv(b)'
BY OneClean, OneOldDefConfig, OneMakeTarget, OneCompile, OneCapture, OneCommandFails,
   OneCheckPasses, OneEnds, OneBegin DEF Acts

\* A builder's step is its own.
LEMMA ActsOnOwn ==
  ASSUME IInv, NEW b \in Builders, NEW c \in Builders, b # c, Acts(c)
  PROVE  /\ step'[b] = step[b] /\ phase'[b] = phase[b] /\ since'[b] = since[b]
         /\ made'[b] = made[b] /\ source' = source
         /\ step[c] # 0 \/ step'[c] # 0
<1>1. CASE Begin(c)
  BY <1>1 DEF Begin, IInv, TypeOK
<1>2. CASE Clean(c) \/ OldDefConfig(c)
  BY <1>2 DEF Clean, OldDefConfig, At, ToNext, IInv, TypeOK
<1>3. CASE MakeTarget(c)
  BY <1>3 DEF MakeTarget, At, IInv, TypeOK
<1>4. CASE Compile(c) \/ Capture(c)
  BY <1>4 DEF Compile, Capture, At, ToCheck, IInv, TypeOK
<1>5. CASE CommandFails(c)
  BY <1>5 DEF CommandFails, Stop, IInv, TypeOK
<1>6. CASE Check(c) \/ CheckFails(c)
  <2>1. step[c] # 0
    BY <1>6 DEF Check, CheckVerdict, CheckFails, IInv, InCheck
  <2> QED
    BY <1>6, <2>1 DEF Check, CheckVerdict, CheckFails, Stop, IInv, TypeOK
<1>7. CASE Report(c)
  BY <1>7, StepTable DEF Report, IInv, TypeOK
<1> QED
  BY <1>1, <1>2, <1>3, <1>4, <1>5, <1>6, <1>7 DEF Acts

\* A builder that acts leaves the others, which are idle, nothing to hold.
LEMMA OthersIdle ==
  ASSUME IInv, TakeTurns, TakeTurns', NEW b \in Builders, NEW c \in Builders, b # c,
         OInv(b), OInv(c)', Acts(c)
  PROVE  OInv(b)'
<1>1. /\ step'[b] = step[b] /\ phase'[b] = phase[b] /\ since'[b] = since[b]
      /\ made'[b] = made[b] /\ source' = source
      /\ step[c] # 0 \/ step'[c] # 0
  BY ActsOnOwn
<1>2. step[b] = 0
  BY <1>1 DEF TakeTurns
<1>3. ~ Checked(b)' /\ made'[b] = {}
  BY <1>1, <1>2, StepTable DEF Checked, IInv, InCheck, OInv, Making
<1>4. Bounded(b)' /\ CapturesFromTheRightBuild'
  BY <1>1 DEF OInv, Bounded
<1> QED
  BY <1>1, <1>2, <1>3, <1>4, OneStopped

Turns == CapturesFromTheRightBuild /\ \A b \in Builders : OInv(b)

LEMMA NextTurns ==
  ASSUME IInv, Turns, TakeTurns, TakeTurns', [Next]_vars
  PROVE  Turns'
<1>1. \A b \in Builders : OInv(b)
  BY DEF Turns
<1>2. CASE UNCHANGED vars
  BY <1>1, <1>2 DEF Turns, vars, OInv, Bounded, Position, Making, Cleared, MadeArm,
     MadeMips, Done, HostElf, IsArm, IsMips, Fresh, Checked, CapturesFromTheRightBuild
<1>3. CASE Edit
  <2>1. CapturesFromTheRightBuild'
    BY <1>3 DEF Edit, Turns, CapturesFromTheRightBuild
  <2> QED
    BY <1>1, <1>3, <2>1, OneEdit DEF Turns
<1>4. ASSUME NEW c \in Builders, Acts(c) PROVE Turns'
  <2>1. OInv(c)'
    BY <1>1, <1>4, OneActs
  <2>2. \A b \in Builders \ {c} : OInv(b)'
    BY <1>1, <1>4, <2>1, OthersIdle
  <2> QED
    BY <2>1, <2>2 DEF Turns, OInv
<1> QED
  BY <1>2, <1>3, <1>4 DEF Next, Acts

\* What a build about to report success has made: five artifacts for their
\* machines, none older than the start of its run.
ReportsTruly ==
  \A b \in Builders : step[b] = Len(Steps) + 1 /\ ~ abi[b] =>
    \A a \in Artifact : tree[a].arch = Target(a) /\ tree[a].src >= since[b]

\* Past the last step everything has been made and checked.
LEMMA LastStepReports ==
  ASSUME IInv, Turns
  PROVE  ReportsTruly
<1> SUFFICES ASSUME NEW b \in Builders, step[b] = Len(Steps) + 1, ~ abi[b],
                    NEW a \in Artifact
             PROVE  tree[a].arch = Target(a) /\ tree[a].src >= since[b]
  BY DEF ReportsTruly
<1>1. step[b] = 14 /\ OInv(b)
  BY StepTable DEF Turns
<1>2. /\ IsArm(b, "katapult.bin") /\ IsArm(b, "mcu/klipper.bin")
      /\ IsArm(b, "mcu/klipper.dict")
  BY <1>1 DEF OInv, MadeArm, Done
<1>3. /\ Fresh(b, "c_helper.so") /\ tree["c_helper.so"].arch = "mips"
      /\ Fresh(b, "mcu/klipper_mcu.elf") /\ tree["mcu/klipper_mcu.elf"].arch = "mips"
  BY <1>1 DEF OInv, MadeMips, Done, IsMips
<1> QED
  BY <1>2, <1>3 DEF IsArm, Fresh, Artifact, Target

LEMMA TurnsSpecInv == TurnsSpec => [](IInv /\ Turns)
<1>1. Init => IInv /\ Turns /\ TakeTurns
  <2> SUFFICES ASSUME Init PROVE IInv /\ Turns /\ TakeTurns
    OBVIOUS
  <2>1. CapturesFromTheRightBuild
    BY DEF Init, CapturesFromTheRightBuild, Missing, Path
  <2>2. TakeTurns
    BY DEF Init, TakeTurns
  <2> QED
    BY <2>1, <2>2, InitInv, InitOne DEF Turns
<1>2. IInv /\ Turns /\ TakeTurns /\ [Next /\ TakeTurns']_vars => (IInv /\ Turns /\ TakeTurns)'
  <2> SUFFICES ASSUME IInv, Turns, TakeTurns, [Next /\ TakeTurns']_vars
               PROVE  (IInv /\ Turns /\ TakeTurns)'
    OBVIOUS
  <2>1. TakeTurns' /\ [Next]_vars
    BY DEF vars, TakeTurns
  <2> QED
    BY <2>1, NextInv, NextTurns
<1> QED
  BY <1>1, <1>2, PTL DEF TurnsSpec

\* Builds that take turns, any number of them, each of which may fail anywhere:
\* what is captured comes from the right make, at any moment.
THEOREM CapturesRight == TurnsSpec => []CapturesFromTheRightBuild
<1>1. Turns => CapturesFromTheRightBuild
  BY DEF Turns
<1> QED
  BY <1>1, TurnsSpecInv, PTL

\* Only Report lets a run end well.
MipsElf ==
  \A b \in Builders : exit[b] # "ok" /\ exit'[b] = "ok" =>
    tree'["mcu/klipper_mcu.elf"].arch = "mips"

LEMMA MipsElfStep ==
  ASSUME IInv, Turns, [Next]_vars
  PROVE  [MipsElf]_vars
<1>1. ASSUME NEW c \in Builders, Report(c) PROVE MipsElf
  <2>1. ASSUME NEW b \in Builders, exit[b] # "ok", exit'[b] = "ok"
        PROVE  step[b] = Len(Steps) + 1 /\ ~ abi[b] /\ tree' = tree
    BY <1>1, <2>1 DEF Report, IInv, TypeOK
  <2>2. ReportsTruly
    BY LastStepReports
  <2>3. "mcu/klipper_mcu.elf" \in Artifact /\ Target("mcu/klipper_mcu.elf") = "mips"
    BY DEF Artifact, Target
  <2> QED
    BY <2>1, <2>2, <2>3 DEF ReportsTruly, MipsElf
<1>2. ASSUME NEW c \in Builders, ~ Report(c), Acts(c)
      PROVE  \A b \in Builders : exit'[b] = "ok" => exit[b] = "ok"
  BY <1>2 DEF Acts, Begin, Clean, OldDefConfig, MakeTarget, Compile, Capture, CommandFails,
     Check, CheckVerdict, CheckFails, Stop, At, ToNext, ToCheck, IInv, TypeOK
<1>3. CASE Edit
  BY <1>3 DEF Edit, MipsElf
<1> QED
  BY <1>1, <1>2, <1>3 DEF Next, Acts, MipsElf

\* What SuccessMeansMipsElf lacks is a lock and nothing else: builds that take
\* turns, which the code does not enforce, never report success over another
\* architecture's klipper_mcu.elf.
THEOREM TurnsKeepMips == TurnsSpec => SuccessMeansMipsElf
<1>1. IInv /\ Turns /\ [Next /\ TakeTurns']_vars => [MipsElf]_vars
  BY MipsElfStep
<1>2. SuccessMeansMipsElf <=> [][MipsElf]_vars
  BY DEF SuccessMeansMipsElf, MipsElf
<1> QED
  BY <1>1, <1>2, TurnsSpecInv, PTL DEF TurnsSpec

-----------------------------------------------------------------------------
(* Builds that take turns keep the contract.                                *)

Product == [a \in Artifact |-> Abstracted(a)]
Statuses == [b \in Builders |-> Status(b)]

\* A write to at most one artifact, of a file no newer than the sources.
LEMMA Touches ==
  ASSUME IInv, NEW b \in Builders, OInv(b), NEW outs, NEW c, NEW x \in Artifact,
         Write(outs, c), outs \cap Artifact \subseteq {x}, c.src \in 0 .. source
  PROVE  Contract!Touch
<1>1. \A p \in Path : tree'[p] = IF p \in outs THEN c ELSE tree[p]
  BY Written
<1>2. Artifact \subseteq Path
  BY DEF Artifact, Path
<1>3. Abstracted(x)' \in (0 .. source) \cup {-1}
  <2>1. tree'[x].src \in 0 .. source
    BY <1>1, <1>2, OneTypes DEF OInv, Bounded
  <2> QED
    BY <2>1 DEF Abstracted
<1>4. \A a \in Artifact \ {x} : Abstracted(a)' = Abstracted(a)
  BY <1>1, <1>2 DEF Abstracted
<1>5. Product' = [Product EXCEPT ![x] = Abstracted(x)']
  BY <1>4 DEF Product
<1> QED
  BY <1>3, <1>5 DEF Contract!Touch, Contract!Unusable, Product

\* Whatever a step writes, it writes one artifact at most.
LEMMA OneArtifact ==
  ASSUME NEW k \in 1 .. 13
  PROVE  \E x \in Artifact : Steps[k].outs \cap Artifact \subseteq {x}
<1>1. /\ Steps[1].outs \cap Artifact \subseteq {"katapult.bin"}
      /\ Steps[2].outs \cap Artifact \subseteq {"katapult.bin"}
      /\ Steps[3].outs \cap Artifact \subseteq {"katapult.bin"}
      /\ Steps[4].outs \cap Artifact \subseteq {"katapult.bin"}
      /\ Steps[5].outs \cap Artifact \subseteq {"katapult.bin"}
      /\ Steps[6].outs \cap Artifact \subseteq {"katapult.bin"}
      /\ Steps[7].outs \cap Artifact \subseteq {"mcu/klipper.bin"}
      /\ Steps[8].outs \cap Artifact \subseteq {"mcu/klipper.dict"}
      /\ Steps[9].outs \cap Artifact \subseteq {"c_helper.so"}
      /\ Steps[10].outs \cap Artifact \subseteq {"katapult.bin"}
      /\ Steps[11].outs \cap Artifact \subseteq {"katapult.bin"}
      /\ Steps[12].outs \cap Artifact \subseteq {"katapult.bin"}
      /\ Steps[13].outs \cap Artifact \subseteq {"mcu/klipper_mcu.elf"}
  BY StepTable DEF clean, wipe_katapult, wipe_klipper, olddefconfig, compile, capture,
     katapult_make, firmware_make, helper_gcc, host_make, bin_capture, dict_capture,
     elf_capture, KlipperOut, Artifact
<1> QED
  BY <1>1 DEF Artifact

\* A builder's step is its own in the contract as well.
LEMMA StatusOf ==
  ASSUME IInv, NEW b \in Builders, NEW s \in {"running", "ok", "failed"},
         Status(b)' = s,
         \A c \in Builders \ {b} : step'[c] = step[c] /\ exit'[c] = exit[c]
  PROVE  Statuses' = [Statuses EXCEPT ![b] = s]
<1>1. \A c \in Builders \ {b} : Status(c)' = Status(c)
  BY DEF Status
<1> QED
  BY <1>1 DEF Statuses

\* A command of a builder at work, whatever it did to the one artifact it writes.
LEMMA StillWorking ==
  ASSUME IInv, NEW b \in Builders, step[b] # 0, step'[b] # 0, Contract!Touch,
         \A c \in Builders \ {b} : step'[c] = step[c], UNCHANGED <<source, since, exit>>
  PROVE  Contract!Work(b)
<1>1. Status(b) = "running" /\ Status(b)' = "running"
  BY DEF Status
<1>2. \A c \in Builders : Status(c)' = Status(c)
  BY <1>1 DEF Status
<1>3. Statuses' = Statuses
  BY <1>2 DEF Statuses
<1> QED
  BY <1>1, <1>3 DEF Contract!Work, Contract!Running, Statuses

LEMMA CommandWorks ==
  ASSUME IInv, NEW b \in Builders, OInv(b),
         Clean(b) \/ OldDefConfig(b) \/ Compile(b) \/ Capture(b)
  PROVE  Contract!Work(b)
<1> DEFINE s == Steps[step[b]]
<1>1. /\ step[b] \in 1 .. 13 /\ phase[b] = "command"
      /\ ToNext(b) \/ ToCheck(b)
      /\ UNCHANGED <<source, abi, since, exit>>
  BY StepTable DEF Clean, OldDefConfig, Compile, Capture, At
<1>2. step'[b] # 0 /\ \A c \in Builders \ {b} : step'[c] = step[c]
  BY <1>1 DEF ToNext, ToCheck, IInv, TypeOK
<1>3. PICK x \in Artifact : s.outs \cap Artifact \subseteq {x}
  BY <1>1, OneArtifact
<1>4. source \in Nat
  BY OneTypes
<1>5. Contract!Touch
  <2>1. CASE Clean(b)
    BY <2>1, <1>3, <1>4, Touches, OneTypes DEF Clean
  <2>2. CASE OldDefConfig(b)
    <3>1. Product' = Product
      BY <2>2 DEF OldDefConfig, Product, Abstracted
    <3> QED
      BY <3>1 DEF Contract!Touch, Product
  <2>3. CASE Compile(b)
    <3>1. PICK c \in Compiled(s, s.output) : Write(s.outs, c)
      BY <2>3 DEF Compile
    <3>2. c.src = source
      BY <3>1 DEF Compiled
    <3> QED
      BY <3>1, <3>2, <1>3, <1>4, Touches
  <2>4. CASE Capture(b)
    <3>1. Write(s.outs, tree[s.from]) /\ At(b, "cp")
      BY <2>4 DEF Capture
    <3>2. s.from \in Path
      BY <3>1, Places, StepTable DEF bin_capture, dict_capture, elf_capture, capture, Path
    <3>3. tree[s.from].src \in 0 .. source
      BY <3>2, OneTypes DEF OInv, Bounded
    <3> QED
      BY <3>1, <3>3, <1>3, Touches
  <2> QED
    BY <2>1, <2>2, <2>3, <2>4
<1> QED
  BY <1>1, <1>2, <1>5, StillWorking

LEMMA TargetWorks ==
  ASSUME IInv, NEW b \in Builders, OInv(b), MakeTarget(b)
  PROVE  Contract!Work(b)
<1> DEFINE s == Steps[step[b]]
<1>1. /\ step[b] \in 1 .. 13 /\ At(b, "make")
      /\ UNCHANGED <<source, step, since, exit>>
  BY StepTable DEF MakeTarget, At
<1>2. PICK x \in Artifact : s.outs \cap Artifact \subseteq {x}
  BY <1>1, OneArtifact
<1>3. PICK p \in s.outs \ made[b] :
        /\ Prerequisites(p) \cap s.outs \subseteq made[b]
        /\ \E c \in Built(s, p) \cup ({tree[p]} \ {Missing}) : Write({p}, c)
  BY DEF MakeTarget
<1>4. PICK c \in Built(s, p) \cup ({tree[p]} \ {Missing}) : Write({p}, c)
  BY <1>3
<1>5. c.src >= since[b] /\ c.src <= source
  BY <1>1, <1>3, <1>4, Target1
<1>6. source \in Nat /\ since[b] \in Nat
  BY OneTypes
<1>7. c.src \in Nat
  <2>1. c \in Contents
    <3>1. s \in Makes /\ p \in Path
      BY <1>1, <1>3, StepFacts, MakeFacts DEF MakeTarget, At
    <3> QED
      BY <1>4, <3>1, BuiltType DEF IInv, TypeOK
  <2> QED
    BY <2>1, BuildConstants DEF Contents, Missing, Version
<1>8. {p} \cap Artifact \subseteq {x}
  BY <1>2, <1>3
<1>9. c.src \in 0 .. source
  BY <1>5, <1>6, <1>7
<1>10. Contract!Touch
  BY <1>4, <1>8, <1>9, Touches
<1> QED
  BY <1>1, <1>10, StillWorking

LEMMA FailureFails ==
  ASSUME IInv, NEW b \in Builders, OInv(b), CommandFails(b) \/ CheckFails(b)
  PROVE  Contract!Fail(b)
<1> DEFINE s == Steps[step[b]]
<1>1. step[b] \in 1 .. 13
  BY StepTable DEF CommandFails, CheckFails, IInv, InCheck
<1>2. /\ step' = [step EXCEPT ![b] = 0]
      /\ exit' = [exit EXCEPT ![b] = "failed"]
      /\ UNCHANGED <<source, since>>
  BY DEF CommandFails, CheckFails, Stop
<1>3. Status(b) = "running" /\ Status(b)' = "failed"
  BY <1>1, <1>2 DEF Status, IInv, TypeOK
<1>4. Statuses' = [Statuses EXCEPT ![b] = "failed"]
  BY <1>2, <1>3, StatusOf DEF IInv, TypeOK
<1>5. Contract!Touch
  <2>1. CASE CommandFails(b)
    <3>1. PICK some \in Interrupted(b), left \in Leavings(s) : Write(some, left)
      BY <2>1 DEF CommandFails
    <3>2. left = Missing \/ left.src = source
      BY <3>1 DEF Leavings
    <3>3. left.src \in 0 .. source
      BY <3>2, OneTypes
    <3>4. PICK x \in Artifact : s.outs \cap Artifact \subseteq {x}
      BY <1>1, OneArtifact
    <3>5. some \cap Artifact \subseteq {x}
      BY <3>1, <3>4 DEF Interrupted
    <3> QED
      BY <3>1, <3>3, <3>5, Touches
  <2>2. CASE CheckFails(b)
    <3>1. Product' = Product
      BY <2>2 DEF CheckFails, Product, Abstracted
    <3> QED
      BY <3>1 DEF Contract!Touch, Product
  <2> QED
    BY <2>1, <2>2
<1> QED
  BY <1>2, <1>3, <1>4, <1>5 DEF Contract!Fail, Contract!Running, Statuses

\* Exit 0 only with every artifact usable and no older than the run.
LEMMA ReportEnds ==
  ASSUME IInv, Turns, NEW b \in Builders, Report(b)
  PROVE  Contract!Succeed(b) \/ Contract!Fail(b)
<1>1. /\ step[b] = 14 /\ UNCHANGED <<source, tree, since>>
      /\ step' = [step EXCEPT ![b] = 0]
      /\ exit' = [exit EXCEPT ![b] = IF abi[b] THEN "failed" ELSE "ok"]
  BY StepTable DEF Report
<1>2. /\ Status(b) = "running"
      /\ Status(b)' = IF abi[b] THEN "failed" ELSE "ok"
  BY <1>1 DEF Status, IInv, TypeOK
<1>3. Statuses' = [Statuses EXCEPT ![b] = IF abi[b] THEN "failed" ELSE "ok"]
  BY <1>1, <1>2, StatusOf DEF IInv, TypeOK
<1>4. Product' = Product
  BY <1>1 DEF Product, Abstracted
<1>5. CASE abi[b]
  BY <1>1, <1>2, <1>3, <1>4, <1>5
     DEF Contract!Fail, Contract!Touch, Contract!Running, Product, Statuses
<1>6. CASE ~ abi[b]
  <2>1. ReportsTruly
    BY LastStepReports
  <2>2. \A a \in Artifact : Product[a] >= since[b]
    BY <1>1, <1>6, <2>1, StepTable DEF ReportsTruly, Product, Abstracted
  <2> QED
    BY <1>1, <1>2, <1>3, <1>4, <1>6, <2>2
       DEF Contract!Succeed, Contract!Running, Product, Statuses
<1> QED
  BY <1>5, <1>6

LEMMA ContractNext ==
  ASSUME IInv, Turns, [Next /\ TakeTurns']_vars
  PROVE  [Contract!Next]_(Contract!vars)
<1>1. CASE UNCHANGED vars
  BY <1>1 DEF vars, Contract!vars, Abstracted, Status
<1>2. CASE Edit
  BY <1>2 DEF Edit, Contract!Next, Contract!Edit, Abstracted, Status
<1>3. ASSUME NEW b \in Builders, Begin(b), TakeTurns' PROVE Contract!Begin(b)
  <2>1. /\ step[b] = 0 /\ step' = [step EXCEPT ![b] = 1]
        /\ since' = [since EXCEPT ![b] = source] /\ exit' = [exit EXCEPT ![b] = "none"]
        /\ UNCHANGED <<source, tree>>
    BY <1>3 DEF Begin
  <2>2. \A c \in Builders : Status(c) # "running"
    <3>1. \A c \in Builders : step'[c] # 0 => c = b
      BY <1>3, <2>1 DEF TakeTurns, IInv, TypeOK
    <3>2. \A c \in Builders : step[c] = 0
      BY <2>1, <3>1 DEF IInv, TypeOK
    <3> QED
      BY <3>2 DEF Status, IInv, TypeOK
  <2>3. Status(b)' = "running"
    BY <2>1 DEF Status, IInv, TypeOK
  <2>4. Statuses' = [Statuses EXCEPT ![b] = "running"]
    BY <2>1, <2>3, StatusOf DEF IInv, TypeOK
  <2>5. Product' = Product
    BY <2>1 DEF Product, Abstracted
  <2> QED
    BY <2>1, <2>2, <2>4, <2>5 DEF Contract!Begin, Contract!Running, Product, Statuses
<1>4. ASSUME NEW b \in Builders, Check(b) PROVE UNCHANGED Contract!vars
  <2>1. step[b] # 0 /\ step' = [step EXCEPT ![b] = @ + 1] /\ step'[b] # 0
    BY <1>4 DEF Check, CheckVerdict, IInv, TypeOK, InCheck
  <2>2. UNCHANGED <<source, tree, since, exit>>
    BY <1>4 DEF Check, CheckVerdict
  <2>3. \A c \in Builders : Status(c)' = Status(c)
    BY <2>1, <2>2 DEF Status, IInv, TypeOK
  <2> QED
    BY <2>2, <2>3 DEF Contract!vars, Abstracted
<1>5. ASSUME NEW b \in Builders,
             \/ Clean(b) \/ OldDefConfig(b) \/ Compile(b) \/ Capture(b) \/ MakeTarget(b)
             \/ CommandFails(b) \/ CheckFails(b) \/ Report(b)
      PROVE  Contract!Work(b) \/ Contract!Fail(b) \/ Contract!Succeed(b)
  BY <1>5, CommandWorks, TargetWorks, FailureFails, ReportEnds DEF Turns
<1> QED
  BY <1>1, <1>2, <1>3, <1>4, <1>5 DEF Next, Contract!Next

\* Of builds that take turns, one that exits 0 has left five usable artifacts,
\* none older than the start of its run, and one that fails promises nothing.
THEOREM BuildKeepsContract == TurnsSpec => KeepsContract
<1>1. Init => Contract!Init
  <2> SUFFICES ASSUME Init PROVE Contract!Init
    OBVIOUS
  <2>1. /\ source = 0 /\ since = [b \in Builders |-> 0]
        /\ Statuses = [b \in Builders |-> "none"]
    BY DEF Init, Status, Statuses
  <2>2. \A a \in Artifact : Abstracted(a) = -1
    BY DEF Init, Abstracted, Missing, Target, Artifact, Path
  <2> QED
    BY <2>1, <2>2 DEF Contract!Init, Contract!Unusable, Statuses
<1>2. IInv /\ Turns /\ [Next /\ TakeTurns']_vars => [Contract!Next]_(Contract!vars)
  BY ContractNext
<1> QED
  BY <1>1, <1>2, TurnsSpecInv, PTL DEF TurnsSpec, KeepsContract, Contract!Spec
=============================================================================
