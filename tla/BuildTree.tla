------------------------------ MODULE BuildTree ------------------------------
(***************************************************************************)
(* `build.py artifacts`: the thirteen steps orchestrate.py runs, in order, *)
(* in one source tree that two makes (ARM and MIPS) share.                 *)
(*                                                                         *)
(* A file is missing or was built for an architecture from a version of    *)
(* the sources.  A make works target by target, and a command and the      *)
(* check run_steps makes of its output are separate steps: another process *)
(* may change the tree in between.  Nothing in the code keeps two builds   *)
(* of one tree apart.                                                      *)
(***************************************************************************)
EXTENDS Integers, Sequences

CONSTANTS Builders,   \* processes running `build.py artifacts` in this tree
          MaxSource   \* bound: the sources change at most this often

ASSUME BuildConstants == MaxSource \in Nat

\* external/katapult/out, external/klipper/out, klippy/chelper, mcu-firmware
Path == {"katapult.bin", "out/klipper.bin", "out/klipper.dict",
         "out/klipper.elf", "c_helper.so",
         "mcu/klipper.bin", "mcu/klipper.dict", "mcu/klipper_mcu.elf"}
KlipperOut == {"out/klipper.bin", "out/klipper.dict", "out/klipper.elf"}

\* "alien" is a MIPS ELF of another ABI, "malformed" one cut short.
Arch == {"arm", "mips", "alien", "malformed"}
Version == 0 .. MaxSource
Missing == [arch |-> "none", src |-> 0]
Contents == [arch : Arch, src : Version] \cup {Missing}

-----------------------------------------------------------------------------
(* The steps (build_all_artifacts).                                         *)

clean(outs) == [op |-> "clean", outs |-> outs]
olddefconfig == [op |-> "olddefconfig", outs |-> {}]
compile(op, arch, outs, output, elf) ==
  [op |-> op, arch |-> arch, outs |-> outs, output |-> output, elf |-> elf]
capture(from, to) ==
  [op |-> "cp", from |-> from, outs |-> {to}, output |-> to, elf |-> FALSE]

make_steps(arch, dir, outs, output, elf) ==
  <<clean(dir), olddefconfig, compile("make", arch, outs, output, elf)>>

katapult_steps ==
  make_steps("arm", {"katapult.bin"}, {"katapult.bin"}, "katapult.bin", FALSE)
klipper_steps ==
  make_steps("arm", KlipperOut, KlipperOut, "out/klipper.bin", FALSE)
c_helper_steps ==
  <<compile("gcc", "mips", {"c_helper.so"}, "c_helper.so", TRUE)>>
klipper_mcu_steps ==
  make_steps("mips", KlipperOut, KlipperOut \ {"out/klipper.bin"},
             "out/klipper.elf", TRUE)

\* Slip: the firmware is captured at the end, when the host build has wiped it.
StepsCaptureLast ==
  katapult_steps \o klipper_steps \o c_helper_steps \o klipper_mcu_steps
  \o <<capture("out/klipper.dict", "mcu/klipper.dict"),
       capture("out/klipper.bin", "mcu/klipper.bin"),
       capture("out/klipper.elf", "mcu/klipper_mcu.elf")>>

Steps ==
  katapult_steps \o klipper_steps
  \o <<capture("out/klipper.bin", "mcu/klipper.bin"),
       capture("out/klipper.dict", "mcu/klipper.dict")>>
  \o c_helper_steps \o klipper_mcu_steps
  \o <<capture("out/klipper.elf", "mcu/klipper_mcu.elf")>>

VARIABLES
  source,  \* version of the sources in the tree
  tree,    \* [Path -> Contents]
  step,    \* [Builders -> step being run; 0 when none]
  phase,   \* [Builders -> "command" or "check"]
  made,    \* [Builders -> targets its running make is done with]
  abi,     \* [Builders -> has a step reported an ABI violation?]
  since,   \* [Builders -> version of the sources when it began]
  exit     \* [Builders -> "none", "ok" or "failed"]

vars == <<source, tree, step, phase, made, abi, since, exit>>

TypeOK ==
  /\ source \in Version
  /\ tree \in [Path -> Contents]
  /\ step \in [Builders -> 0 .. Len(Steps) + 1]
  /\ phase \in [Builders -> {"command", "check"}]
  /\ made \in [Builders -> SUBSET Path]
  /\ abi \in [Builders -> BOOLEAN]
  /\ since \in [Builders -> Version]
  /\ exit \in [Builders -> {"none", "ok", "failed"}]

Init ==
  /\ source = 0
  /\ tree = [p \in Path |-> Missing]
  /\ step = [b \in Builders |-> 0]
  /\ phase = [b \in Builders |-> "command"]
  /\ made = [b \in Builders |-> {}]
  /\ abi = [b \in Builders |-> FALSE]
  /\ since = [b \in Builders |-> 0]
  /\ exit = [b \in Builders |-> "none"]

\* An edit, a checkout or a submodule update.
Edit ==
  /\ source < MaxSource
  /\ source' = source + 1
  /\ UNCHANGED <<tree, step, phase, made, abi, since, exit>>

\* cmd_artifacts starts the container; SOURCE_DATE_EPOCH is read from HEAD.
Begin(b) ==
  /\ step[b] = 0
  /\ step' = [step EXCEPT ![b] = 1]
  /\ phase' = [phase EXCEPT ![b] = "command"]
  /\ abi' = [abi EXCEPT ![b] = FALSE]
  /\ since' = [since EXCEPT ![b] = source]
  /\ exit' = [exit EXCEPT ![b] = "none"]
  /\ UNCHANGED <<source, tree, made>>

At(b, op) ==
  /\ step[b] \in 1 .. Len(Steps)
  /\ phase[b] = "command"
  /\ Steps[step[b]].op = op

Write(outs, c) == tree' = [p \in Path |-> IF p \in outs THEN c ELSE tree[p]]

ToNext(b) ==
  /\ step' = [step EXCEPT ![b] = @ + 1]
  /\ UNCHANGED phase

ToCheck(b) ==
  /\ phase' = [phase EXCEPT ![b] = "check"]
  /\ UNCHANGED step

\* The failing step ends the run, and its process with all it knew.
Stop(b) ==
  /\ step' = [step EXCEPT ![b] = 0]
  /\ phase' = [phase EXCEPT ![b] = "command"]
  /\ made' = [made EXCEPT ![b] = {}]
  /\ abi' = [abi EXCEPT ![b] = FALSE]
  /\ exit' = [exit EXCEPT ![b] = "failed"]
  /\ UNCHANGED <<source, since>>

Clean(b) ==
  /\ At(b, "clean")
  /\ Write(Steps[step[b]].outs, Missing)
  /\ ToNext(b)
  /\ UNCHANGED <<source, made, abi, since, exit>>

OldDefConfig(b) ==
  /\ At(b, "olddefconfig")
  /\ ToNext(b)
  /\ UNCHANGED <<source, tree, made, abi, since, exit>>

\* The cross compiler (image or snapshot volume) decides the ABI of MIPS
\* output; a full disk can cut an ELF short.
Compiled(s, p) ==
  {[arch |-> arch, src |-> source] :
     arch \in IF s.elf /\ p = s.output THEN {s.arch, "alien", "malformed"} ELSE {s.arch}}

\* klipper.elf is linked with the dictionary's object; klipper.bin is objcopied
\* from whatever klipper.elf is there.
Prerequisites(p) == CASE p = "out/klipper.elf" -> {"out/klipper.dict"}
                      [] p = "out/klipper.bin" -> {"out/klipper.elf"}
                      [] OTHER -> {}
Built(s, p) == IF p = "out/klipper.bin" THEN {tree["out/klipper.elf"]} \ {Missing}
               ELSE Compiled(s, p)

\* One target, its prerequisites done.  One that exists, because another build
\* has made it since the clean, may be up to date and stays as it is.
MakeTarget(b) ==
  LET s == Steps[step[b]] IN
  /\ At(b, "make")
  /\ \E p \in s.outs \ made[b] :
       LET done == made[b] \cup {p} IN
       /\ Prerequisites(p) \cap s.outs \subseteq made[b]
       /\ \E c \in Built(s, p) \cup ({tree[p]} \ {Missing}) : Write({p}, c)
       /\ made' = [made EXCEPT ![b] = IF done = s.outs THEN {} ELSE done]
       /\ phase' = [phase EXCEPT ![b] = IF done = s.outs THEN "check" ELSE "command"]
  /\ UNCHANGED <<source, step, abi, since, exit>>

\* gcc compiles c_helper.so in one go.
Compile(b) ==
  LET s == Steps[step[b]] IN
  /\ At(b, "gcc")
  /\ \E c \in Compiled(s, s.output) : Write(s.outs, c)
  /\ ToCheck(b)
  /\ UNCHANGED <<source, made, abi, since, exit>>

Capture(b) ==
  LET s == Steps[step[b]] IN
  /\ At(b, "cp")
  /\ tree[s.from] # Missing
  /\ Write(s.outs, tree[s.from])
  /\ ToCheck(b)
  /\ UNCHANGED <<source, made, abi, since, exit>>

\* A command exits non-zero or is interrupted: clean has removed some files;
\* any other command was at most one file from where it had got to, which it
\* leaves alone, removes or leaves half written.
Interrupted(b) ==
  LET s == Steps[step[b]] IN
  IF s.op = "clean" THEN SUBSET s.outs
  ELSE {{}} \cup {{p} : p \in s.outs \ made[b]}
Leavings(s) == {Missing} \cup
  (IF s.op = "clean" THEN {} ELSE {[arch |-> "malformed", src |-> source]})

CommandFails(b) ==
  /\ step[b] \in 1 .. Len(Steps)
  /\ phase[b] = "command"
  /\ \E some \in Interrupted(b), left \in Leavings(Steps[step[b]]) : Write(some, left)
  /\ Stop(b)

Output(b) == tree[Steps[step[b]].output]

\* run_steps: the output must exist; an ELF must parse.  An ABI violation is
\* noted in the result and does not stop the run.
CheckVerdict(b, bad) ==
  /\ phase[b] = "check"
  /\ Output(b) # Missing
  /\ Steps[step[b]].elf => Output(b).arch # "malformed"
  /\ abi' = [abi EXCEPT ![b] = bad]
  /\ phase' = [phase EXCEPT ![b] = "command"]
  /\ UNCHANGED <<source, tree, made, since, exit>>

Violates(b) == Steps[step[b]].elf /\ Output(b).arch # "mips"

\* Slip: the verdict on the last ELF stands for all.
CheckLastOnly(b) ==
  /\ CheckVerdict(b, Violates(b))
  /\ step' = [step EXCEPT ![b] = @ + 1]

\* Slip: a copied file is counted as a step of its own.
CheckSkips(b) ==
  /\ CheckVerdict(b, abi[b] \/ Violates(b))
  /\ step' = [step EXCEPT ![b] = @ + (IF Steps[@].op = "cp" THEN 2 ELSE 1)]

Check(b) ==
  /\ CheckVerdict(b, abi[b] \/ Violates(b))
  /\ step' = [step EXCEPT ![b] = @ + 1]

CheckFails(b) ==
  /\ phase[b] = "check"
  /\ \/ Output(b) = Missing
     \/ Steps[step[b]].elf /\ Output(b).arch = "malformed"
  /\ Stop(b)
  /\ UNCHANGED tree

\* _main: exit 1 when a step failed or any step reported a violation.
Report(b) ==
  /\ step[b] = Len(Steps) + 1
  /\ step' = [step EXCEPT ![b] = 0]
  /\ abi' = [abi EXCEPT ![b] = FALSE]
  /\ exit' = [exit EXCEPT ![b] = IF abi[b] THEN "failed" ELSE "ok"]
  /\ UNCHANGED <<source, tree, phase, made, since>>

Next ==
  \/ Edit
  \/ \E b \in Builders :
       \/ Begin(b)
       \/ Clean(b) \/ OldDefConfig(b) \/ MakeTarget(b) \/ Compile(b) \/ Capture(b)
       \/ CommandFails(b)
       \/ Check(b) \/ CheckFails(b)
       \/ Report(b)

Spec == Init /\ [][Next]_vars

\* Builds that somebody keeps apart: the code has no lock, and what two builds
\* that overlap do to each other is SuccessMeansMipsElf's to show.
TakeTurns == \A b, c \in Builders : step[b] # 0 /\ step[c] # 0 => b = c
TurnsSpec == Init /\ [][Next /\ TakeTurns']_vars

-----------------------------------------------------------------------------
(* Properties.                                                              *)

Artifact == {"katapult.bin", "mcu/klipper.bin", "mcu/klipper.dict",
             "c_helper.so", "mcu/klipper_mcu.elf"}
Target(a) == IF a \in {"c_helper.so", "mcu/klipper_mcu.elf"} THEN "mips" ELSE "arm"

\* The two makes share external/klipper/out, and each clean wipes what the
\* other built; the captured copies in mcu-firmware are never taken from the
\* wrong one, at any moment, after any failure.
CapturesFromTheRightBuild ==
  /\ tree["mcu/klipper.bin"].arch \in {"none", "malformed", "arm"}
  /\ tree["mcu/klipper.dict"].arch \in {"none", "malformed", "arm"}
  /\ tree["mcu/klipper_mcu.elf"].arch \in {"none", "malformed", "mips", "alien"}

\* Builds that take turns keep the contract of BuildContract, also one that
\* follows a build that failed anywhere, or another's: exit 0 means five usable
\* artifacts, none older than the start of the run.
Abstracted(a) == IF tree[a].arch = Target(a) THEN tree[a].src ELSE -1
Status(b) == IF step[b] # 0 THEN "running" ELSE exit[b]

Contract == INSTANCE BuildContract
  WITH product <- [a \in Artifact |-> Abstracted(a)],
       status <- [b \in Builders |-> Status(b)]

KeepsContract == Contract!Spec

\* build.py: "produces katapult.bin, klipper.bin, c_helper.so,
\* klipper_mcu.elf and verifies MIPS ABI" of the ELF outputs.  A build that
\* succeeds has just left a MIPS klipper_mcu.elf in mcu-firmware.
SuccessMeansMipsElf ==
  [][\A b \in Builders : exit[b] # "ok" /\ exit'[b] = "ok" =>
       tree'["mcu/klipper_mcu.elf"].arch = "mips"]_vars
=============================================================================
