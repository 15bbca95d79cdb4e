------------------------------- MODULE Rollout -------------------------------
(***************************************************************************)
(* `v3ke verify`, `deploy` and `rollout` (tools/v3ke/verify.nim,           *)
(* deploy.nim, rollout.nim, sshdev.nim), with `v3ke flash` as the last     *)
(* step of a rollout: the module extends FlashMcu and runs its actions.    *)
(*                                                                         *)
(* A rollout verifies the two host artifacts, pushes them to a staging     *)
(* directory of the printer, has the printer load them, and flashes the    *)
(* MCU.  Each step reads the artifacts for itself, so every read of a      *)
(* local file and every ssh call is a step; builds replace the files in    *)
(* between.  The operator runs one v3ke at a time.                         *)
(***************************************************************************)
EXTENDS FlashMcu, AbiCheck

CONSTANTS
  HostBuilds,  \* HostBuilds[s]: the contents artifact s can have
  Elf,         \* Elf[b]: what the ELF readers see of content b
  Loads,       \* Loads[s]: the contents of s that the printer's loader takes
  MaxCalls     \* bound: commands an operator gives, one after another

\* c_helper.so and klipper.elf (klipper_mcu.elf on the printer).
Slot == {"chelper", "hostElf"}
KindOf(s) == IF s = "chelper" THEN "SharedLibrary" ELSE "Executable"

ASSUME RolloutConstants ==
  /\ \A s \in Slot : /\ Loads[s] \subseteq HostBuilds[s]
                     /\ {"none", "torn"} \cap HostBuilds[s] = {}
                     /\ \A b \in HostBuilds[s] : Elf[b] \in File
  /\ MaxCalls \in Nat

VARIABLES
  local,    \* the artifacts at the paths verify and deploy use
  stage,    \* /usr/data/v3ke-staging on the printer
  command,  \* "verify", "deploy" or "rollout": running, or the last one
  step,     \* where it is; "idle" when none runs
  good,     \* verifyCmd's verdict so far
  result,   \* how it ended
  checked,  \* history: the content of each artifact this command verified
  calls     \* commands given so far

cli == <<command, step, good, result, checked, calls>>
everything == <<vars, local, stage, cli>>

Steps == {"idle", "verify chelper", "verify hostElf", "verdict",
          "push chelper", "push hostElf", "load chelper", "load hostElf",
          "flash", "flashing"}

\* One content for each artifact, of its builds or of the given ones.
Contents(others) ==
  {c \in [Slot -> (UNION {HostBuilds[s] : s \in Slot}) \cup others] :
     \A s \in Slot : c[s] \in HostBuilds[s] \cup others}

RolloutTypeOK ==
  /\ TypeOK
  /\ local \in Contents({"none"})
  /\ stage \in Contents({"none", "torn"})
  /\ command \in {"none", "verify", "deploy", "rollout"}
  /\ step \in Steps
  /\ step \in {"flash", "flashing"} => command = "rollout"
  /\ good \in BOOLEAN
  /\ result \in {"none", "ok", "failed", "aborted"}
  /\ checked \in Contents({"none"})
  /\ calls \in 0 .. MaxCalls

Unchecked == [s \in Slot |-> "none"]

RolloutInit ==
  /\ Init
  /\ local \in Contents({"none"})
  /\ stage = [s \in Slot |-> "none"]
  /\ command = "none" /\ step = "idle" /\ good = TRUE /\ result = "none"
  /\ checked = Unchecked
  /\ calls = 0

-----------------------------------------------------------------------------
(* How a command goes on and ends: it fails by a nonzero result or by       *)
(* raising, and nothing of it is undone.                                    *)

Verifying(s) == step = IF s = "chelper" THEN "verify chelper" ELSE "verify hostElf"
Pushing(s) == step = IF s = "chelper" THEN "push chelper" ELSE "push hostElf"
Loading(s) == step = IF s = "chelper" THEN "load chelper" ELSE "load hostElf"

Then(next) == step' = next /\ UNCHANGED <<command, result, calls>>

Finish(code) ==
  /\ step' = "idle" /\ result' = code /\ good' = TRUE /\ checked' = Unchecked
  /\ UNCHANGED <<command, calls>>

Given ==
  /\ step = "idle" /\ pc = "idle"
  /\ calls < MaxCalls /\ calls' = calls + 1

Call(c, first) ==
  /\ Given
  /\ command' = c /\ step' = first /\ good' = TRUE /\ result' = "none"
  /\ checked' = Unchecked
  /\ UNCHANGED <<vars, local, stage>>

StartVerify == Call("verify", "verify chelper")
StartDeploy == Call("deploy", "push chelper")
StartRollout == Call("rollout", "verify chelper")

-----------------------------------------------------------------------------
(* verifyCmd: a missing file and a mismatch are noted and the next file is  *)
(* looked at; a malformed one raises.                                       *)

ElfIs(s, verdict) ==
  IF local[s] = "none" THEN FALSE ELSE NimVerdict(Elf[local[s]], KindOf(s)) = verdict
RaisesVerify(s) == ElfIs(s, "malformed")
PassesVerify(s) == ElfIs(s, "ok")

AfterCheck(s) == IF s = "chelper" THEN "verify hostElf" ELSE "verdict"

\* Slip: the verdict of the second file replaces that of the first.
CheckMipsLast(s) ==
  /\ Verifying(s)
  /\ ~ RaisesVerify(s)
  /\ good' = PassesVerify(s)
  /\ checked' = [checked EXCEPT ![s] = local[s]]
  /\ Then(AfterCheck(s))
  /\ UNCHANGED <<vars, local, stage>>

checkMips(s) ==
  /\ Verifying(s)
  /\ ~ RaisesVerify(s)
  /\ good' = (good /\ PassesVerify(s))
  /\ checked' = [checked EXCEPT ![s] = local[s]]
  /\ Then(AfterCheck(s))
  /\ UNCHANGED <<vars, local, stage>>

checkMipsRaises(s) ==
  /\ Verifying(s)
  /\ RaisesVerify(s)
  /\ Finish("failed")
  /\ UNCHANGED <<vars, local, stage>>

Verdict ==
  /\ step = "verdict"
  /\ IF ~ good THEN Finish("failed")
     ELSE IF command = "verify" THEN Finish("ok")
     ELSE Then("push chelper") /\ UNCHANGED <<good, checked>>
  /\ UNCHANGED <<vars, local, stage>>

-----------------------------------------------------------------------------
(* deployCmd.                                                               *)

AfterPush(s) == IF s = "chelper" THEN "push hostElf" ELSE "load chelper"

\* Slip: what is staged already is not pushed again.
PushOnce(s) ==
  /\ Pushing(s)
  /\ local[s] # "none"
  /\ stage' = IF stage[s] = "none" THEN [stage EXCEPT ![s] = local[s]] ELSE stage
  /\ Then(AfterPush(s))
  /\ UNCHANGED <<vars, local, good, checked>>

\* pushFile: the file is read whole, then written over the one staged before.
pushFile(s) ==
  /\ Pushing(s)
  /\ local[s] # "none"
  /\ stage' = [stage EXCEPT ![s] = local[s]]
  /\ Then(AfterPush(s))
  /\ UNCHANGED <<vars, local, good, checked>>

\* The file is missing, or ssh fails before, while or after `cat` writes.
pushFileFails(s) ==
  /\ Pushing(s)
  /\ \/ local[s] = "none" /\ UNCHANGED stage
     \/ /\ local[s] # "none" /\ Faults
        /\ \E left \in {stage[s], "torn", local[s]} :
             stage' = [stage EXCEPT ![s] = left]
  /\ Finish("failed")
  /\ UNCHANGED <<vars, local>>

\* Slip: a deploy goes on to the flash as well.
AfterLoadAlways(s) == IF s = "chelper" THEN "load hostElf" ELSE "flash"

AfterLoad(s) ==
  IF s = "chelper" THEN "load hostElf"
  ELSE IF command = "rollout" THEN "flash" ELSE "idle"

\* ctypes.CDLL in the printer's Python, `ld.so --verify`; each prints a word on
\* success and deployCmd looks for it.  A torn file does not load.
\* Slip: the answer is not looked at.
LoadUnread(s) ==
  /\ Loading(s)
  /\ IF AfterLoad(s) = "idle" THEN Finish("ok")
     ELSE Then(AfterLoad(s)) /\ UNCHANGED <<good, checked>>
  /\ UNCHANGED <<vars, local, stage>>

Load(s) ==
  /\ Loading(s)
  /\ stage[s] \in Loads[s]
  /\ IF AfterLoad(s) = "idle" THEN Finish("ok")
     ELSE Then(AfterLoad(s)) /\ UNCHANGED <<good, checked>>
  /\ UNCHANGED <<vars, local, stage>>

LoadRefused(s) ==
  /\ Loading(s)
  /\ stage[s] \notin Loads[s]
  /\ Finish("failed")
  /\ UNCHANGED <<vars, local, stage>>

\* mkdir, chmod or a probe fails for want of a connection; Ctrl-C.
Interrupted ==
  /\ Faults
  /\ step \notin {"idle", "flash", "flashing"}
  /\ Finish("failed")
  /\ UNCHANGED <<vars, local, stage>>

-----------------------------------------------------------------------------
(* rolloutCmd, step 3: flashCmd(@["all"]).                                  *)

\* Slip: `flash all` without its backup.
CallFlashUnbacked ==
  /\ step = "flash"
  /\ Start("all") /\ pc' = "confirm" /\ out' = DefaultBackup /\ img' = "katapult"
  /\ Then("flashing")
  /\ UNCHANGED <<good, checked, local, stage>>

CallFlash ==
  /\ step = "flash"
  /\ FlashAll
  /\ Then("flashing")
  /\ UNCHANGED <<good, checked, local, stage>>

\* Slip: however flashCmd ended, the rollout is done.
FlashReturnsAnyhow ==
  /\ step = "flashing"
  /\ pc = "idle"
  /\ Finish("ok")
  /\ UNCHANGED <<vars, local, stage>>

\* It returns, or what it raised passes through.
FlashReturns ==
  /\ step = "flashing"
  /\ pc = "idle"
  /\ Finish(exit)
  /\ UNCHANGED <<vars, local, stage>>

\* The steps of flashCmd.
FlashStep ==
  /\ pc # "idle"
  /\ \/ DumpSucceeds \/ DumpEmpty \/ DumpFails
     \/ ConfirmYes \/ ConfirmNo
     \/ EraseAll \/ EraseFails
     \/ ReadImage \/ ReadImageFails
     \/ WriteImage \/ WriteFails
     \/ ReadBackOk \/ ReadBackFails
     \/ Killed
  /\ UNCHANGED <<cli, local, stage>>

-----------------------------------------------------------------------------
(* What else happens.                                                       *)

\* `v3ke flash` by itself, or the rollback by hand.
FlashAlone ==
  /\ Given
  /\ FlashBackup \/ BackupRefused \/ FlashAll \/ (\E i \in Image : FlashImage(i)) \/ RestoreStock
  /\ command' = "none" /\ result' = "none"
  /\ UNCHANGED <<step, good, checked, local, stage>>

ReplaceFirmware ==
  /\ \E i \in Image : ReplaceImage(i)
  /\ UNCHANGED <<cli, local, stage>>

ReplaceHostArtifact(s) ==
  /\ \E b \in (HostBuilds[s] \cup {"none"}) \ {local[s]} :
       local' = [local EXCEPT ![s] = b]
  /\ UNCHANGED <<vars, stage, cli>>

RolloutNext ==
  \/ StartVerify \/ StartDeploy \/ StartRollout
  \/ \E s \in Slot : \/ checkMips(s) \/ checkMipsRaises(s)
                     \/ pushFile(s) \/ pushFileFails(s)
                     \/ Load(s) \/ LoadRefused(s)
                     \/ ReplaceHostArtifact(s)
  \/ Verdict \/ Interrupted
  \/ CallFlash \/ FlashStep \/ FlashReturns
  \/ FlashAlone \/ ReplaceFirmware

RolloutSpec == RolloutInit /\ [][RolloutNext]_everything

-----------------------------------------------------------------------------
(* Properties.                                                              *)

\* The gate before the point of no return: while a rollout flashes, what lies
\* in the staging directory is what the printer has loaded.
FlashesBehindTheGate ==
  step \in {"flash", "flashing"} => \A s \in Slot : stage[s] \in Loads[s]

\* "artifacts verified + deployed, MCU flashed": until something else is done,
\* a rollout that reported success has left host artifacts the printer loads
\* and an MCU that holds the images that were read, and nothing else.
RolloutIsWhole ==
  command = "rollout" /\ result = "ok" =>
    /\ \A s \in Slot : stage[s] \in Loads[s]
    /\ \E ka \in KatapultBuilds, kl \in KlipperBuilds : chip = Layout(ka, kl)
    /\ cmd = "all" /\ \A i \in Image : Holds(i, want[i])

\* As this command read it, artifact s passed the ABI check.
Passed(s) == checked[s] # "none" /\ NimVerdict(Elf[checked[s]], KindOf(s)) = "ok"

\* "aborting before any change": a rollout touches the printer only when both
\* artifacts, as they were when it read them, passed the ABI check.  (What it
\* then pushes it reads anew.)
VerifiesBeforeItStages ==
  [][command = "rollout" /\ stage' # stage => \A s \in Slot : Passed(s)]_everything

\* verify and deploy each read the artifacts, and so a build in between slips
\* past the check.  That is all that can: if none replaces a file that a running
\* command has verified, a rollout flashes beside the very files it verified.
LeftAlone ==
  \A s \in Slot : step # "idle" /\ checked[s] # "none" => local[s] = checked[s]

FlashesWhatItVerified ==
  []LeftAlone =>
    [](step \in {"flash", "flashing"} =>
         \A s \in Slot : Passed(s) /\ stage[s] = checked[s])

\* What verify says of an artifact is what the build's own checker says of
\* it: an operator never meets one that the build called good and verify does
\* not, nor the other way round.
VerifyAgreesWithBuild ==
  [][\A s \in Slot : local[s] # "none" =>
       LET py == PyVerdict(Elf[local[s]], KindOf(s))
       IN  /\ checkMips(s) => py # "malformed" /\ good' = (good /\ py = "ok")
           /\ checkMipsRaises(s) => py = "malformed"]_everything

\* The point of no return lies behind all three gates.  Whenever a rollout
\* changes the MCU, it has checked both host artifacts, the printer has loaded
\* what is staged, and the default backup file holds a dump of the MCU as the
\* flash found it.
PointOfNoReturn ==
  [][step = "flashing" /\ chip' # chip =>
       /\ \A s \in Slot : Passed(s) /\ stage[s] \in Loads[s]
       /\ cmd = "all" /\ backup[DefaultBackup] \in Dumps(snap)]_everything
=============================================================================
