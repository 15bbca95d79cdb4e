---------------------------- MODULE RolloutProofs ----------------------------
(***************************************************************************)
(* Proofs about Rollout.  The module runs FlashMcu's actions, so what      *)
(* FlashMcuProofs shows of every flash holds here (IsFlash); what is       *)
(* proved anew is the order of the gates, and that no flash of a rollout   *)
(* changes the MCU before all of them (PointOfNoReturn).                   *)
(***************************************************************************)
EXTENDS Rollout, FlashMcuProofs, AbiCheckProofs

-----------------------------------------------------------------------------
(* FlashMcu is implemented.                                                 *)

\* A step of FlashMcu or none: every action either runs one of FlashMcu's or
\* leaves its variables alone.
LEMMA FlashOrNothing ==
  ASSUME [RolloutNext]_everything
  PROVE  [Next]_vars
<1>1. ASSUME UNCHANGED everything PROVE UNCHANGED vars
  BY <1>1 DEF everything
<1>2. ASSUME CallFlash PROVE Next
  BY <1>2 DEF CallFlash, Next
<1>3. ASSUME FlashStep PROVE Next
  BY <1>3 DEF FlashStep, Next
<1>4. ASSUME FlashAlone PROVE Next
  BY <1>4 DEF FlashAlone, Next
<1>5. ASSUME ReplaceFirmware PROVE Next
  BY <1>5 DEF ReplaceFirmware, Next
<1>6. ASSUME StartVerify \/ StartDeploy \/ StartRollout PROVE UNCHANGED vars
  BY <1>6 DEF StartVerify, StartDeploy, StartRollout, Call
<1>7. ASSUME NEW s \in Slot,
             \/ checkMips(s) \/ checkMipsRaises(s)
             \/ pushFile(s) \/ pushFileFails(s)
             \/ Load(s) \/ LoadRefused(s)
             \/ ReplaceHostArtifact(s)
      PROVE  UNCHANGED vars
  BY <1>7 DEF checkMips, checkMipsRaises, pushFile, pushFileFails, Load,
              LoadRefused, ReplaceHostArtifact
<1>8. ASSUME Verdict \/ Interrupted \/ FlashReturns PROVE UNCHANGED vars
  BY <1>8 DEF Verdict, Interrupted, FlashReturns
<1> QED
  BY <1>1, <1>2, <1>3, <1>4, <1>5, <1>6, <1>7, <1>8 DEF RolloutNext

\* So what FlashMcuProofs shows of FlashMcu holds here.
LEMMA IsFlash == RolloutSpec => Spec
<1>1. RolloutInit => Init
  BY DEF RolloutInit
<1> QED
  BY <1>1, FlashOrNothing, PTL DEF RolloutSpec, Spec

\* All that `v3ke flash` promises, the flash in a rollout promises: the erase
\* has its dump, a declined prompt changes nothing, a dump of what was found is
\* kept, and neither image damages the other's region.
THEOREM RolloutFlashesSafely ==
  RolloutSpec =>
    /\ [](EraseNeedsDump /\ AbortLeavesChip /\ RollbackStaysPossible)
    /\ OtherRegionKept
BY IsFlash, DumpBeforeErase, AbortIsHarmless, RollbackKept, RegionsAreKept, PTL

-----------------------------------------------------------------------------
(* Types.                                                                   *)

CliTypeOK ==
  /\ local \in Contents({"none"})
  /\ stage \in Contents({"none", "torn"})
  /\ command \in {"none", "verify", "deploy", "rollout"}
  /\ step \in Steps
  /\ step \in {"flash", "flashing"} => command = "rollout"
  /\ good \in BOOLEAN
  /\ result \in {"none", "ok", "failed", "aborted"}
  /\ checked \in Contents({"none"})
  /\ calls \in 0 .. MaxCalls

\* Replacing one content by another of the same artifact.
LEMMA ContentsExcept ==
  ASSUME NEW others, NEW c \in Contents(others), NEW s \in Slot,
         NEW b \in HostBuilds[s] \cup others
  PROVE  [c EXCEPT ![s] = b] \in Contents(others)
<1> DEFINE All == (UNION {HostBuilds[t] : t \in Slot}) \cup others
           d == [c EXCEPT ![s] = b]
<1>1. c \in [Slot -> All] /\ \A t \in Slot : c[t] \in HostBuilds[t] \cup others
  BY DEF Contents
<1>2. b \in All
  OBVIOUS
<1>3. d \in [Slot -> All]
  <2> HIDE DEF All
  <2> QED
    BY <1>1, <1>2
<1>4. \A t \in Slot : d[t] \in HostBuilds[t] \cup others
  BY <1>1
<1> QED
  BY <1>3, <1>4 DEF Contents

LEMMA OneMore ==
  ASSUME NEW n \in Nat, NEW k \in 0 .. n, k < n
  PROVE  k + 1 \in 0 .. n
OBVIOUS

LEMMA UncheckedType == Unchecked \in Contents({"none"})
<1>1. /\ Unchecked \in [Slot -> (UNION {HostBuilds[t] : t \in Slot}) \cup {"none"}]
      /\ \A t \in Slot : Unchecked[t] \in HostBuilds[t] \cup {"none"}
  BY DEF Unchecked
<1> QED
  BY <1>1 DEF Contents

LEMMA FinishType ==
  ASSUME CliTypeOK, NEW code \in {"none", "ok", "failed", "aborted"}, Finish(code),
         UNCHANGED local, stage' \in Contents({"none", "torn"})
  PROVE  CliTypeOK'
BY UncheckedType DEF CliTypeOK, Finish, Steps

LEMMA CliTypeStep ==
  ASSUME CliTypeOK, TypeOK, [RolloutNext]_everything
  PROVE  CliTypeOK'
<1> USE DEF CliTypeOK
<1>1. CASE UNCHANGED everything
  BY <1>1 DEF everything, cli
<1>2. ASSUME NEW c \in {"verify", "deploy", "rollout"},
             NEW first \in {"verify chelper", "push chelper"}, Call(c, first)
      PROVE  CliTypeOK'
  <2>1. calls' \in 0 .. MaxCalls
    <3>1. calls < MaxCalls /\ calls' = calls + 1
      BY <1>2 DEF Call, Given
    <3>2. MaxCalls \in Nat
      BY RolloutConstants
    <3>3. calls \in 0 .. MaxCalls
      BY DEF CliTypeOK
    <3> QED
      BY <3>1, <3>2, <3>3, OneMore
  <2>2. checked' \in Contents({"none"})
    BY <1>2, UncheckedType DEF Call
  <2> QED
    BY <1>2, <2>1, <2>2 DEF Call, Steps
<1>3. ASSUME NEW s \in Slot, checkMips(s)
      PROVE  CliTypeOK'
  <2>1. local[s] \in HostBuilds[s] \cup {"none"}
    BY DEF Contents
  <2>2. checked' \in Contents({"none"})
    BY <1>3, <2>1, ContentsExcept DEF checkMips
  <2>3. good' \in BOOLEAN
    BY <1>3 DEF checkMips
  <2> QED
    BY <1>3, <2>2, <2>3 DEF checkMips, Then, AfterCheck, Steps
<1>4. ASSUME NEW s \in Slot, pushFile(s)
      PROVE  CliTypeOK'
  <2>1. local[s] \in HostBuilds[s] \cup {"none", "torn"}
    BY DEF Contents
  <2>2. stage' \in Contents({"none", "torn"})
    BY <1>4, <2>1, ContentsExcept DEF pushFile
  <2> QED
    BY <1>4, <2>2 DEF pushFile, Then, AfterPush, Steps
<1>5. ASSUME NEW s \in Slot, pushFileFails(s)
      PROVE  CliTypeOK'
  <2>1. /\ local[s] \in HostBuilds[s] \cup {"none", "torn"}
        /\ stage[s] \in HostBuilds[s] \cup {"none", "torn"}
    BY <1>5 DEF Contents
  <2>2. stage' \in Contents({"none", "torn"})
    BY <1>5, <2>1, ContentsExcept DEF pushFileFails
  <2> QED
    BY <1>5, <2>2, FinishType DEF pushFileFails
<1>6. ASSUME NEW s \in Slot, Load(s)
      PROVE  CliTypeOK'
  <2>1. CASE AfterLoad(s) = "idle"
    BY <1>6, <2>1, FinishType DEF Load
  <2>2. CASE AfterLoad(s) # "idle"
    BY <1>6, <2>2 DEF Load, Then, AfterLoad, Steps
  <2> QED
    BY <2>1, <2>2
<1>7. ASSUME NEW s \in Slot, checkMipsRaises(s) \/ LoadRefused(s)
      PROVE  CliTypeOK'
  BY <1>7, FinishType DEF checkMipsRaises, LoadRefused
<1>8. ASSUME NEW s \in Slot, ReplaceHostArtifact(s)
      PROVE  CliTypeOK'
  <2>1. PICK b \in HostBuilds[s] \cup {"none"} : local' = [local EXCEPT ![s] = b]
    BY <1>8 DEF ReplaceHostArtifact
  <2>2. local' \in Contents({"none"})
    BY <2>1, ContentsExcept
  <2> QED
    BY <1>8, <2>2 DEF ReplaceHostArtifact, cli
<1>9. CASE Verdict
  <2>1. CASE ~ good
    BY <1>9, <2>1, FinishType DEF Verdict
  <2>2. CASE good /\ command = "verify"
    BY <1>9, <2>2, FinishType DEF Verdict
  <2>3. CASE good /\ command # "verify"
    BY <1>9, <2>3 DEF Verdict, Then, Steps
  <2> QED
    BY <2>1, <2>2, <2>3
<1>10. CASE Interrupted
  BY <1>10, FinishType DEF Interrupted
<1>11. CASE CallFlash
  BY <1>11 DEF CallFlash, Then, Steps
<1>12. CASE FlashStep \/ ReplaceFirmware
  BY <1>12 DEF FlashStep, ReplaceFirmware, cli
<1>13. CASE FlashAlone
  BY <1>13, RolloutConstants DEF FlashAlone, Given
<1>14. CASE FlashReturns
  <2>1. exit \in {"none", "ok", "failed", "aborted"}
    BY DEF TypeOK
  <2> QED
    BY <1>14, <2>1, FinishType DEF FlashReturns
<1> QED
  BY <1>1, <1>2, <1>3, <1>4, <1>5, <1>6, <1>7, <1>8, <1>9, <1>10, <1>11, <1>12,
     <1>13, <1>14 DEF RolloutNext, StartVerify, StartDeploy, StartRollout

\* Every reachable state of verify, deploy, rollout and flash together is well
\* typed.
THEOREM RolloutTypeCorrect == RolloutSpec => []RolloutTypeOK
<1>1. RolloutInit => CliTypeOK
  BY UncheckedType, RolloutConstants
     DEF RolloutInit, CliTypeOK, Contents, Steps, Slot
<1>2. CliTypeOK /\ TypeOK /\ [RolloutNext]_everything => CliTypeOK'
  BY CliTypeStep
<1>3. RolloutSpec => []TypeOK
  BY IsFlash, TypeCorrect
<1>4. CliTypeOK /\ TypeOK => RolloutTypeOK
  BY DEF CliTypeOK, RolloutTypeOK
<1> QED
  BY <1>1, <1>2, <1>3, <1>4, PTL DEF RolloutSpec

-----------------------------------------------------------------------------
(* The gates.                                                               *)

\* What the printer has loaded by the time a command is at a step.
Loaded ==
  /\ step \in {"load hostElf", "flash", "flashing"} => stage["chelper"] \in Loads["chelper"]
  /\ step \in {"flash", "flashing"} => stage["hostElf"] \in Loads["hostElf"]

LEMMA LoadedStep ==
  ASSUME Loaded, [RolloutNext]_everything
  PROVE  Loaded'
<1> USE DEF Loaded
<1>1. CASE UNCHANGED everything
  BY <1>1 DEF everything, cli
<1>2. CASE StartVerify \/ StartDeploy \/ StartRollout
  BY <1>2 DEF StartVerify, StartDeploy, StartRollout, Call
<1>3. ASSUME NEW s \in Slot, checkMips(s) \/ checkMipsRaises(s)
      PROVE  Loaded'
  BY <1>3 DEF checkMips, checkMipsRaises, Then, AfterCheck, Finish
<1>4. ASSUME NEW s \in Slot, pushFile(s) \/ pushFileFails(s)
      PROVE  Loaded'
  BY <1>4 DEF pushFile, pushFileFails, Then, AfterPush, Finish
<1>5. ASSUME NEW s \in Slot, Load(s)
      PROVE  Loaded'
  BY <1>5 DEF Load, Loading, Then, AfterLoad, Finish, Slot
<1>6. ASSUME NEW s \in Slot, LoadRefused(s) \/ ReplaceHostArtifact(s)
      PROVE  Loaded'
  BY <1>6 DEF LoadRefused, ReplaceHostArtifact, Finish, cli
<1>7. CASE Verdict \/ Interrupted \/ FlashReturns
  BY <1>7 DEF Verdict, Interrupted, FlashReturns, Finish, Then
<1>8. CASE CallFlash \/ FlashStep \/ FlashAlone \/ ReplaceFirmware
  BY <1>8 DEF CallFlash, FlashStep, FlashAlone, ReplaceFirmware, Then, cli
<1> QED
  BY <1>1, <1>2, <1>3, <1>4, <1>5, <1>6, <1>7, <1>8 DEF RolloutNext

\* A rollout flashes the MCU only while the staging directory holds the very
\* files the printer has loaded, whatever is rebuilt meanwhile.
THEOREM GateBeforeFlash == RolloutSpec => []FlashesBehindTheGate
<1>1. RolloutInit => Loaded
  BY DEF RolloutInit, Loaded
<1>2. Loaded => FlashesBehindTheGate
  BY DEF Loaded, FlashesBehindTheGate, Slot
<1> QED
  BY <1>1, <1>2, LoadedStep, PTL DEF RolloutSpec

\* What a clean verdict so far, or being past it, says of the files checked.
Verified ==
  /\ step = "verify hostElf" /\ good => Passed("chelper")
  /\ step = "verdict" /\ good => \A s \in Slot : Passed(s)
  /\ command = "rollout" /\ step \in {"push chelper", "push hostElf", "load chelper",
                                     "load hostElf", "flash", "flashing"} =>
        \A s \in Slot : Passed(s)

LEMMA VerifiedStep ==
  ASSUME Verified, CliTypeOK, [RolloutNext]_everything
  PROVE  Verified'
<1> USE DEF Verified, Passed
<1>1. CASE UNCHANGED everything
  BY <1>1 DEF everything, cli
<1>2. CASE StartVerify \/ StartDeploy \/ StartRollout
  BY <1>2 DEF StartVerify, StartDeploy, StartRollout, Call
<1>3. ASSUME NEW s \in Slot, checkMips(s)
      PROVE  Verified'
  <2>1. PassesVerify(s) => /\ local[s] # "none"
                           /\ NimVerdict(Elf[local[s]], KindOf(s)) = "ok"
    BY DEF PassesVerify, ElfIs
  <2>2. checked' = [checked EXCEPT ![s] = local[s]] /\ DOMAIN checked = Slot
    BY <1>3 DEF checkMips, CliTypeOK, Contents
  <2>3. good' => good /\ Passed(s)'
    BY <1>3, <2>1, <2>2 DEF checkMips
  <2>4. \A t \in Slot : t # s /\ Passed(t) => Passed(t)'
    BY <2>2
  <2>5. CASE s = "chelper"
    BY <1>3, <2>3, <2>5 DEF checkMips, Then, AfterCheck, Verifying
  <2>6. CASE s = "hostElf"
    <3>1. step = "verify hostElf" /\ step' = "verdict"
      BY <1>3, <2>6 DEF checkMips, Then, AfterCheck, Verifying
    <3>2. good' => Passed("chelper")' /\ Passed("hostElf")'
      BY <3>1, <2>3, <2>4, <2>6 DEF Slot
    <3> QED
      BY <3>1, <3>2 DEF Slot
  <2> QED
    BY <2>5, <2>6 DEF Slot
<1>4. ASSUME NEW s \in Slot, checkMipsRaises(s) \/ pushFileFails(s) \/ LoadRefused(s)
      PROVE  Verified'
  BY <1>4 DEF checkMipsRaises, pushFileFails, LoadRefused, Finish
<1>5. ASSUME NEW s \in Slot, pushFile(s)
      PROVE  Verified'
  BY <1>5 DEF pushFile, Pushing, Then, AfterPush
<1>6. ASSUME NEW s \in Slot, Load(s)
      PROVE  Verified'
  BY <1>6 DEF Load, Loading, Slot, Then, AfterLoad, Finish
<1>7. ASSUME NEW s \in Slot, ReplaceHostArtifact(s)
      PROVE  Verified'
  BY <1>7 DEF ReplaceHostArtifact, cli
<1>8. CASE Verdict
  BY <1>8 DEF Verdict, Finish, Then
<1>9. CASE Interrupted \/ FlashReturns
  BY <1>9 DEF Interrupted, FlashReturns, Finish
<1>10. CASE CallFlash
  BY <1>10 DEF CallFlash, Then
<1>11. CASE FlashStep \/ ReplaceFirmware
  <2>1. UNCHANGED <<command, step, good, checked>>
    BY <1>11 DEF FlashStep, ReplaceFirmware, cli
  <2> QED
    BY <2>1
<1>12. CASE FlashAlone
  BY <1>12 DEF FlashAlone, Given
<1> QED
  BY <1>1, <1>2, <1>3, <1>4, <1>5, <1>6, <1>7, <1>8, <1>9, <1>10, <1>11, <1>12
     DEF RolloutNext

LEMMA Verifies == RolloutSpec => [](Verified /\ RolloutTypeOK)
<1>1. RolloutInit => Verified
  BY DEF RolloutInit, Verified
<1>2. Verified /\ RolloutTypeOK /\ [RolloutNext]_everything => Verified'
  BY VerifiedStep DEF CliTypeOK, RolloutTypeOK
<1> QED
  BY <1>1, <1>2, RolloutTypeCorrect, PTL DEF RolloutSpec

StagesVerified ==
  command = "rollout" /\ stage' # stage => \A s \in Slot : Passed(s)

LEMMA StagesVerifiedStep == Verified /\ [RolloutNext]_everything => [StagesVerified]_everything
<1> SUFFICES ASSUME Verified, RolloutNext, stage' # stage, command = "rollout"
             PROVE  \A s \in Slot : Passed(s)
  BY DEF StagesVerified, everything
<1>1. PICK s \in Slot : pushFile(s) \/ pushFileFails(s)
  BY DEF RolloutNext, StartVerify, StartDeploy,
     StartRollout, Call, checkMips, checkMipsRaises, Load, LoadRefused,
     ReplaceHostArtifact, Verdict, Interrupted, CallFlash, FlashStep,
     FlashReturns, FlashAlone, ReplaceFirmware
<1>2. step \in {"push chelper", "push hostElf"}
  BY <1>1 DEF pushFile, pushFileFails, Pushing
<1> QED
  BY <1>2 DEF Verified

\* A rollout changes nothing on the printer unless both artifacts, as it read
\* them, passed the ABI check.
THEOREM VerifiedFirst == RolloutSpec => VerifiesBeforeItStages
<1>1. VerifiesBeforeItStages <=> [][StagesVerified]_everything
  BY DEF VerifiesBeforeItStages, StagesVerified
<1> QED
  BY <1>1, StagesVerifiedStep, Verifies, PTL DEF RolloutSpec

-----------------------------------------------------------------------------
(* What is verified is what is staged, while nothing replaces it.           *)

Staged == {"push hostElf", "load chelper", "load hostElf", "flash", "flashing"}

\* What a rollout that deploys or flashes has verified and staged.
Carried ==
  command = "rollout" =>
    /\ step \in Staged \cup {"push chelper"} => \A s \in Slot : Passed(s)
    /\ step \in Staged => stage["chelper"] = checked["chelper"]
    /\ step \in Staged \ {"push hostElf"} => stage["hostElf"] = checked["hostElf"]

LEMMA CarriedStep ==
  ASSUME Carried, LeftAlone, Verified, RolloutTypeOK, [RolloutNext]_everything
  PROVE  Carried'
<1> USE DEF Carried, Passed, Staged
<1>1. CASE UNCHANGED everything
  BY <1>1 DEF everything, cli
<1>2. CASE StartVerify \/ StartDeploy \/ StartRollout
  BY <1>2 DEF StartVerify, StartDeploy, StartRollout, Call
<1>3. ASSUME NEW s \in Slot, checkMips(s)
      PROVE  Carried'
  BY <1>3 DEF checkMips, Then, AfterCheck
<1>4. ASSUME NEW s \in Slot, checkMipsRaises(s) \/ pushFileFails(s) \/ LoadRefused(s)
      PROVE  Carried'
  BY <1>4 DEF checkMipsRaises, pushFileFails, LoadRefused, Finish
<1>5. ASSUME NEW s \in Slot, pushFile(s)
      PROVE  Carried'
  <2> SUFFICES ASSUME command = "rollout" PROVE Carried'
    BY <1>5 DEF pushFile, Then
  <2>1. /\ step = IF s = "chelper" THEN "push chelper" ELSE "push hostElf"
        /\ step' = IF s = "chelper" THEN "push hostElf" ELSE "load chelper"
        /\ UNCHANGED <<command, checked>>
    BY <1>5 DEF pushFile, Pushing, Then, AfterPush
  <2>2. stage' = [stage EXCEPT ![s] = local[s]] /\ DOMAIN stage = Slot
    BY <1>5 DEF pushFile, RolloutTypeOK, Contents
  <2>3. \A t \in Slot : Passed(t)
    BY <2>1
  <2>4. local[s] = checked[s]
    BY <2>1, <2>3 DEF LeftAlone
  <2> QED
    BY <2>1, <2>2, <2>3, <2>4 DEF Slot
<1>6. ASSUME NEW s \in Slot, Load(s)
      PROVE  Carried'
  BY <1>6 DEF Load, Loading, Then, AfterLoad, Finish
<1>7. ASSUME NEW s \in Slot, ReplaceHostArtifact(s)
      PROVE  Carried'
  BY <1>7 DEF ReplaceHostArtifact, cli
<1>8. CASE Verdict
  BY <1>8 DEF Verdict, Finish, Then, Verified
<1>9. CASE Interrupted \/ FlashReturns
  BY <1>9 DEF Interrupted, FlashReturns, Finish
<1>10. CASE CallFlash
  BY <1>10 DEF CallFlash, Then
<1>11. CASE FlashStep \/ ReplaceFirmware
  <2>1. UNCHANGED <<command, step, checked, stage>>
    BY <1>11 DEF FlashStep, ReplaceFirmware, cli
  <2> QED
    BY <2>1
<1>12. CASE FlashAlone
  BY <1>12 DEF FlashAlone, Given
<1> QED
  BY <1>1, <1>2, <1>3, <1>4, <1>5, <1>6, <1>7, <1>8, <1>9, <1>10, <1>11, <1>12
     DEF RolloutNext

\* Only a build that replaces a verified file under the running command comes
\* between the check and the flash.
THEOREM FlashesVerified == RolloutSpec => FlashesWhatItVerified
<1>1. RolloutInit => Carried
  BY DEF RolloutInit, Carried
<1>2. Carried /\ LeftAlone /\ Verified /\ RolloutTypeOK /\ [RolloutNext]_everything
        => Carried'
  BY CarriedStep
<1>3. Carried /\ RolloutTypeOK =>
        (step \in {"flash", "flashing"} =>
           \A s \in Slot : Passed(s) /\ stage[s] = checked[s])
  BY DEF Carried, Staged, RolloutTypeOK, Slot
<1> QED
  BY <1>1, <1>2, <1>3, Verifies, PTL DEF RolloutSpec, FlashesWhatItVerified

-----------------------------------------------------------------------------
(* The two checkers.                                                        *)

\* verify tells an operator what the build's checker told the builder, if every
\* file is of the usual layout.
THEOREM VerifyAgrees ==
  ASSUME \A s \in Slot : \A b \in HostBuilds[s] : Conventional(Elf[b])
  PROVE  RolloutSpec => VerifyAgreesWithBuild
<1> DEFINE Agrees(s) ==
  local[s] # "none" =>
    LET py == PyVerdict(Elf[local[s]], KindOf(s))
    IN  /\ checkMips(s) => py # "malformed" /\ good' = (good /\ py = "ok")
        /\ checkMipsRaises(s) => py = "malformed"
<1>1. ASSUME RolloutTypeOK, NEW s \in Slot
      PROVE  Agrees(s)
  <2>1. SUFFICES ASSUME local[s] # "none" PROVE Agrees(s)
    OBVIOUS
  <2>2. local[s] \in HostBuilds[s]
    BY <1>1, <2>1 DEF RolloutTypeOK, Contents
  <2>3. Elf[local[s]] \in File /\ Conventional(Elf[local[s]])
    BY <2>2, RolloutConstants
  <2>4. KindOf(s) \in Kind
    BY DEF KindOf, Kind
  <2>5. NimVerdict(Elf[local[s]], KindOf(s)) = PyVerdict(Elf[local[s]], KindOf(s))
    BY <2>3, <2>4, VerdictsAgree
  <2> QED
    BY <2>1, <2>5 DEF checkMips, checkMipsRaises, RaisesVerify, PassesVerify, ElfIs
<1>2. RolloutTypeOK => [\A s \in Slot : Agrees(s)]_everything
  BY <1>1
<1> QED
  BY <1>2, RolloutTypeCorrect, PTL DEF VerifyAgreesWithBuild

-----------------------------------------------------------------------------
(* A successful rollout.                                                    *)

Whole ==
  /\ \A s \in Slot : stage[s] \in Loads[s]
  /\ cmd = "all" /\ \A i \in Image : Holds(i, want[i])
  /\ \E ka \in KatapultBuilds, kl \in KlipperBuilds : chip = Layout(ka, kl)

\* The MCU is only flashed by a rollout that is at that step, as `flash all`,
\* or by itself; and no verdict is out before the last step.
Nested ==
  /\ pc # "idle" => step = "flashing" \/ (step = "idle" /\ command = "none")
  /\ step = "flashing" => cmd = "all"
  /\ step # "idle" => result = "none"
  /\ command = "rollout" /\ result = "ok" => Whole

LEMMA FlashKeepsCommand ==
  ASSUME FlashStep
  PROVE  pc # "idle" /\ cmd' = cmd
BY DEF FlashStep, DumpSucceeds, DumpEmpty, DumpFails, ConfirmYes, ConfirmNo,
       EraseAll, EraseFails, ReadImage, ReadImageFails, WriteImage, WriteFails,
       ReadBackOk, ReadBackFails, Killed, End, Goto

LEMMA WholeKept ==
  ASSUME Whole, UNCHANGED <<stage, cmd, want, chip>>
  PROVE  Whole'
BY DEF Whole, Holds, Region, Written, Layout

LEMMA NestedStep ==
  ASSUME Nested, Loaded, SuccessMeansFlashed, [RolloutNext]_everything
  PROVE  Nested'
<1> USE DEF Nested
<1>1. CASE UNCHANGED everything
  BY <1>1, WholeKept DEF everything, cli, vars
<1>2. CASE StartVerify \/ StartDeploy \/ StartRollout
  BY <1>2 DEF StartVerify, StartDeploy, StartRollout, Call, Given, vars
<1>3. ASSUME NEW s \in Slot, checkMips(s)
      PROVE  Nested'
  <2>1. pc = "idle" /\ result = "none" /\ step' # "flashing"
    BY <1>3 DEF checkMips, Verifying, Then, AfterCheck
  <2> QED
    BY <1>3, <2>1 DEF checkMips, Then, vars
<1>4. ASSUME NEW s \in Slot, pushFile(s)
      PROVE  Nested'
  <2>1. pc = "idle" /\ result = "none" /\ step' # "flashing"
    BY <1>4 DEF pushFile, Pushing, Then, AfterPush
  <2> QED
    BY <1>4, <2>1 DEF pushFile, Then, vars
<1>5. ASSUME NEW s \in Slot, Load(s)
      PROVE  Nested'
  <2>1. pc = "idle" /\ result = "none"
    BY <1>5 DEF Load, Loading
  <2>2. CASE AfterLoad(s) = "idle"
    BY <1>5, <2>1, <2>2 DEF Load, AfterLoad, Finish, vars
  <2>3. CASE AfterLoad(s) # "idle"
    BY <1>5, <2>1, <2>3 DEF Load, AfterLoad, Then, vars
  <2> QED
    BY <2>2, <2>3
<1>6. ASSUME NEW s \in Slot, checkMipsRaises(s) \/ pushFileFails(s) \/ LoadRefused(s)
      PROVE  Nested'
  <2>1. step \notin {"idle", "flashing"} /\ pc = "idle"
    BY <1>6 DEF checkMipsRaises, pushFileFails, LoadRefused, Verifying, Pushing, Loading
  <2> QED
    BY <1>6, <2>1 DEF checkMipsRaises, pushFileFails, LoadRefused, Finish, vars
<1>7. ASSUME NEW s \in Slot, ReplaceHostArtifact(s)
      PROVE  Nested'
  BY <1>7, WholeKept DEF ReplaceHostArtifact, cli, vars
<1>8. CASE Verdict
  <2>1. pc = "idle" /\ result = "none"
    BY <1>8 DEF Verdict
  <2>2. CASE good /\ command # "verify"
    BY <1>8, <2>1, <2>2 DEF Verdict, Then, vars
  <2>3. CASE ~ (good /\ command # "verify")
    BY <1>8, <2>1, <2>3 DEF Verdict, Finish, vars
  <2> QED
    BY <2>2, <2>3
<1>9. CASE Interrupted
  BY <1>9 DEF Interrupted, Finish, vars
<1>10. CASE CallFlash
  BY <1>10 DEF CallFlash, FlashAll, Start, Then
<1>11. CASE FlashStep
  BY <1>11, FlashKeepsCommand DEF FlashStep, cli
<1>12. CASE FlashReturns
  <2>1. exit = "ok" => Whole
    BY <1>12 DEF FlashReturns, Loaded, Slot, SuccessMeansFlashed, Whole
  <2> QED
    BY <1>12, <2>1, WholeKept DEF FlashReturns, Finish, vars
<1>13. CASE FlashAlone
  BY <1>13 DEF FlashAlone, Given
<1>14. CASE ReplaceFirmware
  BY <1>14, WholeKept DEF ReplaceFirmware, ReplaceImage, cli, proc
<1> QED
  BY <1>1, <1>2, <1>3, <1>4, <1>5, <1>6, <1>7, <1>8, <1>9, <1>10, <1>11, <1>12,
     <1>13, <1>14 DEF RolloutNext

\* A rollout that reports success has left host artifacts the printer loads
\* and an MCU that holds the images it read, and nothing else.
THEOREM RolloutWhole == RolloutSpec => []RolloutIsWhole
<1>1. RolloutInit => Nested /\ Loaded
  BY DEF RolloutInit, Init, Nested, Loaded
<1>2. RolloutSpec => []SuccessMeansFlashed
  BY IsFlash, FlashedOnSuccess
<1>3. Nested => RolloutIsWhole
  BY DEF Nested, Whole, RolloutIsWhole
<1> QED
  BY <1>1, <1>2, <1>3, NestedStep, LoadedStep, PTL DEF RolloutSpec

-----------------------------------------------------------------------------
(* The point of no return.                                                  *)

\* What every step of a rollout's flash may rely on.
Gates ==
  step = "flashing" =>
    /\ cmd = "all"
    /\ \A s \in Slot : Passed(s) /\ stage[s] \in Loads[s]

NoReturn ==
  step = "flashing" /\ chip' # chip =>
    /\ \A s \in Slot : Passed(s) /\ stage[s] \in Loads[s]
    /\ cmd = "all" /\ backup[DefaultBackup] \in Dumps(snap)

LEMMA NoReturnStep ==
  Gates /\ Control /\ Backed /\ [RolloutNext]_everything => [NoReturn]_everything
<1> SUFFICES ASSUME Gates, Control, Backed, [RolloutNext]_everything,
                    step = "flashing", chip' # chip
             PROVE  NoReturn
  BY DEF NoReturn
<1>1. [Next]_vars
  BY FlashOrNothing
\* Only an openocd run of a `v3ke flash` that is past its dump touches the chip.
<1>2. pc \in {"erase", "write"}
  <2>1. step # "idle"
    OBVIOUS
  <2>2. ~ FlashAlone
    BY <2>1 DEF FlashAlone, Given
  <2>3. FlashStep
    BY <2>2 DEF RolloutNext, everything, vars, env, proc, cli, StartVerify, StartDeploy,
         StartRollout, Call, checkMips, checkMipsRaises, pushFile, pushFileFails,
         Load, LoadRefused, ReplaceHostArtifact, Verdict, Interrupted, CallFlash,
         FlashAll, Start, FlashReturns, ReplaceFirmware, ReplaceImage
  <2> QED
    BY <2>3 DEF FlashStep, DumpSucceeds, DumpEmpty, DumpFails, ConfirmYes, ConfirmNo,
         EraseAll, EraseFails, ReadImage, ReadImageFails, WriteImage, WriteFails,
         ReadBackOk, ReadBackFails, Killed, env, proc, End, Goto
<1>3. backup[DefaultBackup] \in Dumps(snap)
  BY <1>2 DEF Gates, Backed
<1> QED
  BY <1>3 DEF NoReturn, Gates

\* Whatever the host artifacts, the dumps and the failures were: a rollout
\* changes the MCU only behind a passed ABI check of both artifacts, a load of
\* what is staged, and a dump of the MCU as it was.
THEOREM NoReturnBehindGates == RolloutSpec => PointOfNoReturn
<1>1. RolloutInit => Nested /\ Loaded
  BY DEF RolloutInit, Init, Nested, Loaded
<1>2. RolloutSpec => [](Control /\ Backed)
  BY IsFlash, SpecBacked, PTL
<1>3. RolloutSpec => []SuccessMeansFlashed
  BY IsFlash, FlashedOnSuccess
<1>4. Nested /\ Loaded /\ Verified /\ RolloutTypeOK => Gates
  BY DEF Nested, Loaded, Verified, RolloutTypeOK, Gates, Slot
<1>5. PointOfNoReturn <=> [][NoReturn]_everything
  BY DEF PointOfNoReturn, NoReturn
<1> QED
  BY <1>1, <1>2, <1>3, <1>4, <1>5, NestedStep, LoadedStep, NoReturnStep, Verifies, PTL
     DEF RolloutSpec
=============================================================================
