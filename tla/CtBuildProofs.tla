---------------------------- MODULE CtBuildProofs ----------------------------
(***************************************************************************)
(* Proofs about CtBuild, for every set of fragments and whatever           *)
(* crosstool-NG makes of them: the subcommands one by one come to the same *)
(* as `all`; and `all` implements ToolchainContract if every configuration *)
(* that passes the assertion of configure has newlib-nano.                 *)
(***************************************************************************)
EXTENDS CtBuild, TLAPS

-----------------------------------------------------------------------------
(* The invariant.                                                           *)

Configuring == {"sample", "splice", "olddefconfig", "assert"}
Building == {"host_env", "ctng", "building", "unseal", "merge", "seal"}
Verifying == {"compile", "readelf"}

\* Which subcommand is at which place, and what the history can be there.
CommandOK ==
  /\ pc \in Configuring => cmd \in {"configure", "all"}
  /\ pc \in Building => cmd \in {"build", "all"}
  /\ pc \in Verifying => cmd \in {"verify", "all"}
  /\ pc # "idle" => /\ cmd # "none"
                    /\ cmd \in {"configure", "all"} => chain = 0
                    /\ cmd = "build" => chain <= 1
                    /\ cmd = "verify" => chain <= 2

Configured == config \in Source /\ Matches(config)

Filled ==
  /\ prefix.made \in Source /\ Matches(prefix.made)
  /\ prefix.have = "all" /\ prefix.sealed
  /\ target = "arm" => prefix.nano = IF HasNano THEN "all" ELSE "no"

\* Between the end of ct-ng and the sealing.
Merging ==
  /\ target = "arm" /\ prefix.have = "all"
  /\ prefix.made = config /\ config # "none"
  /\ pc \in {"unseal", "merge"} => prefix.nano \in {"no", "some"}
  /\ prefix.nano # "no" => HasNano
  /\ pc = "seal" => prefix.nano = IF HasNano THEN "all" ELSE "no"

ProgressOK ==
  /\ chain >= 1 \/ (cmd = "all" /\ pc \in Building \cup Verifying) => Configured
  /\ pc = "building" => config # "none"
  /\ pc \in {"unseal", "merge", "seal"} => Merging
  /\ chain >= 2 \/ (cmd = "all" /\ pc \in Verifying) => Filled
  /\ chain = 3 => Complete

IInv == TypeOK /\ CommandOK /\ ProgressOK

LEMMA Types ==
  /\ "none" \notin Source /\ Fragment \subseteq Source
  /\ "sample" \in Source /\ "torn" \in Source
  /\ Empty \in Install
  /\ \A s \in Source : Resolved[s] \in Outcome
<1>1. Resolved \in [Source -> Outcome] /\ "none" \notin Source
  BY CtConstants
<1> QED
  BY <1>1 DEF Source, Empty, Install

LEMMA CompleteIsFilled ==
  Complete <=> Filled /\ RightLoader
BY DEF Complete, Filled, RightLoader, Matches

LEMMA InitInv == Init => IInv
<1> SUFFICES ASSUME Init PROVE IInv
  OBVIOUS
<1>1. TypeOK
  BY Types DEF Init, TypeOK, Place
<1>2. CommandOK
  BY DEF Init, CommandOK, Configuring, Building, Verifying
<1>3. ProgressOK
  BY DEF Init, ProgressOK, Building, Verifying
<1> QED
  BY <1>1, <1>2, <1>3 DEF IInv

\* What the predicates over the prefix say does not change with the rest.
LEMMA PrefixKept ==
  ASSUME UNCHANGED <<target, prefix>>
  PROVE  /\ Filled' <=> Filled
         /\ Complete' <=> Complete
         /\ Usable' <=> Usable
         /\ HasNano' <=> HasNano
BY DEF Filled, Complete, Usable, HasNano

-----------------------------------------------------------------------------
LEMMA InvReplaceFragment ==
  ASSUME IInv, NEW f \in Fragment, ReplaceFragment(f)
  PROVE  IInv'
<1>1. UNCHANGED <<target, config, prefix, cmd, pc, exit, chain>> /\ fragment' = f
  BY DEF ReplaceFragment
<1>2. TypeOK'
  BY <1>1 DEF IInv, TypeOK
<1>3. CommandOK' /\ ProgressOK'
  BY <1>1, PrefixKept DEF IInv, CommandOK, ProgressOK, Configured, Merging, HasNano
<1> QED
  BY <1>2, <1>3 DEF IInv

LEMMA InvBegin ==
  ASSUME IInv, NEW c \in {"configure", "build", "verify", "all"}, Begin(c)
  PROVE  IInv'
<1>1. UNCHANGED <<target, fragment, config, prefix>> /\ cmd' = c /\ exit' = "none"
  BY DEF Begin
<1>2. /\ c \in {"configure", "all"} => pc' = "sample" /\ chain' = 0
      /\ c = "build" => pc' = "host_env" /\ chain' \in {0, 1} /\ chain' <= chain
      /\ c = "verify" => pc' = "compile" /\ chain' \in {0, 1, 2} /\ chain' <= chain
  BY DEF Begin, First, Least, IInv, TypeOK
<1>3. TypeOK'
  BY <1>1, <1>2 DEF IInv, TypeOK, Place
<1>4. CommandOK'
  BY <1>1, <1>2 DEF CommandOK, Configuring, Building, Verifying
<1>5. ProgressOK'
  <2>1. (chain' >= 1 => Configured') /\ (chain' >= 2 => Filled') /\ chain' # 3
    BY <1>1, <1>2, PrefixKept DEF IInv, TypeOK, ProgressOK, Configured
  <2>2. /\ pc' \in {"sample", "host_env", "compile"}
        /\ pc' \in {"host_env", "compile"} => cmd' # "all"
    BY <1>1, <1>2
  <2> QED
    BY <2>1, <2>2 DEF ProgressOK, Building, Verifying
<1> QED
  BY <1>3, <1>4, <1>5 DEF IInv

\* A command that fails, or goes on to a place where nothing is claimed, keeps
\* the invariant if it leaves what was shown so far alone.
LEMMA InvFails ==
  ASSUME IInv, pc # "idle", Fail, UNCHANGED <<target, fragment, cmd>>,
         config' \in Source \cup {"none"}, prefix' \in Install,
         chain >= 1 => UNCHANGED config,
         chain >= 2 => UNCHANGED prefix
  PROVE  IInv'
<1>1. pc' = "idle" /\ exit' = "failed" /\ chain' = chain
  BY DEF Fail
<1>2. chain <= 2 /\ chain \in 0 .. 3
  BY DEF IInv, TypeOK, CommandOK
<1>3. TypeOK'
  BY <1>1 DEF IInv, TypeOK, Place
<1>4. CommandOK'
  BY <1>1 DEF CommandOK, Configuring, Building, Verifying
<1>5. ProgressOK'
  BY <1>1, <1>2, PrefixKept DEF IInv, ProgressOK, Configured, Building, Verifying
<1> QED
  BY <1>3, <1>4, <1>5 DEF IInv
\* The places of configure, where nothing has been shown yet.
LEMMA InvConfigure ==
  ASSUME IInv, SeedSample \/ Splice \/ OldDefConfig
  PROVE  IInv'
<1>1. /\ pc \in Configuring /\ pc' \in {"splice", "olddefconfig", "assert"}
      /\ UNCHANGED <<target, fragment, prefix, cmd, exit, chain>>
  BY DEF SeedSample, Splice, OldDefConfig, Goto, Configuring
<1>2. config' \in Source
  BY Types DEF SeedSample, Splice, OldDefConfig, IInv, TypeOK
<1>3. TypeOK'
  BY <1>1, <1>2, Types DEF IInv, TypeOK, Place
<1>4. cmd \in {"configure", "all"} /\ chain = 0
  BY <1>1 DEF IInv, CommandOK, Configuring
<1>5. CommandOK' /\ ProgressOK'
  BY <1>1, <1>4 DEF CommandOK, ProgressOK, Configuring, Building, Verifying
<1> QED
  BY <1>3, <1>5 DEF IInv

LEMMA InvAssertConfig ==
  ASSUME IInv, AssertConfig
  PROVE  IInv'
<1>1. UNCHANGED <<target, fragment, config, prefix, cmd>>
  BY DEF AssertConfig
<1>2. /\ cmd \in {"configure", "all"} /\ chain = 0
      /\ Configured
  BY DEF AssertConfig, IInv, CommandOK, TypeOK, Configuring, Configured
<1>3. \/ /\ cmd = "all" /\ pc' = "host_env" /\ chain' = 0 /\ exit' = exit
      \/ /\ cmd = "configure" /\ pc' = "idle" /\ chain' = 1 /\ exit' = "ok"
  BY <1>2 DEF AssertConfig, Onwards, Goto, Succeed, Reached
<1>4. TypeOK'
  BY <1>1, <1>3 DEF IInv, TypeOK, Place
<1>5. CommandOK' /\ ProgressOK'
  BY <1>1, <1>2, <1>3 DEF CommandOK, ProgressOK, Configured,
                          Configuring, Building, Verifying
<1> QED
  BY <1>4, <1>5 DEF IInv

\* What build may rely on.
LEMMA BuildPlace ==
  ASSUME IInv, pc \in Building
  PROVE  /\ cmd \in {"build", "all"} /\ chain \in {0, 1}
         /\ cmd = "all" => chain = 0
         /\ chain = 1 \/ cmd = "all" => Configured
BY DEF IInv, TypeOK, CommandOK, ProgressOK, Building

\* A place of build that goes on to another.
LEMMA InvBuilding ==
  ASSUME IInv, pc \in Building, pc' \in Building,
         UNCHANGED <<target, fragment, config, cmd, exit, chain>>,
         prefix' \in Install,
         pc' = "building" => config # "none",
         pc' \in {"unseal", "merge", "seal"} => Merging'
  PROVE  IInv'
<1>1. /\ cmd \in {"build", "all"} /\ chain \in {0, 1}
      /\ cmd = "all" => chain = 0
      /\ chain = 1 \/ cmd = "all" => Configured
  BY BuildPlace
<1>2. TypeOK'
  BY DEF IInv, TypeOK, Place, Building
<1>3. CommandOK'
  BY <1>1 DEF CommandOK, Configuring, Building, Verifying
<1>4. Configured' <=> Configured
  BY DEF Configured
<1>5. pc' \notin Verifying /\ chain' \in {0, 1}
  BY <1>1 DEF Building, Verifying
<1>6. ProgressOK'
  BY <1>1, <1>4, <1>5 DEF ProgressOK
<1> QED
  BY <1>2, <1>3, <1>6 DEF IInv

LEMMA InvHostEnv == ASSUME IInv, HostEnv PROVE IInv'
BY InvBuilding DEF HostEnv, Goto, Building, IInv, TypeOK

LEMMA InvBuildBegins == ASSUME IInv, BuildBegins PROVE IInv'
BY InvBuilding, Types DEF BuildBegins, Goto, Building

\* The end of build: a complete toolchain, if the configuration was right.
LEMMA InvBuildDone ==
  ASSUME IInv, pc \in Building, Onwards("compile"),
         UNCHANGED <<target, fragment, config, cmd>>,
         prefix' \in Install, config \in Source,
         prefix'.made = config /\ prefix'.have = "all" /\ prefix'.sealed,
         target = "arm" => prefix'.nano = IF HasNano' THEN "all" ELSE "no"
  PROVE  IInv'
<1>1. /\ cmd \in {"build", "all"} /\ chain \in {0, 1}
      /\ cmd = "all" => chain = 0
      /\ chain = 1 \/ cmd = "all" => Configured
  BY BuildPlace
<1>2. \/ /\ cmd = "all" /\ pc' = "compile" /\ chain' = 0 /\ exit' = exit
      \/ /\ cmd = "build" /\ pc' = "idle" /\ exit' = "ok"
         /\ chain' = IF chain = 1 THEN 2 ELSE 0
  <2>1. CASE cmd = "all"
    BY <2>1, <1>1 DEF Onwards, Goto
  <2>2. CASE cmd = "build"
    <3>1. Succeed /\ Reached = IF chain = 1 THEN 2 ELSE 0
      BY <2>2 DEF Onwards, Reached
    <3> QED
      BY <2>2, <3>1 DEF Succeed
  <2> QED
    BY <1>1, <2>1, <2>2
<1>3. Configured => Configured' /\ Filled'
  BY DEF Configured, Filled, Matches
<1>4. TypeOK'
  BY <1>2 DEF IInv, TypeOK, Place
<1>5. CommandOK'
  BY <1>1, <1>2 DEF CommandOK, Configuring, Building, Verifying
<1>6. ProgressOK'
  BY <1>1, <1>2, <1>3 DEF ProgressOK, Building, Verifying
<1> QED
  BY <1>4, <1>5, <1>6 DEF IInv

LEMMA InvBuildEnds == ASSUME IInv, BuildEnds PROVE IInv'
<1>1. /\ pc = "building" /\ config \in Source /\ prefix' = Built
      /\ UNCHANGED <<target, fragment, config, cmd>>
  BY DEF BuildEnds, IInv, TypeOK, ProgressOK
<1>2. /\ prefix' \in Install /\ prefix'.made = config /\ prefix'.have = "all"
      /\ prefix'.sealed /\ prefix'.nano = "no"
  BY <1>1 DEF Built, Install
<1>3. CASE target = "arm"
  <2>1. pc' = "unseal" /\ UNCHANGED <<exit, chain>>
    BY <1>3 DEF BuildEnds, Goto
  <2>2. Merging'
    BY <1>1, <1>2, <1>3, <2>1, Types DEF Merging
  <2> QED
    BY <1>1, <1>2, <2>1, <2>2, InvBuilding DEF Building
<1>4. CASE target # "arm"
  BY <1>1, <1>2, <1>4, InvBuildDone DEF BuildEnds, Building
<1> QED
  BY <1>3, <1>4

LEMMA InvMerging ==
  ASSUME IInv, Unseal \/ MergeSome \/ MergeRest
  PROVE  IInv'
<1>1. /\ pc \in {"unseal", "merge"} /\ pc' \in {"merge", "seal"}
      /\ UNCHANGED <<target, fragment, config, cmd, exit, chain>>
  BY DEF Unseal, MergeSome, MergeRest, Goto
<1>2. Merging /\ prefix \in Install
  BY <1>1 DEF IInv, TypeOK, ProgressOK
<1>3. /\ prefix' \in Install
      /\ prefix'.made = prefix.made /\ prefix'.have = prefix.have
  BY <1>2 DEF Unseal, MergeSome, MergeRest, Install
<1>4. HasNano' <=> HasNano
  BY <1>3 DEF HasNano
<1>5. Merging'
  <2>1. CASE Unseal
    BY <2>1, <1>1, <1>2, <1>3, <1>4 DEF Unseal, Merging, Install, Goto
  <2>2. CASE MergeSome
    BY <2>2, <1>1, <1>2, <1>3, <1>4 DEF MergeSome, Merging, Install, Goto
  <2>3. CASE MergeRest
    BY <2>3, <1>1, <1>2, <1>3, <1>4 DEF MergeRest, Merging, Install, Goto
  <2> QED
    BY <2>1, <2>2, <2>3
<1> QED
  BY <1>1, <1>3, <1>5, InvBuilding DEF Building

LEMMA InvSeal == ASSUME IInv, Seal PROVE IInv'
<1>1. /\ pc = "seal" /\ UNCHANGED <<target, fragment, config, cmd>>
      /\ prefix' = [prefix EXCEPT !.sealed = TRUE]
  BY DEF Seal
<1>2. Merging /\ prefix \in Install /\ config \in Source
  BY <1>1 DEF IInv, TypeOK, ProgressOK, Merging
<1>3. /\ prefix' \in Install /\ prefix'.sealed
      /\ prefix'.made = prefix.made /\ prefix'.have = prefix.have
      /\ prefix'.nano = prefix.nano
  BY <1>1, <1>2 DEF Install
<1>4. HasNano' <=> HasNano
  BY <1>3 DEF HasNano
<1> QED
  BY <1>1, <1>2, <1>3, <1>4, InvBuildDone DEF Seal, Building, Merging

\* verify changes nothing but the place.
LEMMA InvCompile == ASSUME IInv, Compile PROVE IInv'
<1>1. /\ pc = "compile" /\ pc' = "readelf"
      /\ UNCHANGED <<target, fragment, config, prefix, cmd, exit, chain>>
  BY DEF Compile, Goto
<1>2. TypeOK'
  BY <1>1 DEF IInv, TypeOK, Place
<1>3. CommandOK'
  BY <1>1 DEF IInv, CommandOK, Configuring, Building, Verifying
<1>4. ProgressOK'
  BY <1>1, PrefixKept DEF IInv, ProgressOK, Configured, Building, Verifying
<1> QED
  BY <1>2, <1>3, <1>4 DEF IInv

LEMMA InvReadElf == ASSUME IInv, ReadElf PROVE IInv'
<1>1. /\ pc = "readelf" /\ pc' = "idle" /\ exit' = "ok" /\ RightLoader
      /\ UNCHANGED <<target, fragment, config, prefix, cmd>>
  BY DEF ReadElf, Succeed
<1>2. cmd \in {"verify", "all"} /\ (cmd = "all" => chain = 0) /\ chain \in 0 .. 2
  BY <1>1 DEF IInv, TypeOK, CommandOK, Verifying
<1>3. chain' = IF cmd = "all" \/ chain = 2 THEN 3 ELSE chain
  BY <1>2 DEF ReadElf, Succeed, Reached
<1>4. cmd = "all" \/ chain = 2 => Filled /\ Complete
  BY <1>1, CompleteIsFilled DEF IInv, ProgressOK, Verifying
<1>5. chain' >= 1 => Configured
  BY <1>1, <1>2, <1>3 DEF IInv, ProgressOK, Verifying
<1>6. chain' >= 2 => Filled /\ Complete
  BY <1>2, <1>3, <1>4
<1>7. TypeOK'
  BY <1>1, <1>2, <1>3 DEF IInv, TypeOK, Place
<1>8. CommandOK'
  BY <1>1 DEF CommandOK, Configuring, Building, Verifying
<1>9. ProgressOK'
  BY <1>1, <1>2, <1>3, <1>5, <1>6, PrefixKept
     DEF ProgressOK, Configured, Building, Verifying
<1> QED
  BY <1>7, <1>8, <1>9 DEF IInv

-----------------------------------------------------------------------------
LEMMA InvStepFails ==
  ASSUME IInv, AssertFails \/ BuildFails \/ LoaderMismatch \/ Aborted
  PROVE  IInv'
<1>1. /\ pc # "idle" /\ Fail /\ UNCHANGED <<target, fragment, cmd>>
  BY DEF AssertFails, BuildFails, LoaderMismatch, Aborted
<1>2. CASE AssertFails \/ LoaderMismatch
  BY <1>1, <1>2, InvFails DEF AssertFails, LoaderMismatch, IInv, TypeOK
<1>3. CASE BuildFails
  <2>1. config \in Source /\ chain \in {0, 1}
    BY <1>3, BuildPlace DEF BuildFails, Building, IInv, TypeOK, ProgressOK
  <2>2. prefix' \in Install
    <3>1. /\ prefix \in Install
          /\ \A h \in {"nothing", "compiler"} :
               [made |-> config, have |-> h, nano |-> "no", sealed |-> FALSE] \in Install
      BY <2>1 DEF Install, IInv, TypeOK
    <3> QED
      BY <1>3, <3>1 DEF BuildFails, Leavings
  <2> QED
    BY <1>1, <1>3, <2>1, <2>2, InvFails DEF BuildFails
<1>4. CASE Aborted
  <2>1. pc \in Configuring => chain = 0
    BY DEF IInv, CommandOK, Configuring
  <2>2. config' \in Source \cup {"none"} /\ (chain >= 1 => config' = config)
    BY <1>4, <2>1, Types DEF Aborted, LeftOfConfig, Configuring, IInv, TypeOK
  <2>3. prefix' = prefix /\ prefix \in Install
    BY <1>4 DEF Aborted, IInv, TypeOK
  <2> QED
    BY <1>1, <2>2, <2>3, InvFails
<1> QED
  BY <1>2, <1>3, <1>4

LEMMA NextInv == IInv /\ [Next]_vars => IInv'
<1> SUFFICES ASSUME IInv, [Next]_vars PROVE IInv'
  OBVIOUS
<1>1. CASE UNCHANGED vars
  BY <1>1, PrefixKept DEF vars, IInv, TypeOK, CommandOK, ProgressOK, Configured,
                          Merging, HasNano
<1>2. ASSUME NEW f \in Fragment, ReplaceFragment(f) PROVE IInv'
  BY <1>2, InvReplaceFragment
<1>3. ASSUME NEW c \in {"configure", "build", "verify", "all"}, Begin(c) PROVE IInv'
  BY <1>3, InvBegin
<1>4. CASE Step
  BY <1>4, InvConfigure, InvAssertConfig, InvHostEnv, InvBuildBegins, InvBuildEnds,
     InvMerging, InvSeal, InvCompile, InvReadElf, InvStepFails DEF Step
<1> QED
  BY <1>1, <1>2, <1>3, <1>4 DEF Next

LEMMA SpecInv == Spec => []IInv
  BY InitInv, NextInv, PTL DEF Spec

\* Every reachable state is well typed; a .config being written is there.
THEOREM CtTypeCorrect == Spec => []TypeOK
<1>1. IInv => TypeOK
  BY DEF IInv
<1> QED
  BY <1>1, SpecInv, PTL

\* configure, build and verify, each run until it succeeds, leave what `all`
\* leaves: a complete toolchain of the pinned versions.
THEOREM StepsEqualAll == Spec => []SeparatelyAsTogether
<1>1. IInv => SeparatelyAsTogether
  BY DEF IInv, ProgressOK, SeparatelyAsTogether
<1> QED
  BY <1>1, SpecInv, PTL

-----------------------------------------------------------------------------
(* The safety half of CommandsEnd: no command goes back to where it was.    *)

\* The steps a command may still take.
Left ==
  CASE pc = "sample" -> 13 [] pc = "splice" -> 12 [] pc = "olddefconfig" -> 11
    [] pc = "assert" -> 10 [] pc = "host_env" -> 9 [] pc = "ctng" -> 8
    [] pc = "building" -> 7 [] pc = "unseal" -> 6
    [] pc = "merge" -> (IF prefix.nano = "no" THEN 5 ELSE 4)
    [] pc = "seal" -> 3 [] pc = "compile" -> 2 [] pc = "readelf" -> 1
    [] OTHER -> 0

\* A step takes its command forwards, or ends it; an edit of the fragment does
\* neither.
Forwards ==
  /\ pc # "idle" => Left' < Left \/ UNCHANGED <<pc, prefix>>
  /\ Step => Left' < Left

LEMMA GoesForwards ==
  ASSUME TypeOK, Step
  PROVE  Left' < Left
<1>1. pc # "idle"
  BY DEF Step, SeedSample, Splice, OldDefConfig, AssertConfig, AssertFails, HostEnv,
     BuildBegins, BuildEnds, BuildFails, Unseal, MergeSome, MergeRest, Seal, Compile,
     ReadElf, LoaderMismatch, Aborted
<1>2. Left \in 1 .. 13
  BY <1>1 DEF Left, TypeOK, Place
<1>3. CASE pc' = "idle"
  BY <1>2, <1>3 DEF Left
<1>4. CASE SeedSample \/ Splice \/ OldDefConfig
  BY <1>4 DEF SeedSample, Splice, OldDefConfig, Goto, Left
<1>5. CASE AssertConfig
  BY <1>3, <1>5 DEF AssertConfig, Onwards, Succeed, Goto, Left
<1>6. CASE HostEnv \/ BuildBegins
  BY <1>6 DEF HostEnv, BuildBegins, Goto, Left
<1>7. CASE BuildEnds
  BY <1>3, <1>7 DEF BuildEnds, Onwards, Succeed, Goto, Left
<1>8. CASE Unseal
  BY <1>8 DEF Unseal, Goto, Left
<1>9. CASE MergeSome
  <2>1. prefix.nano = "no" /\ prefix'.nano = "some" /\ pc = "merge" /\ pc' = "merge"
    BY <1>9 DEF MergeSome, Goto, TypeOK, Install
  <2> QED
    BY <2>1 DEF Left
<1>10. CASE MergeRest
  BY <1>10 DEF MergeRest, Goto, Left
<1>11. CASE Seal
  BY <1>3, <1>11 DEF Seal, Onwards, Succeed, Goto, Left
<1>12. CASE Compile
  BY <1>12 DEF Compile, Goto, Left
<1>13. CASE AssertFails \/ BuildFails \/ ReadElf \/ LoaderMismatch \/ Aborted
  BY <1>3, <1>13 DEF AssertFails, BuildFails, ReadElf, LoaderMismatch, Aborted, Fail,
     Succeed
<1> QED
  BY <1>4, <1>5, <1>6, <1>7, <1>8, <1>9, <1>10, <1>11, <1>12, <1>13 DEF Step

\* However it fails and whatever is edited meanwhile, a command takes thirteen
\* steps at most: what is left of it never grows and each step uses some up.
THEOREM StepsRunOut == Spec => [](Left \in 0 .. 13) /\ [][Forwards]_vars
<1>1. TypeOK => Left \in 0 .. 13
  BY DEF TypeOK, Place, Left
<1>2. TypeOK /\ [Next]_vars => [Forwards]_vars
  <2> SUFFICES ASSUME TypeOK, Next PROVE Forwards
    BY DEF Forwards
  <2>1. CASE Step
    BY <2>1, GoesForwards DEF Forwards
  <2>2. CASE ~ Step
    BY <2>2 DEF Next, ReplaceFragment, Begin, Forwards
  <2> QED
    BY <2>1, <2>2
<1> QED
  BY <1>1, <1>2, CtTypeCorrect, PTL DEF Spec

-----------------------------------------------------------------------------
(* `ct-build all` implements ToolchainContract.                             *)

\* A command that ends well has ended so because it was not `all`, or with a
\* usable toolchain that it leaves alone.
LEMMA EndsWell ==
  ASSUME PinnedHasNano, IInv, Step, pc' = "idle", cmd' = "all", exit' = "ok"
  PROVE  Usable /\ Usable'
<1>1. ReadElf
  <2>1. cmd = "all" /\ pc # "idle"
    BY DEF Step, SeedSample, Splice, OldDefConfig, AssertConfig, AssertFails,
           HostEnv, BuildBegins, BuildEnds, BuildFails, Unseal, MergeSome,
           MergeRest, Seal, Compile, ReadElf, LoaderMismatch, Aborted
  <2>2. ~ (SeedSample \/ Splice \/ OldDefConfig \/ HostEnv \/ BuildBegins
           \/ Unseal \/ MergeSome \/ MergeRest \/ Compile)
    BY DEF SeedSample, Splice, OldDefConfig, HostEnv, BuildBegins, Unseal,
           MergeSome, MergeRest, Compile, Goto
  <2>3. ~ (AssertConfig \/ BuildEnds \/ Seal)
    BY <2>1 DEF AssertConfig, BuildEnds, Seal, Onwards, Goto
  <2>4. ~ (AssertFails \/ BuildFails \/ LoaderMismatch \/ Aborted)
    BY DEF AssertFails, BuildFails, LoaderMismatch, Aborted, Fail
  <2> QED
    BY <2>2, <2>3, <2>4 DEF Step
<1>2. /\ pc = "readelf" /\ cmd = "all" /\ RightLoader
      /\ UNCHANGED <<target, prefix>>
  BY <1>1 DEF ReadElf
<1>3. Filled /\ Complete
  BY <1>2, CompleteIsFilled DEF IInv, ProgressOK, Verifying
<1>4. HasNano
  BY <1>3 DEF Complete, HasNano, PinnedHasNano
<1>5. Usable
  BY <1>3, <1>4 DEF Complete, Usable
<1> QED
  BY <1>2, <1>5, PrefixKept

LEMMA StepContract ==
  ASSUME PinnedHasNano, IInv, Step
  PROVE  Contract!Next
<1>1. pc # "idle" /\ cmd' = cmd /\ cmd # "none"
  BY DEF Step, SeedSample, Splice, OldDefConfig, AssertConfig, AssertFails,
         HostEnv, BuildBegins, BuildEnds, BuildFails, Unseal, MergeSome,
         MergeRest, Seal, Compile, ReadElf, LoaderMismatch, Aborted,
         IInv, CommandOK
<1>2. Usable' \in BOOLEAN
  BY DEF Usable
<1>3. CASE pc' # "idle"
  BY <1>1, <1>2, <1>3 DEF Contract!Next, Contract!Work
<1>4. CASE pc' = "idle" /\ cmd = "all" /\ exit' = "ok"
  BY <1>1, <1>4, EndsWell DEF Contract!Next, Contract!Succeed
<1>5. CASE pc' = "idle" /\ ~ (cmd = "all" /\ exit' = "ok")
  BY <1>1, <1>2, <1>5 DEF Contract!Next, Contract!Stop
<1> QED
  BY <1>3, <1>4, <1>5

\* What the image's builder stages rely on, the ARM one because it links
\* `-lc_nano`: it holds if asserting the versions amounts to asserting
\* newlib-nano, which ct_build.py leaves to crosstool-NG's sample.
THEOREM ContractKept ==
  ASSUME PinnedHasNano
  PROVE  Spec => KeepsContract
<1>1. Init => Contract!Init
  BY DEF Init, Contract!Init, Usable, Complete, Empty
<1>2. ASSUME IInv, [Next]_vars PROVE [Contract!Next]_(Contract!vars)
  <2>1. CASE Step
    BY <2>1, <1>2, StepContract
  <2>2. ASSUME NEW c \in {"configure", "build", "verify", "all"}, Begin(c)
        PROVE  Contract!Next
    <3>1. pc = "idle" /\ pc' # "idle" /\ UNCHANGED <<target, prefix>>
      BY <2>2 DEF Begin, First
    <3>2. Usable' = Usable
      BY <3>1 DEF Usable, Complete, HasNano
    <3> QED
      BY <3>1, <3>2 DEF Contract!Next, Contract!Start
  <2>3. ASSUME \/ UNCHANGED vars
               \/ \E f \in Fragment : ReplaceFragment(f)
        PROVE  UNCHANGED Contract!vars
    <3>1. UNCHANGED <<target, prefix, pc, cmd, exit>>
      BY <2>3 DEF vars, ReplaceFragment
    <3>2. Usable' = Usable
      BY <3>1 DEF Usable, Complete, HasNano
    <3> QED
      BY <3>1, <3>2 DEF Contract!vars
  <2> QED
    BY <1>2, <2>1, <2>2, <2>3 DEF Next
<1> QED
  BY <1>1, <1>2, SpecInv, PTL DEF Spec, KeepsContract, Contract!Spec
=============================================================================
