------------------------------ MODULE CtBuild ------------------------------
(***************************************************************************)
(* toolchain/ct_build.py: one target's cross toolchain, configured, built  *)
(* and verified by one `ct-build` command or by several, in one container. *)
(* The two targets share nothing but download and compiler caches, so      *)
(* `target` is chosen once.                                                *)
(*                                                                         *)
(* A .config is the fragment spliced into it; what its symbols come to is  *)
(* decided by crosstool-NG (Resolved).                                     *)
(***************************************************************************)
EXTENDS Naturals

CONSTANTS
  Fragment,  \* the fragments that may lie in /opt/ctng-cfg
  Asks,      \* those whose text selects the pinned versions
  Resolved   \* [Source -> what olddefconfig makes of it]

\* What a .config can be made of: a fragment spliced into the sample, the bare
\* sample, or the beginning of one of them, cut short by a death.
Source == Fragment \cup {"sample", "torn"}
Outcome ==
  [versions : {"pinned", "other"}, abi : {"device", "other"}, nano : BOOLEAN]

ASSUME CtConstants ==
  /\ Asks \subseteq Fragment
  /\ Resolved \in [Source -> Outcome]
  /\ "none" \notin Source

TARGETS == {"mips", "arm"}

\* The prefix: which configuration was built, how much of it is there, how
\* many *_nano.a are in the main library tree, and whether it is read-only.
Install ==
  [made : Source \cup {"none"}, have : {"nothing", "compiler", "all"},
   nano : {"no", "some", "all"}, sealed : BOOLEAN]
Empty == [made |-> "none", have |-> "nothing", nano |-> "no", sealed |-> FALSE]

Place == {"idle", "sample", "splice", "olddefconfig", "assert", "host_env",
          "ctng", "building", "unseal", "merge", "seal", "compile", "readelf"}

VARIABLES
  target,    \* --target
  fragment,  \* the fragment file
  config,    \* .config in the build directory
  prefix,    \* /opt/x-tools/<tuple>
  cmd,       \* subcommand being run, or run last
  pc,        \* place in it
  exit,      \* how the last one ended
  chain      \* history: how far configure, build and verify have succeeded

vars == <<target, fragment, config, prefix, cmd, pc, exit, chain>>

TypeOK ==
  /\ target \in TARGETS
  /\ fragment \in Fragment
  /\ config \in Source \cup {"none"}
  /\ prefix \in Install
  /\ cmd \in {"none", "configure", "build", "verify", "all"}
  /\ pc \in Place
  /\ exit \in {"none", "ok", "failed"}
  /\ chain \in 0 .. 3
  /\ pc \in {"splice", "olddefconfig", "assert"} => config # "none"

Init ==
  /\ target \in TARGETS
  /\ fragment \in Fragment
  /\ config = "none"
  /\ prefix = Empty
  /\ cmd = "none"
  /\ pc = "idle"
  /\ exit = "none"
  /\ chain = 0

\* COPY in the Containerfile, or an editor.
ReplaceFragment(f) ==
  /\ fragment' = f
  /\ UNCHANGED <<target, config, prefix, cmd, pc, exit, chain>>

-----------------------------------------------------------------------------
(* main                                                                     *)

First(c) == CASE c \in {"configure", "all"} -> "sample"
              [] c = "build" -> "host_env"
              [] OTHER -> "compile"

Least(m, n) == IF m < n THEN m ELSE n

Begin(c) ==
  /\ pc = "idle"
  /\ cmd' = c
  /\ pc' = First(c)
  /\ exit' = "none"
  /\ chain' = CASE c \in {"configure", "all"} -> 0
                [] c = "build" -> Least(chain, 1)
                [] OTHER -> Least(chain, 2)
  /\ UNCHANGED <<target, fragment, config, prefix>>

Reached == CASE cmd = "configure" -> 1
             [] cmd = "build" -> IF chain = 1 THEN 2 ELSE 0
             [] cmd = "verify" -> IF chain = 2 THEN 3 ELSE chain
             [] OTHER -> 3

Succeed == pc' = "idle" /\ exit' = "ok" /\ chain' = Reached
Fail == pc' = "idle" /\ exit' = "failed" /\ UNCHANGED chain
Goto(p) == pc' = p /\ UNCHANGED <<exit, chain>>

\* The next function of `all`, the end of any other subcommand.
Onwards(p) == IF cmd = "all" THEN Goto(p) ELSE Succeed

-----------------------------------------------------------------------------
(* configure                                                                *)

\* Slip: the old .config is removed after the sample was seeded.
SeedSampleThenUnlink ==
  /\ pc = "sample"
  /\ config' = "none"
  /\ Goto("splice")
  /\ UNCHANGED <<target, fragment, prefix, cmd>>

SeedSample ==
  /\ pc = "sample"
  /\ config' = "sample"
  /\ Goto("splice")
  /\ UNCHANGED <<target, fragment, prefix, cmd>>

Splice ==
  /\ pc = "splice"
  /\ config' = fragment
  /\ Goto("olddefconfig")
  /\ UNCHANGED <<target, fragment, prefix, cmd>>

OldDefConfig ==
  /\ pc = "olddefconfig"
  /\ Goto("assert")
  /\ UNCHANGED <<target, fragment, config, prefix, cmd>>

\* Slip: what the fragment selects is compared, not what it was resolved to.
MatchesText(c) == c \in Asks

\* Each `expect` line is in the text that olddefconfig wrote.
Matches(c) == Resolved[c].versions = "pinned"

AssertConfig ==
  /\ pc = "assert"
  /\ Matches(config)
  /\ Onwards("host_env")
  /\ UNCHANGED <<target, fragment, config, prefix, cmd>>

AssertFails ==
  /\ pc = "assert"
  /\ ~ Matches(config)
  /\ Fail
  /\ UNCHANGED <<target, fragment, config, prefix, cmd>>

-----------------------------------------------------------------------------
(* build, nano_merge                                                        *)

\* A ccache that cannot be resized is only warned about.
HostEnv ==
  /\ pc = "host_env"
  /\ Goto("ctng")
  /\ UNCHANGED <<target, fragment, config, prefix, cmd>>

\* crosstool-NG removes the prefix before it fills it.
BuildBegins ==
  /\ pc = "ctng"
  /\ config # "none"
  /\ prefix' = Empty
  /\ Goto("building")
  /\ UNCHANGED <<target, fragment, config, cmd>>

Built == [made |-> config, have |-> "all", nano |-> "no", sealed |-> TRUE]

\* Slip: the libraries are not merged.
BuildEndsUnmerged ==
  /\ pc = "building"
  /\ prefix' = Built
  /\ Onwards("compile")
  /\ UNCHANGED <<target, fragment, config, cmd>>

BuildEnds ==
  /\ pc = "building"
  /\ prefix' = Built
  /\ IF target = "arm" THEN Goto("unseal") ELSE Onwards("compile")
  /\ UNCHANGED <<target, fragment, config, cmd>>

\* What ct-ng leaves when it stops: its compilers, perhaps, and no libraries.
Leavings == {prefix} \cup
  {[made |-> config, have |-> h, nano |-> "no", sealed |-> FALSE] :
     h \in {"nothing", "compiler"}}

\* Slip: a failed build is started again.
BuildFailsRetry ==
  /\ pc = "building"
  /\ prefix' \in Leavings
  /\ Goto("ctng")
  /\ UNCHANGED <<target, fragment, config, cmd>>

\* ct-ng exits nonzero: the tail of its log is shown and the error goes on.
BuildFails ==
  /\ pc = "building"
  /\ prefix' \in Leavings
  /\ Fail
  /\ UNCHANGED <<target, fragment, config, cmd>>

Unseal ==
  /\ pc = "unseal"
  /\ prefix' = [prefix EXCEPT !.sealed = FALSE]
  /\ Goto("merge")
  /\ UNCHANGED <<target, fragment, config, cmd>>

HasNano == Resolved[prefix.made].nano

MergeSome ==
  /\ pc = "merge"
  /\ HasNano /\ prefix.nano = "no"
  /\ prefix' = [prefix EXCEPT !.nano = "some"]
  /\ Goto("merge")
  /\ UNCHANGED <<target, fragment, config, cmd>>

\* With no newlib-nano installed there is nothing to copy, and no complaint.
MergeRest ==
  /\ pc = "merge"
  /\ HasNano => prefix.nano = "some"
  /\ prefix' = [prefix EXCEPT !.nano = IF HasNano THEN "all" ELSE @]
  /\ Goto("seal")
  /\ UNCHANGED <<target, fragment, config, cmd>>

Seal ==
  /\ pc = "seal"
  /\ prefix' = [prefix EXCEPT !.sealed = TRUE]
  /\ Onwards("compile")
  /\ UNCHANGED <<target, fragment, config, cmd>>

-----------------------------------------------------------------------------
(* verify                                                                   *)

\* A program must link for mips; an object is enough for arm.
Compile ==
  /\ pc = "compile"
  /\ prefix.have \in IF target = "mips" THEN {"all"} ELSE {"compiler", "all"}
  /\ Goto("readelf")
  /\ UNCHANGED <<target, fragment, config, prefix, cmd>>

\* The default ABI decides which loader a program asks for.
RightLoader == target = "mips" => Resolved[prefix.made].abi = "device"

ReadElf ==
  /\ pc = "readelf"
  /\ RightLoader
  /\ Succeed
  /\ UNCHANGED <<target, fragment, config, prefix, cmd>>

LoaderMismatch ==
  /\ pc = "readelf"
  /\ ~ RightLoader
  /\ Fail
  /\ UNCHANGED <<target, fragment, config, prefix, cmd>>

-----------------------------------------------------------------------------
\* What a death in configure leaves of .config: seeding removes the one that was
\* there, and write_text and olddefconfig overwrite it.
LeftOfConfig ==
  {config} \cup CASE pc = "sample" -> {"none", "sample", "torn"}
                  [] pc \in {"splice", "olddefconfig"} -> {"torn"}
                  [] OTHER -> {}

\* A command other than `ct-ng build` exits nonzero, a file cannot be read or
\* written, or the process dies.
Aborted ==
  /\ pc \notin {"idle", "building"}
  /\ config' \in LeftOfConfig
  /\ Fail
  /\ UNCHANGED <<target, fragment, prefix, cmd>>

Step ==
  \/ SeedSample \/ Splice \/ OldDefConfig \/ AssertConfig \/ AssertFails
  \/ HostEnv \/ BuildBegins \/ BuildEnds \/ BuildFails
  \/ Unseal \/ MergeSome \/ MergeRest \/ Seal
  \/ Compile \/ ReadElf \/ LoaderMismatch
  \/ Aborted

Next ==
  \/ \E f \in Fragment : ReplaceFragment(f)
  \/ \E c \in {"configure", "build", "verify", "all"} : Begin(c)
  \/ Step

Spec == Init /\ [][Next]_vars

\* The commands ct-build runs end, well or not.
FairSpec == Spec /\ WF_vars(Step)

-----------------------------------------------------------------------------
(* Properties.                                                              *)

\* Built from a configuration with the pinned versions and the right ABI,
\* complete, with every newlib-nano library there is in the main tree, and
\* read-only again.
Complete ==
  /\ prefix.made \in Source
  /\ Resolved[prefix.made].versions = "pinned"
  /\ prefix.have = "all"
  /\ target = "mips" => Resolved[prefix.made].abi = "device"
  /\ target = "arm" => prefix.nano = IF HasNano THEN "all" ELSE "no"
  /\ prefix.sealed

\* The firmware links `-lc_nano`, so an ARM toolchain without those libraries is
\* of no use to it.
Usable == Complete /\ (target = "arm" => prefix.nano = "all")

\* "Subcommands separate the slow build from the fast config": configure,
\* build and verify, each run until it succeeds, come to the same as `all`,
\* however often one failed or was repeated, whatever became of the fragment
\* meanwhile.
SeparatelyAsTogether == chain = 3 /\ pc = "idle" => Complete

\* "ct-build validates the result and fails if wrong": an `all` that succeeded
\* has left a toolchain the firmware can be built with.  Not so of one whose
\* configuration has no newlib-nano: the merge finds nothing to copy and verify
\* does not link.
SuccessIsUsable == pc = "idle" /\ cmd = "all" /\ exit = "ok" => Usable

\* What the assertion of configure would have to establish as well.
PinnedHasNano ==
  \A s \in Source : Resolved[s].versions = "pinned" => Resolved[s].nano

\* `ct-build all` keeps the contract the image's stages rely on (if
\* PinnedHasNano).
Contract == INSTANCE ToolchainContract
  WITH status <- IF pc # "idle" THEN "running"
                 ELSE IF cmd = "none" THEN "idle"
                 ELSE IF cmd = "all" /\ exit = "ok" THEN "ok" ELSE "stopped",
       usable <- Usable
KeepsContract == Contract!Spec

\* No command is run over and over: each ends, also if all it runs fails.
CommandsEnd == pc # "idle" ~> pc = "idle"
=============================================================================
