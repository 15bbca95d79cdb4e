----------------------------- MODULE MCRollout -----------------------------
(* A chip of two pages with one build of each image; host artifacts as the  *)
(* build makes them, a library with the legacy NaN encoding, as a stock     *)
(* MIPS compiler makes it, two builds of a program, and one cut short.      *)
EXTENDS Rollout, TLC

MCSize == ("ka" :> 1) @@ ("kl" :> 1)
MCPageData == {"boot", "app"}
MCData ==
  ("ka" :> [k \in 0 .. 1 |-> "boot"]) @@ ("kl" :> [k \in 0 .. 1 |-> "app"])

\* Two program headers at 52, the second of them PT_INTERP with the loader's
\* name at 116; two section headers at 164, the second of them .MIPS.abiflags,
\* whose contents are at 140.
At(o, v) == [at |-> o, value |-> v]
Header ==
  [size |-> 244, elf32 |-> TRUE, machine |-> 8, data |-> 1,
   nan2008 |-> 1, abi |-> 1, arch |-> 7,
   phoff |-> 52, phentsize |-> 32, phnum |-> 2,
   shoff |-> 164, shentsize |-> 40, shnum |-> 2,
   word |-> {At(52, 1), At(208, SHT_MIPS_ABIFLAGS), At(220, 140), At(224, 24)},
   fp |-> {At(147, 6)}, loader |-> {}]

Library == Header
Program ==
  [Header EXCEPT !.word = @ \cup {At(84, PT_INTERP), At(88, 116), At(100, 24)},
                 !.loader = {<<116, 24>>}]

MCElf ==
  ("library" :> Library)
  @@ ("legacy" :> [Library EXCEPT !.nan2008 = 0])
  @@ ("program" :> Program)
  @@ ("rebuilt" :> Program)
  @@ ("cut" :> [Program EXCEPT !.size = 200])
MCHostBuilds ==
  ("chelper" :> {"library", "legacy"}) @@ ("hostElf" :> {"program", "rebuilt", "cut"})
MCLoads == ("chelper" :> {"library"}) @@ ("hostElf" :> {"program", "rebuilt"})
=============================================================================
