----------------------------- MODULE MCCtBuild -----------------------------
(* Fragments: as committed; with a symbol crosstool-NG does not know, so    *)
(* that a version silently defaults; without the compiler's default ABI;    *)
(* without newlib-nano.                                                     *)
EXTENDS CtBuild

CONSTANTS committed, misnamed, wrongAbi, noNano

MCResolved ==
  [s \in Source |->
     [versions |-> IF s \in {misnamed, "sample", "torn"} THEN "other" ELSE "pinned",
      abi |-> IF s \in {wrongAbi, "sample", "torn"} THEN "other" ELSE "device",
      nano |-> s \notin {noNano, "torn"}]]
=============================================================================
