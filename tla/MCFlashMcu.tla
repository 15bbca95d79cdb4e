----------------------------- MODULE MCFlashMcu -----------------------------
(* A chip of three pages, the first of them the bootloader's; one Katapult  *)
(* build; two Klipper files of different sizes, the shorter the beginning   *)
(* of the longer, as when a copy is caught half-way.                        *)
EXTENDS FlashMcu, TLC

CONSTANTS ka, k1, k2
MCSize == (ka :> 1) @@ (k1 :> 1) @@ (k2 :> 2)
MCPageData == {"boot", "app1", "app2"}
MCData ==
  LET app == (0 :> "app1") @@ (1 :> "app2") @@ (2 :> "app2") IN
  (ka :> [k \in 0 .. 2 |-> "boot"]) @@ (k1 :> app) @@ (k2 :> app)
=============================================================================
