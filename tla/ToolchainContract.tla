-------------------------- MODULE ToolchainContract --------------------------
(***************************************************************************)
(* What a builder stage of the image may rely on when it runs `ct-build    *)
(* all`: while the command runs, and after one that stopped, the install   *)
(* prefix may hold anything; one that succeeds has left a usable toolchain *)
(* there, and nothing touches it until the next command.                   *)
(***************************************************************************)
VARIABLES
  status,  \* "idle", "running", "ok" or "stopped"
  usable   \* is the toolchain in the prefix the pinned one, and complete?

vars == <<status, usable>>

Init == status = "idle" /\ usable = FALSE

Start == /\ status # "running"
         /\ status' = "running"
         /\ UNCHANGED usable

Work == /\ status = "running"
        /\ usable' \in BOOLEAN
        /\ UNCHANGED status

Succeed == /\ status = "running" /\ usable
           /\ status' = "ok"
           /\ UNCHANGED usable

Stop == /\ status = "running"
        /\ status' = "stopped"
        /\ usable' \in BOOLEAN

Next == Start \/ Work \/ Succeed \/ Stop

Spec == Init /\ [][Next]_vars
=============================================================================
