---------------------------- MODULE BuildContract ----------------------------
(***************************************************************************)
(* What `build.py artifacts` promises the rest of the pipeline, of builds  *)
(* of one tree that do not overlap: while a build runs, and after one that *)
(* failed, the device artifacts may be any mixture of old, new and         *)
(* missing; but a build that succeeds leaves every artifact usable and     *)
(* built from a source the tree held since it began.                       *)
(***************************************************************************)
EXTENDS Integers

CONSTANTS Builders,  \* those who build in the tree
          Artifact,  \* the device artifacts
          MaxSource  \* bound: the tree changes at most this often

VARIABLES
  source,   \* version of the source tree
  product,  \* [Artifact -> version it was built from, or Unusable]
  since,    \* [Builders -> the version its running or last build began with]
  status    \* [Builders -> "none", "running", "ok" or "failed"]

vars == <<source, product, since, status>>

\* Missing, cut short, or built for another machine.
Unusable == -1

Running(b) == status[b] = "running"

Init ==
  /\ source = 0
  /\ product = [a \in Artifact |-> Unusable]
  /\ since = [b \in Builders |-> 0]
  /\ status = [b \in Builders |-> "none"]

Edit == /\ source < MaxSource
        /\ source' = source + 1
        /\ UNCHANGED <<product, since, status>>

Begin(b) == /\ \A c \in Builders : ~ Running(c)
            /\ status' = [status EXCEPT ![b] = "running"]
            /\ since' = [since EXCEPT ![b] = source]
            /\ UNCHANGED <<source, product>>

\* One artifact at a time changes, only while a build runs.
Touch == \/ UNCHANGED product
         \/ \E a \in Artifact, v \in (0 .. source) \cup {Unusable} :
              product' = [product EXCEPT ![a] = v]

Work(b) == /\ Running(b)
           /\ Touch
           /\ UNCHANGED <<source, since, status>>

Fail(b) == /\ Running(b)
           /\ status' = [status EXCEPT ![b] = "failed"]
           /\ Touch
           /\ UNCHANGED <<source, since>>

Succeed(b) == /\ Running(b)
              /\ \A a \in Artifact : product[a] >= since[b]
              /\ status' = [status EXCEPT ![b] = "ok"]
              /\ UNCHANGED <<source, product, since>>

Next == Edit \/ \E b \in Builders : Begin(b) \/ Work(b) \/ Fail(b) \/ Succeed(b)

Spec == Init /\ [][Next]_vars
=============================================================================
