---------------------------- MODULE ReleaseLedger ----------------------------
(***************************************************************************)
(* What the release workflow promises to whoever downloads a release: a    *)
(* version is tagged once and published once, a published version was      *)
(* built from the commit its tag names, and neither is ever changed.       *)
(***************************************************************************)

VARIABLES
  tag,       \* version -> the commit tagged with it
  published  \* version -> the commit its assets were built from

\* f with k mapped to x.
Put(f, k, x) ==
  [v \in DOMAIN f \cup {k} |-> IF v = k THEN x ELSE f[v]]

Nothing == [v \in {} |-> v]

Init == tag = Nothing /\ published = Nothing

Tag ==
  /\ \E v \in DOMAIN tag' \ DOMAIN tag : tag' = Put(tag, v, tag'[v])
  /\ UNCHANGED published

Publish ==
  /\ \E v \in DOMAIN tag \ DOMAIN published :
       published' = Put(published, v, tag[v])
  /\ UNCHANGED tag

Next == Tag \/ Publish

Spec == Init /\ [][Next]_<<tag, published>>
=============================================================================
