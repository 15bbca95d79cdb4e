--------------------------- MODULE ReleaseWorkflow ---------------------------
(***************************************************************************)
(* .github/workflows/release.yaml: a dispatch bumps VERSION in a commit    *)
(* made through the API, moves the branch to it, tags it, and builds,      *)
(* gates, packages and publishes the tag.                                  *)
(*                                                                         *)
(* Branches, tags and releases belong to GitHub; every API call of a run   *)
(* is a step, between which developers push, other runs act, and the run   *)
(* itself may be cancelled by the next dispatch on its ref.  A call may    *)
(* fail, or do its work and lose the answer.                               *)
(***************************************************************************)
EXTENDS Naturals, Sequences

CONSTANTS
  Refs,        \* branches a run can be dispatched on
  Runs,        \* runs GitHub keeps at a time (a finished one is reused)
  Bumps,       \* the inputs offered: subset of {"none", "patch", "minor",
               \* "major", "stable"}
  Labels,      \* subset of {"no", "alpha", "beta", "rc"}
  FirstVersion,\* VERSION of the first commit
  Faults,      \* may a job fail, or an answer be lost, at any step?
  MaxCommits   \* bound on the commits of all branches

Version == [base : Nat \X Nat \X Nat, pre : {"no", "alpha", "beta", "rc"}, num : Nat]

ASSUME WorkflowConstants ==
  /\ Refs # {} /\ Bumps # {} /\ Labels # {}
  /\ Bumps \subseteq {"none", "patch", "minor", "major", "stable"}
  /\ Labels \subseteq {"no", "alpha", "beta", "rc"}
  /\ FirstVersion \in Version
  /\ Faults \in BOOLEAN
  /\ MaxCommits \in Nat \ {0}

VARIABLES
  commits,  \* commits in the order they were made: version and ancestors
  branch,   \* [Refs -> commit]
  tag,      \* version -> commit
  published,\* version -> commit its assets were built from
  run       \* [Runs -> run]

vars == <<commits, branch, tag, published, run>>

Live == {"prepare", "tag", "windows", "release", "publish"}
Over == {"free", "failed", "cancelled", "published"}

Commit == [version : Version, past : SUBSET (1 .. MaxCommits)]
Id == 0 .. MaxCommits

Run == [pc : Live \cup Over \cup {"pending"},
        ref : Refs, sha : Id, bump : Bumps, pre : Labels,
        version : Version, commit : Id,
        prepared : BOOLEAN, cancel : BOOLEAN]

TypeOK ==
  /\ commits \in Seq(Commit) /\ Len(commits) \in 1 .. MaxCommits
  /\ branch \in [Refs -> 1 .. Len(commits)]
  /\ \A v \in DOMAIN tag : v \in Version /\ tag[v] \in 1 .. Len(commits)
  /\ \A v \in DOMAIN published : published[v] \in 1 .. Len(commits)
  /\ run \in [Runs -> Run]

Put(f, k, x) == [v \in DOMAIN f \cup {k} |-> IF v = k THEN x ELSE f[v]]
Nothing == [v \in {} |-> v]

NoRun ==
  [pc |-> "free", ref |-> CHOOSE f \in Refs : TRUE, sha |-> 0,
   bump |-> CHOOSE b \in Bumps : TRUE, pre |-> CHOOSE l \in Labels : TRUE,
   version |-> FirstVersion, commit |-> 0,
   prepared |-> FALSE, cancel |-> FALSE]

Init ==
  /\ commits = <<[version |-> FirstVersion, past |-> {1}]>>
  /\ branch = [f \in Refs |-> 1]
  /\ tag = Nothing
  /\ published = Nothing
  /\ run = [r \in Runs |-> NoRun]

-----------------------------------------------------------------------------
(* The version a run computes from VERSION and its inputs.                  *)

ValidInputs(current, bump, pre) ==
  /\ ~ (bump = "none" /\ pre = "no")
  /\ bump = "stable" => current.pre # "no"

Bumped(base, bump) ==
  CASE bump = "major" -> <<base[1] + 1, 0, 0>>
    [] bump = "minor" -> <<base[1], base[2] + 1, 0>>
    [] bump = "patch" -> <<base[1], base[2], base[3] + 1>>
    [] OTHER -> base

NewVersion(current, bump, pre) ==
  LET base == Bumped(current.base, bump)
      suffixed(label, n) == [base |-> base, pre |-> label, num |-> n]
  IN  IF bump = "stable" \/ pre = "no" THEN suffixed("no", 0)
      ELSE IF bump = "none" /\ current.pre = pre
      THEN suffixed(pre, current.num + 1)
      ELSE suffixed(pre, 1)

-----------------------------------------------------------------------------
(* GitHub: pushes, dispatches and the concurrency group of a ref.           *)

Push(f) ==
  /\ Len(commits) < MaxCommits
  /\ LET new == Len(commits) + 1
         tip == commits[branch[f]]
     IN  /\ commits' = Append(commits, [tip EXCEPT !.past = @ \cup {new}])
         /\ branch' = [branch EXCEPT ![f] = new]
  /\ UNCHANGED <<tag, published, run>>

\* r joins the queue of its ref: a pending run there gives way at once, a
\* running one is told to stop (cancel-in-progress).
Queue(r, entry) ==
  run' = [q \in Runs |->
            IF q = r THEN entry
            ELSE IF run[q].ref # entry.ref THEN run[q]
            ELSE IF run[q].pc = "pending" THEN [run[q] EXCEPT !.pc = "cancelled"]
            ELSE IF run[q].pc \in Live THEN [run[q] EXCEPT !.cancel = TRUE]
            ELSE run[q]]

Dispatch(r) ==
  /\ run[r].pc \in Over
  /\ \E f \in Refs, b \in Bumps, l \in Labels :
       Queue(r, [NoRun EXCEPT
         !.pc = "pending", !.ref = f, !.sha = branch[f], !.bump = b, !.pre = l])
  /\ UNCHANGED <<commits, branch, tag, published>>

\* "Re-run failed jobs", or "re-run all jobs": github.sha stays what it was.
Rerun(r) ==
  /\ run[r].pc \in Over \ {"free"}
  /\ \E all \in BOOLEAN :
       /\ run[r].pc = "published" => all
       /\ Queue(r, [run[r] EXCEPT !.pc = "pending", !.cancel = FALSE,
                                  !.prepared = @ /\ ~ all])
  /\ UNCHANGED <<commits, branch, tag, published>>

Begin(r) ==
  /\ run[r].pc = "pending"
  /\ \A q \in Runs : run[q].ref = run[r].ref => run[q].pc \notin Live
  /\ run' = [run EXCEPT ![r].pc = IF run[r].prepared THEN "windows" ELSE "prepare"]
  /\ UNCHANGED <<commits, branch, tag, published>>

Cancelled(r) ==
  /\ run[r].pc \in Live
  /\ run[r].cancel
  /\ run' = [run EXCEPT ![r].pc = "cancelled"]
  /\ UNCHANGED <<commits, branch, tag, published>>

\* Any command of a job fails.
JobFails(r) ==
  /\ Faults
  /\ run[r].pc \in Live
  /\ run' = [run EXCEPT ![r].pc = "failed"]
  /\ UNCHANGED <<commits, branch, tag, published>>

\* What becomes of r when a call succeeded; an answer that is lost fails the job.
Step(r, next) ==
  \/ run' = [run EXCEPT ![r] = next]
  \/ Faults /\ run' = [run EXCEPT ![r].pc = "failed"]

-----------------------------------------------------------------------------
(* prepare-version.                                                         *)

Current(r) == commits[run[r].sha].version
ReleaseVersion(r) == NewVersion(Current(r), run[r].bump, run[r].pre)

\* PATCH without force: the new commit, a child of github.sha, must descend
\* from the tip.
FastForward(r) == branch[run[r].ref] \in commits[run[r].sha].past

ReleaseCommit(r) ==
  [version |-> ReleaseVersion(r),
   past |-> commits[run[r].sha].past \cup {Len(commits) + 1}]

\* Slip: the PATCH is forced.
MoveBranchForced(r) ==
  /\ run[r].pc = "prepare"
  /\ ValidInputs(Current(r), run[r].bump, run[r].pre)
  /\ Len(commits) < MaxCommits
  /\ commits' = Append(commits, ReleaseCommit(r))
  /\ branch' = [branch EXCEPT ![run[r].ref] = Len(commits) + 1]
  /\ Step(r, [run[r] EXCEPT !.pc = "tag", !.version = ReleaseVersion(r),
                            !.commit = Len(commits) + 1])
  /\ UNCHANGED <<tag, published>>

\* Slip: a PATCH that is refused is not noticed.
MoveBranchUnchecked(r) ==
  /\ run[r].pc = "prepare"
  /\ ValidInputs(Current(r), run[r].bump, run[r].pre)
  /\ Len(commits) < MaxCommits
  /\ commits' = Append(commits, ReleaseCommit(r))
  /\ branch' = [branch EXCEPT ![run[r].ref] =
                  IF FastForward(r) THEN Len(commits) + 1 ELSE @]
  /\ Step(r, [run[r] EXCEPT !.pc = "tag", !.version = ReleaseVersion(r),
                            !.commit = Len(commits) + 1])
  /\ UNCHANGED <<tag, published>>

MoveBranch(r) ==
  /\ run[r].pc = "prepare"
  /\ ValidInputs(Current(r), run[r].bump, run[r].pre)
  /\ FastForward(r)
  /\ Len(commits) < MaxCommits
  /\ commits' = Append(commits, ReleaseCommit(r))
  /\ branch' = [branch EXCEPT ![run[r].ref] = Len(commits) + 1]
  /\ Step(r, [run[r] EXCEPT !.pc = "tag", !.version = ReleaseVersion(r),
                            !.commit = Len(commits) + 1])
  /\ UNCHANGED <<tag, published>>

PrepareRefused(r) ==
  /\ run[r].pc = "prepare"
  /\ \/ ~ ValidInputs(Current(r), run[r].bump, run[r].pre)
     \/ ~ FastForward(r)
     \/ Len(commits) = MaxCommits
  /\ run' = [run EXCEPT ![r].pc = "failed"]
  /\ UNCHANGED <<commits, branch, tag, published>>

\* POST git/refs is refused when the tag exists.
CreateTag(r) ==
  /\ run[r].pc = "tag"
  /\ run[r].version \notin DOMAIN tag
  /\ tag' = Put(tag, run[r].version, run[r].commit)
  /\ Step(r, [run[r] EXCEPT !.pc = "windows", !.commit = 0, !.prepared = TRUE])
  /\ UNCHANGED <<commits, branch, published>>

TagExists(r) ==
  /\ run[r].pc = "tag"
  /\ run[r].version \in DOMAIN tag
  /\ run' = [run EXCEPT ![r].pc = "failed"]
  /\ UNCHANGED <<commits, branch, tag, published>>

-----------------------------------------------------------------------------
(* build-v3ke-windows and release.                                          *)

BuildWindows(r) ==
  /\ run[r].pc = "windows"
  /\ run' = [run EXCEPT ![r].pc = "release"]
  /\ UNCHANGED <<commits, branch, tag, published>>

\* Slip: the ref of the dispatch is checked out.
BuildTheRef(r) ==
  /\ run[r].pc = "release"
  /\ run' = [run EXCEPT ![r].pc = "publish", ![r].commit = branch[run[r].ref]]
  /\ UNCHANGED <<commits, branch, tag, published>>

\* Slip: the output that names the tag is not passed on.
BuildNothing(r) ==
  /\ run[r].pc = "release"
  /\ run' = [run EXCEPT ![r].pc = "publish"]
  /\ UNCHANGED <<commits, branch, tag, published>>

\* Checkout of the tag, submodule gate, pinned image, two builds that agree,
\* the build that is packaged, summed and signed: all on the runner's disk.
Build(r) ==
  /\ run[r].pc = "release"
  /\ run' = [run EXCEPT ![r].pc = "publish", ![r].commit = tag[run[r].version]]
  /\ UNCHANGED <<commits, branch, tag, published>>

\* The two builds differ.
BuildDiverges(r) ==
  /\ run[r].pc = "release"
  /\ run' = [run EXCEPT ![r].pc = "failed"]
  /\ UNCHANGED <<commits, branch, tag, published>>

\* gh release create.
Publish(r) ==
  /\ run[r].pc = "publish"
  /\ run[r].version \notin DOMAIN published
  /\ published' = Put(published, run[r].version, run[r].commit)
  /\ Step(r, [run[r] EXCEPT !.pc = "published"])
  /\ UNCHANGED <<commits, branch, tag>>

ReleaseExists(r) ==
  /\ run[r].pc = "publish"
  /\ run[r].version \in DOMAIN published
  /\ run' = [run EXCEPT ![r].pc = "failed"]
  /\ UNCHANGED <<commits, branch, tag, published>>

Next ==
  \/ \E f \in Refs : Push(f)
  \/ \E r \in Runs :
       \/ Dispatch(r) \/ Rerun(r) \/ Begin(r) \/ Cancelled(r) \/ JobFails(r)
       \/ MoveBranch(r) \/ PrepareRefused(r) \/ CreateTag(r) \/ TagExists(r)
       \/ BuildWindows(r) \/ Build(r) \/ BuildDiverges(r)
       \/ Publish(r) \/ ReleaseExists(r)

Spec == Init /\ [][Next]_vars

-----------------------------------------------------------------------------
(* Properties.                                                              *)

\* No release, however it races with pushes, other releases and re-runs,
\* takes a commit off a branch.
TipsOnlyAdvance ==
  [][\A f \in Refs : branch[f] \in commits'[branch'[f]].past]_vars

\* A tag names a commit that is on a branch and whose VERSION is the tag's,
\* also when the run that made it died right after.
TagsAreOnBranches ==
  \A v \in DOMAIN tag :
    /\ commits[tag[v]].version = v
    /\ \E f \in Refs : tag[v] \in commits[branch[f]].past

\* Versions are tagged once, published once, from the tag's commit, for good.
Ledger == INSTANCE ReleaseLedger
KeepsLedger == Ledger!Spec

\* Precedence of semantic versions.
Rank(label) == CASE label = "alpha" -> 1 [] label = "beta" -> 2
                 [] label = "rc" -> 3 [] OTHER -> 4
Key(v) == <<v.base[1], v.base[2], v.base[3], Rank(v.pre), v.num>>
Less(v, w) ==
  \E i \in 1 .. 5 : /\ Key(v)[i] < Key(w)[i]
                    /\ \A j \in 1 .. i - 1 : Key(v)[j] = Key(w)[j]

\* A release moves VERSION forward, but for the one combination of inputs that
\* NoneOnlyCounts is about: no bump, and another label than VERSION has.
Releases(r) ==
  /\ run[r].pc = "prepare" /\ run'[r].pc # "prepare"
  /\ branch'[run[r].ref] # branch[run[r].ref]
VersionsAdvance ==
  [][\A r \in Runs :
       Releases(r) /\ (run[r].bump # "none" \/ run[r].pre = Current(r).pre) =>
         Less(Current(r), commits'[branch'[run[r].ref]].version)]_vars

\* '"none" only increments the prerelease counter': it starts another series
\* when the label differs, which takes 0.2.0 back to 0.2.0-rc.1.
NoneOnlyCounts ==
  \A r \in Runs : run[r].pc = "tag" /\ run[r].bump = "none" =>
    run[r].version = [Current(r) EXCEPT !.num = @ + 1]
=============================================================================
