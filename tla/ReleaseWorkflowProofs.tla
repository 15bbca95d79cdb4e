------------------------ MODULE ReleaseWorkflowProofs ------------------------
(***************************************************************************)
(* The release workflow keeps the ledger: for any number of runs and       *)
(* branches, whatever is pushed, cancelled, re-run or lost.                *)
(*                                                                         *)
(* The refinement needs to know of a run in the release job that its       *)
(* version is tagged and that what it checked out is what the tag names    *)
(* (Sound); both rest on tags never being moved.  Tags stay on branches    *)
(* and tips advance by the ancestry of commits (History); versions advance *)
(* by what NewVersion does to each valid bump.                             *)
(***************************************************************************)
EXTENDS ReleaseWorkflow, TLAPS

\* What holds of a run e when there are n commits and the tags are t: it was
\* dispatched on a commit; only a run whose first job succeeded has a tag and
\* builds; and what it packages and publishes was checked out from that tag.
Sound(e, n, t) ==
  /\ e \in Run
  /\ e.pc # "free" => e.sha \in 1 .. n
  /\ e.pc = "tag" => e.version \in Version /\ e.commit \in 1 .. n
  /\ e.prepared => e.version \in DOMAIN t
  /\ e.pc \in {"prepare", "tag"} => ~ e.prepared
  /\ e.pc \in {"windows", "release", "publish"} => e.prepared
  /\ e.pc = "publish" => e.commit = t[e.version]

IInv == TypeOK /\ \A r \in Runs : Sound(run[r], Len(commits), tag)

-----------------------------------------------------------------------------
(* Versions and runs.                                                       *)

\* A bump of a version is a version.
LEMMA NewVersionType ==
  ASSUME NEW current \in Version, NEW bump, NEW pre \in Labels
  PROVE  NewVersion(current, bump, pre) \in Version
  <1>1. Bumped(current.base, bump) \in Nat \X Nat \X Nat
    BY DEF Bumped, Version
  <1>2. pre \in {"no", "alpha", "beta", "rc"} /\ current.num + 1 \in Nat
    BY WorkflowConstants DEF Version
  <1>3. QED
    BY <1>1, <1>2 DEF NewVersion, Version

LEMMA NoRunType == NoRun \in Run
  BY WorkflowConstants DEF NoRun, Run, Over, Id

\* More commits and more tags leave a run sound, as long as no tag moves.
LEMMA SoundGrows ==
  ASSUME NEW e, NEW n \in Nat, NEW m \in Nat, n <= m, NEW t, NEW u,
         DOMAIN t \subseteq DOMAIN u, \A v \in DOMAIN t : u[v] = t[v],
         Sound(e, n, t)
  PROVE  Sound(e, m, u)
  BY DEF Sound, Run

\* So does stopping it, or telling it to stop.
LEMMA SoundStops ==
  ASSUME NEW e, NEW n \in Nat, NEW t, Sound(e, n, t), e.pc # "free"
  PROVE  /\ Sound([e EXCEPT !.pc = "failed"], n, t)
         /\ Sound([e EXCEPT !.pc = "cancelled"], n, t)
         /\ Sound([e EXCEPT !.cancel = TRUE], n, t)
  BY DEF Sound, Run, Over

\* Joining a queue keeps the runs sound.
LEMMA QueueSound ==
  ASSUME NEW n \in Nat, NEW t, NEW r \in Runs, NEW entry, Sound(entry, n, t),
         run \in [Runs -> Run], \A q \in Runs : Sound(run[q], n, t), Queue(r, entry)
  PROVE  /\ run' \in [Runs -> Run]
         /\ \A q \in Runs : Sound(run'[q], n, t)
  <1>1. ASSUME NEW q \in Runs PROVE Sound(run'[q], n, t)
    <2>1. CASE q # r /\ run[q].ref = entry.ref /\ run[q].pc = "pending"
      <3>1. run'[q] = [run[q] EXCEPT !.pc = "cancelled"] /\ run[q].pc # "free"
        BY <2>1 DEF Queue
      <3>2. Sound([run[q] EXCEPT !.pc = "cancelled"], n, t)
        BY <3>1, SoundStops
      <3>3. QED
        BY <3>1, <3>2
    <2>2. CASE q # r /\ run[q].ref = entry.ref /\ run[q].pc \in Live
      <3>1. run'[q] = [run[q] EXCEPT !.cancel = TRUE] /\ run[q].pc # "free"
        BY <2>2 DEF Queue, Live
      <3>2. Sound([run[q] EXCEPT !.cancel = TRUE], n, t)
        BY <3>1, SoundStops
      <3>3. QED
        BY <3>1, <3>2
    <2>3. CASE q = r
      BY <2>3 DEF Queue
    <2>4. CASE /\ q # r
               /\ \/ run[q].ref # entry.ref
                  \/ run[q].pc # "pending" /\ run[q].pc \notin Live
      BY <2>4 DEF Queue
    <2>5. QED
      BY <2>1, <2>2, <2>3, <2>4
  <1>2. run' \in [Runs -> Run]
    <2>1. \A q \in Runs : run'[q] \in Run
      BY <1>1 DEF Sound
    <2>2. QED
      BY <2>1 DEF Queue
  <1>3. QED
    BY <1>1, <1>2

\* So does moving one run on.
LEMMA RunSound ==
  ASSUME NEW n \in Nat, NEW t, NEW r \in Runs, NEW next, Sound(next, n, t),
         run \in [Runs -> Run], \A q \in Runs : Sound(run[q], n, t),
         run' = [run EXCEPT ![r] = next]
  PROVE  /\ run' \in [Runs -> Run]
         /\ \A q \in Runs : Sound(run'[q], n, t)
  BY DEF Sound

\* And a call whose answer may be lost.
LEMMA StepSound ==
  ASSUME NEW n \in Nat, NEW t, NEW r \in Runs, NEW next, Sound(next, n, t),
         run \in [Runs -> Run], \A q \in Runs : Sound(run[q], n, t),
         run[r].pc # "free", Step(r, next)
  PROVE  /\ run' \in [Runs -> Run]
         /\ \A q \in Runs : Sound(run'[q], n, t)
  <1>1. CASE run' = [run EXCEPT ![r] = next]
    BY <1>1, RunSound
  <1>2. CASE run' = [run EXCEPT ![r].pc = "failed"]
    <2>1. Sound([run[r] EXCEPT !.pc = "failed"], n, t)
      BY SoundStops
    <2>2. run' = [run EXCEPT ![r] = [run[r] EXCEPT !.pc = "failed"]]
      BY <1>2
    <2>3. QED
      BY <2>1, <2>2, RunSound
  <1>3. QED
    BY <1>1, <1>2 DEF Step

-----------------------------------------------------------------------------
(* The invariant is inductive.                                              *)

LEMMA InvInit == Init => IInv
  <1> SUFFICES ASSUME Init PROVE IInv
    OBVIOUS
  <1>1. [version |-> FirstVersion, past |-> {1}] \in Commit
    BY WorkflowConstants DEF Commit
  <1>2. commits \in Seq(Commit) /\ Len(commits) = 1
    BY <1>1 DEF Init
  <1>3. TypeOK
    BY <1>2, NoRunType, WorkflowConstants DEF Init, TypeOK, Nothing
  <1>4. ASSUME NEW r \in Runs PROVE Sound(run[r], Len(commits), tag)
    BY NoRunType DEF Init, Sound, NoRun
  <1>5. QED
    BY <1>3, <1>4 DEF IInv

\* Steps that change only runs.
LEMMA RunsOnly ==
  ASSUME IInv, UNCHANGED <<commits, branch, tag, published>>,
         run' \in [Runs -> Run],
         \A r \in Runs : Sound(run'[r], Len(commits), tag)
  PROVE  IInv'
  BY DEF IInv, TypeOK

\* Steps that stop a run.
LEMMA Stops ==
  ASSUME IInv, UNCHANGED <<commits, branch, tag, published>>, NEW r \in Runs,
         run[r].pc # "free",
         \/ run' = [run EXCEPT ![r].pc = "failed"]
         \/ run' = [run EXCEPT ![r].pc = "cancelled"]
  PROVE  IInv'
  <1> DEFINE n == Len(commits)
  <1>1. n \in Nat /\ run \in [Runs -> Run] /\ \A q \in Runs : Sound(run[q], n, tag)
    BY DEF IInv, TypeOK
  <1>2. PICK next : Sound(next, n, tag) /\ run' = [run EXCEPT ![r] = next]
    <2>1. /\ Sound([run[r] EXCEPT !.pc = "failed"], n, tag)
          /\ Sound([run[r] EXCEPT !.pc = "cancelled"], n, tag)
      BY <1>1, SoundStops
    <2>2. CASE run' = [run EXCEPT ![r].pc = "failed"]
      <3>1. run' = [run EXCEPT ![r] = [run[r] EXCEPT !.pc = "failed"]]
        BY <2>2
      <3>2. QED
        BY <2>1, <3>1
    <2>3. CASE run' = [run EXCEPT ![r].pc = "cancelled"]
      <3>1. run' = [run EXCEPT ![r] = [run[r] EXCEPT !.pc = "cancelled"]]
        BY <2>3
      <3>2. QED
        BY <2>1, <3>1
    <2>4. QED
      BY <2>2, <2>3
  <1>3. run' \in [Runs -> Run] /\ \A q \in Runs : Sound(run'[q], n, tag)
    BY <1>1, <1>2, RunSound
  <1>4. QED
    BY <1>3, RunsOnly

\* Steps that add a commit and move a branch to it.
LEMMA CommitStep ==
  ASSUME IInv, NEW f \in Refs, NEW c \in Commit, Len(commits) < MaxCommits,
         commits' = Append(commits, c),
         branch' = [branch EXCEPT ![f] = Len(commits) + 1],
         UNCHANGED <<tag, published>>, run' \in [Runs -> Run],
         \A r \in Runs : Sound(run'[r], Len(commits) + 1, tag)
  PROVE  IInv'
  <1>1. commits' \in Seq(Commit) /\ Len(commits') = Len(commits) + 1 /\ Len(commits) \in Nat
    BY DEF IInv, TypeOK
  <1>2. branch' \in [Refs -> 1 .. Len(commits')]
    BY <1>1 DEF IInv, TypeOK
  <1>3. \A v \in DOMAIN tag : v \in Version /\ tag[v] \in 1 .. Len(commits')
    BY <1>1 DEF IInv, TypeOK
  <1>4. \A v \in DOMAIN published : published[v] \in 1 .. Len(commits')
    BY <1>1 DEF IInv, TypeOK
  <1>5. Len(commits') \in 1 .. MaxCommits
    BY <1>1, WorkflowConstants
  <1>6. QED
    BY <1>1, <1>2, <1>3, <1>4, <1>5 DEF IInv, TypeOK

\* The runs stay sound when a commit is added.
LEMMA SoundWithCommit ==
  ASSUME IInv
  PROVE  \A r \in Runs : Sound(run[r], Len(commits) + 1, tag)
  <1>1. Len(commits) \in Nat
    BY DEF IInv, TypeOK
  <1>2. QED
    BY <1>1, SoundGrows DEF IInv

LEMMA InvPush ==
  ASSUME IInv, NEW f \in Refs, Push(f)
  PROVE  IInv'
  <1>1. Len(commits) \in 0 .. MaxCommits /\ commits \in Seq(Commit) /\ branch[f] \in 1 .. Len(commits)
    BY DEF IInv, TypeOK
  <1>2. commits[branch[f]] \in Commit /\ Len(commits) + 1 \in 1 .. MaxCommits
    BY <1>1, WorkflowConstants DEF Push
  <1>3. [commits[branch[f]] EXCEPT !.past = @ \cup {Len(commits) + 1}] \in Commit
    BY <1>2 DEF Commit
  <1>4. run' = run /\ run \in [Runs -> Run]
    BY DEF Push, IInv, TypeOK
  <1>5. QED
    BY <1>3, <1>4, CommitStep, SoundWithCommit DEF Push

LEMMA InvDispatch ==
  ASSUME IInv, NEW r \in Runs, Dispatch(r)
  PROVE  IInv'
  <1>1. PICK f \in Refs, b \in Bumps, l \in Labels :
          Queue(r, [NoRun EXCEPT !.pc = "pending", !.ref = f, !.sha = branch[f],
                                 !.bump = b, !.pre = l])
    BY DEF Dispatch
  <1> DEFINE entry == [NoRun EXCEPT !.pc = "pending", !.ref = f, !.sha = branch[f],
                                    !.bump = b, !.pre = l]
  <1>2. branch[f] \in 1 .. Len(commits) /\ Len(commits) \in Nat /\ Len(commits) <= MaxCommits
    BY WorkflowConstants DEF IInv, TypeOK
  <1>3. branch[f] \in Id
    BY <1>2, WorkflowConstants DEF Id
  <1>4. entry \in Run /\ entry.pc = "pending" /\ entry.sha = branch[f] /\ ~ entry.prepared
    BY <1>3, NoRunType DEF Run, NoRun
  <1>5. Sound(entry, Len(commits), tag)
    BY <1>2, <1>4 DEF Sound
  <1>6. run' \in [Runs -> Run] /\ \A q \in Runs : Sound(run'[q], Len(commits), tag)
    BY <1>1, <1>2, <1>5, QueueSound DEF IInv, TypeOK
  <1>7. QED
    BY <1>6, RunsOnly DEF Dispatch

LEMMA InvRerun ==
  ASSUME IInv, NEW r \in Runs, Rerun(r)
  PROVE  IInv'
  <1>1. PICK all \in BOOLEAN :
          Queue(r, [run[r] EXCEPT !.pc = "pending", !.cancel = FALSE,
                                  !.prepared = @ /\ ~ all])
    BY DEF Rerun
  <1> DEFINE entry == [run[r] EXCEPT !.pc = "pending", !.cancel = FALSE,
                                     !.prepared = @ /\ ~ all]
  <1>2. Sound(run[r], Len(commits), tag) /\ run[r].pc # "free" /\ Len(commits) \in Nat
    BY DEF IInv, TypeOK, Rerun
  <1>3. run[r].prepared \in BOOLEAN /\ entry.pc = "pending" /\ entry.sha = run[r].sha
        /\ entry.version = run[r].version
    BY <1>2 DEF Sound, Run
  <1>4. entry.prepared => run[r].prepared
    BY <1>2 DEF Sound, Run
  <1>5. entry \in Run
    BY <1>2 DEF Sound, Run
  <1>6. Sound(entry, Len(commits), tag)
    BY <1>2, <1>3, <1>4, <1>5 DEF Sound
  <1>7. run' \in [Runs -> Run] /\ \A q \in Runs : Sound(run'[q], Len(commits), tag)
    BY <1>1, <1>2, <1>6, QueueSound DEF IInv, TypeOK
  <1>8. QED
    BY <1>7, RunsOnly DEF Rerun

LEMMA InvBegin ==
  ASSUME IInv, NEW r \in Runs, Begin(r)
  PROVE  IInv'
  <1> DEFINE next == [run[r] EXCEPT !.pc = IF run[r].prepared THEN "windows" ELSE "prepare"]
  <1>1. Sound(run[r], Len(commits), tag) /\ Len(commits) \in Nat /\ run[r].pc = "pending"
    BY DEF IInv, TypeOK, Begin
  <1>2. Sound(next, Len(commits), tag)
    BY <1>1 DEF Sound, Run, Live
  <1>3. run' = [run EXCEPT ![r] = next]
    BY DEF Begin
  <1>4. run' \in [Runs -> Run] /\ \A q \in Runs : Sound(run'[q], Len(commits), tag)
    BY <1>1, <1>2, <1>3, RunSound DEF IInv, TypeOK
  <1>5. QED
    BY <1>4, RunsOnly DEF Begin

LEMMA InvMoveBranch ==
  ASSUME IInv, NEW r \in Runs, MoveBranch(r)
  PROVE  IInv'
  <1> DEFINE n == Len(commits)
             next == [run[r] EXCEPT !.pc = "tag", !.version = ReleaseVersion(r),
                                    !.commit = n + 1]
  <1>1. /\ n \in Nat /\ n < MaxCommits /\ run \in [Runs -> Run]
        /\ commits \in Seq(Commit)
        /\ Sound(run[r], n, tag) /\ run[r].pc = "prepare"
    BY DEF IInv, TypeOK, MoveBranch
  <1>2. run[r].sha \in 1 .. n /\ run[r] \in Run /\ ~ run[r].prepared
    BY <1>1 DEF Sound
  <1>3. commits[run[r].sha] \in Commit
    BY <1>1, <1>2
  <1>4. ReleaseVersion(r) \in Version
    BY <1>2, <1>3, NewVersionType DEF ReleaseVersion, Current, Commit, Run
  <1>5. n + 1 \in 1 .. MaxCommits
    BY <1>1, WorkflowConstants
  <1>6. ReleaseCommit(r) \in Commit
    BY <1>3, <1>4, <1>5 DEF ReleaseCommit, Commit
  <1>7. next \in Run /\ next.pc = "tag" /\ next.version = ReleaseVersion(r)
        /\ next.commit = n + 1 /\ next.sha = run[r].sha /\ ~ next.prepared
    <2>1. n + 1 \in Id /\ "tag" \in Live
      BY <1>5, WorkflowConstants DEF Live, Id
    <2> HIDE DEF n
    <2>2. QED
      BY <1>2, <1>4, <2>1 DEF Run
  <1>8. Sound(next, n + 1, tag)
    BY <1>1, <1>2, <1>4, <1>7 DEF Sound
  <1>9. run' \in [Runs -> Run] /\ \A q \in Runs : Sound(run'[q], n + 1, tag)
    <2>1. \A q \in Runs : Sound(run[q], n + 1, tag)
      BY SoundWithCommit
    <2>2. n + 1 \in Nat /\ Step(r, next) /\ run[r].pc # "free"
      BY <1>1 DEF MoveBranch
    <2>3. QED
      BY <1>1, <1>8, <2>1, <2>2, StepSound
  <1>10. run[r].ref \in Refs
    BY <1>2 DEF Run
  <1>11. QED
    BY <1>6, <1>9, <1>10, CommitStep DEF MoveBranch

LEMMA InvCreateTag ==
  ASSUME IInv, NEW r \in Runs, CreateTag(r)
  PROVE  IInv'
  <1> DEFINE n == Len(commits)
             v == run[r].version
             next == [run[r] EXCEPT !.pc = "windows", !.commit = 0, !.prepared = TRUE]
  <1>1. /\ n \in Nat /\ run \in [Runs -> Run]
        /\ Sound(run[r], n, tag) /\ run[r].pc = "tag"
    BY DEF IInv, TypeOK, CreateTag
  <1>2. v \in Version /\ run[r].commit \in 1 .. n /\ run[r] \in Run /\ run[r].sha \in 1 .. n
    BY <1>1 DEF Sound
  <1>3. /\ DOMAIN tag' = DOMAIN tag \cup {v} /\ tag'[v] = run[r].commit
        /\ \A w \in DOMAIN tag : tag'[w] = tag[w]
    BY DEF CreateTag, Put
  <1>4. \A q \in Runs : Sound(run[q], n, tag')
    BY <1>1, <1>3, SoundGrows DEF IInv
  <1>5. next \in Run /\ next.pc = "windows" /\ next.version = v /\ next.prepared
        /\ next.sha = run[r].sha
    <2>1. 0 \in Id /\ "windows" \in Live
      BY WorkflowConstants DEF Live, Id
    <2>2. QED
      BY <1>2, <2>1 DEF Run
  <1>6. Sound(next, n, tag')
    BY <1>2, <1>3, <1>5 DEF Sound
  <1>7. Step(r, next) /\ run[r].pc # "free"
    BY <1>1 DEF CreateTag
  <1>8. run' \in [Runs -> Run] /\ \A q \in Runs : Sound(run'[q], n, tag')
    BY <1>1, <1>4, <1>6, <1>7, StepSound
  <1>9. \A w \in DOMAIN tag' : w \in Version /\ tag'[w] \in 1 .. n
    BY <1>2, <1>3 DEF IInv, TypeOK
  <1>10. QED
    BY <1>8, <1>9 DEF IInv, TypeOK, CreateTag

LEMMA InvBuild ==
  ASSUME IInv, NEW r \in Runs, BuildWindows(r) \/ Build(r)
  PROVE  IInv'
  <1> DEFINE n == Len(commits)
  <1>1. n \in Nat /\ n <= MaxCommits /\ run \in [Runs -> Run] /\ Sound(run[r], n, tag)
    BY WorkflowConstants DEF IInv, TypeOK
  <1>2. run[r] \in Run
    BY <1>1 DEF Sound
  <1>3. PICK next : Sound(next, n, tag) /\ run' = [run EXCEPT ![r] = next]
    <2>1. CASE BuildWindows(r)
      <3> DEFINE next == [run[r] EXCEPT !.pc = "release"]
      <3>1. run[r].pc = "windows" /\ run' = [run EXCEPT ![r] = next]
        BY <2>1 DEF BuildWindows
      <3>2. Sound(next, n, tag)
        BY <1>1, <1>2, <3>1 DEF Sound, Run, Live
      <3>3. QED
        BY <3>1, <3>2
    <2>2. CASE Build(r)
      <3> DEFINE next == [run[r] EXCEPT !.pc = "publish", !.commit = tag[run[r].version]]
      <3>1. run' = [run EXCEPT ![r] = next] /\ run[r].pc = "release"
        BY <2>2 DEF Build
      <3>2. run[r].version \in DOMAIN tag
        BY <1>1, <3>1 DEF Sound
      <3>3. tag[run[r].version] \in Id
        <4>1. tag[run[r].version] \in 1 .. n
          BY <3>2 DEF IInv, TypeOK
        <4>2. QED
          BY <1>1, <4>1, WorkflowConstants DEF Id
      <3>4. next \in Run /\ next.pc = "publish" /\ next.version = run[r].version
            /\ next.commit = tag[run[r].version]
            /\ next.prepared = run[r].prepared /\ next.sha = run[r].sha
        BY <1>2, <3>3 DEF Run, Live
      <3>5. Sound(next, n, tag)
        BY <1>1, <3>1, <3>4 DEF Sound
      <3>6. QED
        BY <3>1, <3>5
    <2>3. QED
      BY <2>1, <2>2
  <1>4. run' \in [Runs -> Run] /\ \A q \in Runs : Sound(run'[q], n, tag)
    BY <1>1, <1>3, RunSound DEF IInv
  <1>5. QED
    BY <1>4, RunsOnly DEF BuildWindows, Build

LEMMA InvPublish ==
  ASSUME IInv, NEW r \in Runs, Publish(r)
  PROVE  IInv'
  <1> DEFINE n == Len(commits)
             next == [run[r] EXCEPT !.pc = "published"]
  <1>1. n \in Nat /\ run \in [Runs -> Run] /\ Sound(run[r], n, tag) /\ run[r].pc = "publish"
    BY DEF IInv, TypeOK, Publish
  <1>2. Sound(next, n, tag)
    BY <1>1 DEF Sound, Run, Over
  <1>3. run' \in [Runs -> Run] /\ \A q \in Runs : Sound(run'[q], n, tag)
    <2>1. Step(r, next)
      BY DEF Publish
    <2>2. QED
      BY <1>1, <1>2, <2>1, StepSound DEF IInv
  <1>4. run[r].commit \in 1 .. n
    BY <1>1 DEF Sound, IInv, TypeOK
  <1>5. \A v \in DOMAIN published' : published'[v] \in 1 .. n
    BY <1>4 DEF Publish, Put, IInv, TypeOK
  <1>6. QED
    BY <1>3, <1>5 DEF IInv, TypeOK, Publish

LEMMA InvStop ==
  ASSUME IInv, NEW r \in Runs,
         \/ Cancelled(r) \/ JobFails(r) \/ PrepareRefused(r) \/ TagExists(r)
         \/ BuildDiverges(r) \/ ReleaseExists(r)
  PROVE  IInv'
  <1>1. UNCHANGED <<commits, branch, tag, published>> /\ run[r].pc # "free"
    BY DEF Cancelled, JobFails, PrepareRefused, TagExists, BuildDiverges, ReleaseExists, Live
  <1>2. \/ run' = [run EXCEPT ![r].pc = "failed"]
        \/ run' = [run EXCEPT ![r].pc = "cancelled"]
    BY DEF Cancelled, JobFails, PrepareRefused, TagExists, BuildDiverges, ReleaseExists
  <1>3. QED
    BY <1>1, <1>2, Stops

LEMMA InvStep == IInv /\ [Next]_vars => IInv'
  <1> SUFFICES ASSUME IInv, [Next]_vars PROVE IInv'
    OBVIOUS
  <1>1. CASE UNCHANGED vars
    BY <1>1 DEF IInv, TypeOK, vars
  <1>2. ASSUME NEW f \in Refs, Push(f) PROVE IInv'
    BY <1>2, InvPush
  <1>3. ASSUME NEW r \in Runs,
               \/ Dispatch(r) \/ Rerun(r) \/ Begin(r) \/ Cancelled(r) \/ JobFails(r)
               \/ MoveBranch(r) \/ PrepareRefused(r) \/ CreateTag(r) \/ TagExists(r)
               \/ BuildWindows(r) \/ Build(r) \/ BuildDiverges(r)
               \/ Publish(r) \/ ReleaseExists(r)
        PROVE  IInv'
    BY <1>3, InvDispatch, InvRerun, InvBegin, InvMoveBranch, InvCreateTag, InvBuild,
       InvPublish, InvStop
  <1>4. QED
    BY <1>1, <1>2, <1>3 DEF Next

\* Types and the runs' ties to their tags hold in every reachable state.
THEOREM Invariant == Spec => []IInv
  <1>1. QED
    BY InvInit, InvStep, PTL DEF Spec

\* TypeOK: in particular every tag and every release names a commit that
\* exists, whatever call of release.yaml failed or lost its answer.
THEOREM TypeCorrect == Spec => []TypeOK
  <1>1. IInv => TypeOK
    BY DEF IInv
  <1>2. QED
    BY <1>1, Invariant, PTL

-----------------------------------------------------------------------------
(* The ledger.                                                              *)

LEMMA LedgerInit == Init => Ledger!Init
  BY DEF Init, Nothing, Ledger!Init, Ledger!Nothing

LEMMA LedgerStep ==
  ASSUME IInv, [Next]_vars
  PROVE  [Ledger!Next]_<<tag, published>>
  <1>1. ASSUME NEW r \in Runs, CreateTag(r) PROVE Ledger!Tag
    <2>1. run[r].version \in DOMAIN tag' \ DOMAIN tag
      BY <1>1 DEF CreateTag, Put
    <2>2. tag' = Ledger!Put(tag, run[r].version, tag'[run[r].version])
      BY <1>1 DEF CreateTag, Put, Ledger!Put
    <2>3. QED
      BY <1>1, <2>1, <2>2 DEF CreateTag, Ledger!Tag
  <1>2. ASSUME NEW r \in Runs, Publish(r) PROVE Ledger!Publish
    <2>1. Sound(run[r], Len(commits), tag) /\ run[r].pc = "publish"
      BY <1>2 DEF IInv, Publish
    <2>2. run[r].version \in DOMAIN tag /\ run[r].commit = tag[run[r].version]
      BY <2>1 DEF Sound
    <2>3. published' = Ledger!Put(published, run[r].version, tag[run[r].version])
      BY <1>2, <2>2 DEF Publish, Put, Ledger!Put
    <2>4. QED
      BY <1>2, <2>2, <2>3 DEF Publish, Ledger!Publish
  <1>3. \/ \E r \in Runs : CreateTag(r)
        \/ \E r \in Runs : Publish(r)
        \/ UNCHANGED <<tag, published>>
    BY DEF Next, vars, Push, Dispatch, Rerun, Begin, Cancelled, JobFails, MoveBranch,
           PrepareRefused, TagExists, BuildWindows, Build, BuildDiverges, ReleaseExists
  <1>4. QED
    BY <1>1, <1>2, <1>3 DEF Ledger!Next

\* The workflow implements the ledger: a version is tagged once and published
\* once, from the commit its tag names, and neither is changed after.
THEOREM LedgerKept == Spec => KeepsLedger
  <1>1. IInv /\ [Next]_vars => [Ledger!Next]_<<tag, published>>
    BY LedgerStep
  <1>2. QED
    BY <1>1, LedgerInit, Invariant, PTL DEF Spec, KeepsLedger, Ledger!Spec

-----------------------------------------------------------------------------
(* The branches.                                                            *)

\* The commits form a history: each descends from itself, and from whatever
\* its ancestors descend from.
Ancestry ==
  \A c \in 1 .. Len(commits) :
    /\ c \in commits[c].past
    /\ commits[c].past \subseteq 1 .. c
    /\ \A a \in commits[c].past : commits[a].past \subseteq commits[c].past

OnBranch(c) == \E f \in Refs : c \in commits[branch[f]].past

\* What is tagged, or about to be, is on a branch and carries its version.
Reached ==
  /\ TagsAreOnBranches
  /\ \A r \in Runs : run[r].pc = "tag" =>
       commits[run[r].commit].version = run[r].version /\ OnBranch(run[r].commit)

History == IInv /\ Ancestry /\ Reached

\* A commit with this version is made on top of commit b and f moved to it,
\* which descends from the tip of f.
Grown(f, b, version) ==
  /\ branch[f] \in commits[b].past
  /\ commits' = Append(commits, [version |-> version,
                                 past |-> commits[b].past \cup {Len(commits) + 1}])
  /\ branch' = [branch EXCEPT ![f] = Len(commits) + 1]

\* The commit a push makes.
LEMMA PushedCommit ==
  ASSUME NEW c \in Commit, NEW k
  PROVE  [c EXCEPT !.past = @ \cup {k}] = [version |-> c.version, past |-> c.past \cup {k}]
  BY DEF Commit

\* Pushes and releases are the only steps that touch history, and both grow it.
LEMMA StepGrows ==
  ASSUME History, [Next]_vars
  PROVE  \/ UNCHANGED <<commits, branch>>
         \/ \E f \in Refs, b \in 1 .. Len(commits) :
              Push(f) /\ Grown(f, b, commits[b].version)
         \/ \E r \in Runs, b \in 1 .. Len(commits) :
              /\ run[r].ref \in Refs
              /\ MoveBranch(r) /\ Grown(run[r].ref, b, ReleaseVersion(r))
  <1>1. ASSUME NEW f \in Refs, Push(f)
        PROVE  \E b \in 1 .. Len(commits) : Push(f) /\ Grown(f, b, commits[b].version)
    <2>1. branch[f] \in 1 .. Len(commits) /\ commits \in Seq(Commit)
      BY DEF History, IInv, TypeOK
    <2>2. commits[branch[f]] \in Commit /\ branch[f] \in commits[branch[f]].past
      BY <2>1 DEF History, Ancestry
    <2>3. [commits[branch[f]] EXCEPT !.past = @ \cup {Len(commits) + 1}]
            = [version |-> commits[branch[f]].version,
               past |-> commits[branch[f]].past \cup {Len(commits) + 1}]
      BY <2>2, PushedCommit
    <2>4. commits' = Append(commits, [commits[branch[f]] EXCEPT !.past = @ \cup {Len(commits) + 1}])
          /\ branch' = [branch EXCEPT ![f] = Len(commits) + 1]
      BY <1>1 DEF Push
    <2>5. Grown(f, branch[f], commits[branch[f]].version)
      BY <2>2, <2>3, <2>4 DEF Grown
    <2>6. QED
      BY <1>1, <2>1, <2>5
  <1>2. ASSUME NEW r \in Runs, MoveBranch(r)
        PROVE  \E b \in 1 .. Len(commits) :
                 /\ run[r].ref \in Refs
                 /\ MoveBranch(r) /\ Grown(run[r].ref, b, ReleaseVersion(r))
    <2>1. run[r].sha \in 1 .. Len(commits) /\ run[r] \in Run
      BY <1>2 DEF History, IInv, Sound, MoveBranch
    <2>2. run[r].ref \in Refs
      BY <2>1 DEF Run
    <2>3. Grown(run[r].ref, run[r].sha, ReleaseVersion(r))
      BY <1>2 DEF MoveBranch, Grown, FastForward, ReleaseCommit
    <2>4. QED
      BY <1>2, <2>1, <2>2, <2>3
  <1>3. \/ \E f \in Refs : Push(f)
        \/ \E r \in Runs : MoveBranch(r)
        \/ UNCHANGED <<commits, branch>>
    BY DEF Next, vars, Dispatch, Rerun, Begin, Cancelled, JobFails, PrepareRefused,
           CreateTag, TagExists, BuildWindows, Build, BuildDiverges, Publish,
           ReleaseExists
  <1>4. QED
    BY <1>1, <1>2, <1>3

\* Growing keeps the old commits and what each branch could reach.
LEMMA GrownKeeps ==
  ASSUME History, NEW f \in Refs, NEW b \in 1 .. Len(commits), NEW version,
         Grown(f, b, version)
  PROVE  /\ Ancestry'
         /\ \A c \in 1 .. Len(commits) : commits'[c] = commits[c]
         /\ \A g \in Refs :
              /\ branch[g] \in commits'[branch'[g]].past
              /\ commits[branch[g]].past \subseteq commits'[branch'[g]].past
  <1> DEFINE n == Len(commits)
             c1 == [version |-> version, past |-> commits[b].past \cup {n + 1}]
  <1>1. /\ n \in Nat /\ commits \in Seq(Commit) /\ b \in 1 .. n
        /\ \A g \in Refs : branch[g] \in 1 .. n
        /\ DOMAIN branch = Refs
    BY DEF History, IInv, TypeOK
  <1>2. /\ Len(commits') = n + 1
        /\ \A c \in 1 .. n : commits'[c] = commits[c]
        /\ commits'[n + 1] = c1
    BY <1>1 DEF Grown
  <1>3. /\ c1.past = commits[b].past \cup {n + 1}
        /\ commits[b].past \subseteq 1 .. n
        /\ \A a \in commits[b].past : commits[a].past \subseteq commits[b].past
    BY <1>1 DEF History, Ancestry
  <1> HIDE DEF n, c1
  <1>4. ASSUME NEW c \in 1 .. n + 1
        PROVE  /\ c \in commits'[c].past
               /\ commits'[c].past \subseteq 1 .. c
               /\ \A a \in commits'[c].past : commits'[a].past \subseteq commits'[c].past
    <2>1. CASE c = n + 1
      <3>1. c \in commits'[c].past /\ commits'[c].past \subseteq 1 .. c
        BY <1>1, <1>2, <1>3, <2>1
      <3>2. ASSUME NEW a \in commits'[c].past PROVE commits'[a].past \subseteq commits'[c].past
        <4>1. CASE a = n + 1
          BY <4>1, <2>1
        <4>2. CASE a \in commits[b].past
          <5>1. commits'[a] = commits[a]
            BY <1>2, <1>3, <4>2
          <5>2. QED
            BY <5>1, <1>2, <1>3, <2>1, <4>2
        <4>3. QED
          BY <4>1, <4>2, <1>2, <1>3, <2>1
      <3>3. QED
        BY <3>1, <3>2
    <2>2. CASE c # n + 1
      <3>1. c \in 1 .. n
        BY <1>1, <2>2
      <3>2. /\ c \in commits[c].past
            /\ commits[c].past \subseteq 1 .. c
            /\ \A a \in commits[c].past : commits[a].past \subseteq commits[c].past
        BY <3>1 DEF History, Ancestry, n
      <3>3. \A a \in commits[c].past : commits'[a] = commits[a]
        BY <1>1, <1>2, <3>1, <3>2
      <3>4. QED
        BY <1>2, <3>1, <3>2, <3>3
    <2>3. QED
      BY <2>1, <2>2
  <1>5. ASSUME NEW g \in Refs
        PROVE  /\ branch[g] \in commits'[branch'[g]].past
               /\ commits[branch[g]].past \subseteq commits'[branch'[g]].past
    <2>1. CASE g = f
      <3>1. branch'[g] = n + 1 /\ branch[g] \in commits[b].past
        BY <1>1, <2>1 DEF Grown, n
      <3>2. QED
        BY <3>1, <1>2, <1>3
    <2>2. CASE g # f
      <3>1. branch'[g] = branch[g]
        BY <1>1, <2>2 DEF Grown
      <3>2. branch[g] \in commits[branch[g]].past
        BY <1>1 DEF History, Ancestry, n
      <3>3. QED
        BY <1>1, <1>2, <3>1, <3>2
    <2>3. QED
      BY <2>1, <2>2
  <1>6. Ancestry'
    BY <1>2, <1>4 DEF Ancestry
  <1>7. QED
    BY <1>2, <1>5, <1>6 DEF n

LEMMA HistoryInit == Init => History
  <1> SUFFICES ASSUME Init PROVE History
    OBVIOUS
  <1>1. commits = <<[version |-> FirstVersion, past |-> {1}]>> /\ Len(commits) = 1
    BY DEF Init
  <1>2. Ancestry
    BY <1>1 DEF Ancestry
  <1>3. DOMAIN tag = {} /\ \A r \in Runs : run[r].pc = "free"
    BY DEF Init, Nothing, NoRun
  <1>4. QED
    BY <1>2, <1>3, InvInit DEF History, Reached, TagsAreOnBranches

\* A commit on a branch stays on it, with its VERSION.
LEMMA StaysOnBranch ==
  ASSUME History, [Next]_vars, Ancestry',
         \A c \in 1 .. Len(commits) : commits'[c] = commits[c],
         \A g \in Refs : commits[branch[g]].past \subseteq commits'[branch'[g]].past,
         NEW c \in 1 .. Len(commits), OnBranch(c)
  PROVE  commits'[c].version = commits[c].version /\ OnBranch(c)'
  BY DEF OnBranch

\* A run is about to tag because it has just moved the branch, or was before.
LEMMA AboutToTag ==
  ASSUME IInv, [Next]_vars, NEW r \in Runs, run'[r].pc = "tag"
  PROVE  \/ /\ run[r].pc = "tag"
            /\ run'[r].commit = run[r].commit /\ run'[r].version = run[r].version
         \/ /\ MoveBranch(r)
            /\ run'[r].commit = Len(commits) + 1
            /\ run'[r].version = ReleaseVersion(r)
  <1>1. run \in [Runs -> Run]
    BY DEF IInv, TypeOK
  <1>2. CASE run'[r] = run[r]
    BY <1>2
  <1>3. ASSUME NEW q \in Runs, NEW entry, Queue(q, entry), entry.pc = "pending"
        PROVE  \/ run'[r] = run[r]
               \/ run'[r] = [run[r] EXCEPT !.cancel = TRUE]
    BY <1>1, <1>3 DEF Queue
  <1>4. ASSUME NEW q \in Runs, Dispatch(q) \/ Rerun(q)
        PROVE  \/ run'[r] = run[r]
               \/ run'[r] = [run[r] EXCEPT !.cancel = TRUE]
    <2>1. CASE Dispatch(q)
      <3>1. PICK f \in Refs, b \in Bumps, l \in Labels :
              Queue(q, [NoRun EXCEPT !.pc = "pending", !.ref = f, !.sha = branch[f],
                                     !.bump = b, !.pre = l])
        BY <2>1 DEF Dispatch
      <3>2. QED
        BY <3>1, <1>3, NoRunType DEF Run
    <2>2. CASE Rerun(q)
      <3>1. PICK all \in BOOLEAN :
              Queue(q, [run[q] EXCEPT !.pc = "pending", !.cancel = FALSE,
                                      !.prepared = @ /\ ~ all])
        BY <2>2 DEF Rerun
      <3>2. QED
        BY <3>1, <1>1, <1>3 DEF Run
    <2>3. QED
      BY <1>4, <2>1, <2>2
  <1>5. ASSUME NEW q \in Runs,
               \/ Begin(q) \/ Cancelled(q) \/ JobFails(q) \/ PrepareRefused(q)
               \/ CreateTag(q) \/ TagExists(q) \/ BuildWindows(q) \/ Build(q)
               \/ BuildDiverges(q) \/ Publish(q) \/ ReleaseExists(q)
        PROVE  run'[r] = run[r]
    <2>1. CASE q = r
      <3>1. run'[r].pc # "tag"
        <4>1. CASE \/ Begin(r) \/ Cancelled(r) \/ JobFails(r) \/ PrepareRefused(r)
                   \/ TagExists(r) \/ BuildDiverges(r) \/ ReleaseExists(r) \/ BuildWindows(r)
          BY <1>1, <4>1 DEF Begin, Cancelled, JobFails, PrepareRefused, TagExists,
             BuildDiverges, ReleaseExists, BuildWindows, Run
        <4>2. CASE CreateTag(r) \/ Publish(r)
          BY <1>1, <4>2 DEF CreateTag, Publish, Step, Run
        <4>3. CASE Build(r)
          BY <1>1, <4>3 DEF Build, Run
        <4>4. QED
          BY <1>5, <2>1, <4>1, <4>2, <4>3
      <3>2. QED
        BY <3>1
    <2>2. CASE q # r
      BY <1>1, <1>5, <2>2 DEF Begin, Cancelled, JobFails, PrepareRefused, CreateTag,
         TagExists, BuildWindows, Build, BuildDiverges, Publish, ReleaseExists, Step
    <2>3. QED
      BY <2>1, <2>2
  <1>6. ASSUME NEW q \in Runs, MoveBranch(q)
        PROVE  \/ run'[r] = run[r]
               \/ /\ q = r
                  /\ run'[r].commit = Len(commits) + 1
                  /\ run'[r].version = ReleaseVersion(r)
    <2>1. CASE q = r
      BY <1>1, <1>6, <2>1 DEF MoveBranch, Step, Run
    <2>2. CASE q # r
      BY <1>1, <1>6, <2>2 DEF MoveBranch, Step
    <2>3. QED
      BY <2>1, <2>2
  <1>7. ASSUME run'[r] = [run[r] EXCEPT !.cancel = TRUE]
        PROVE  /\ run[r].pc = "tag" /\ run'[r].commit = run[r].commit
               /\ run'[r].version = run[r].version
    BY <1>1, <1>7 DEF Run
  <1>8. CASE \E f \in Refs : Push(f)
    BY <1>8 DEF Push
  <1>9. CASE UNCHANGED vars
    BY <1>9 DEF vars
  <1>10. QED
    BY <1>2, <1>4, <1>5, <1>6, <1>7, <1>8, <1>9 DEF Next

\* Where a release leaves the branch.
LEMMA NewTip ==
  ASSUME History, NEW r \in Runs, MoveBranch(r)
  PROVE  /\ commits'[Len(commits) + 1].version = ReleaseVersion(r)
         /\ \E f \in Refs : Len(commits) + 1 \in commits'[branch'[f]].past
  <1>1. run[r].ref \in Refs /\ branch \in [Refs -> 1 .. Len(commits)]
        /\ commits \in Seq(Commit)
    BY DEF History, IInv, TypeOK, Run
  <1>2. /\ commits'[Len(commits) + 1] = ReleaseCommit(r)
        /\ branch'[run[r].ref] = Len(commits) + 1
    BY <1>1 DEF MoveBranch
  <1>3. QED
    BY <1>1, <1>2 DEF ReleaseCommit

\* History is kept by every step.
LEMMA HistoryStep == History /\ [Next]_vars => History'
  <1> SUFFICES ASSUME History, [Next]_vars PROVE History'
    OBVIOUS
  <1>1. IInv /\ IInv'
    BY InvStep DEF History
  <1>2. /\ Ancestry'
        /\ \A c \in 1 .. Len(commits) : commits'[c] = commits[c]
        /\ \A g \in Refs : commits[branch[g]].past \subseteq commits'[branch'[g]].past
    <2>1. CASE UNCHANGED <<commits, branch>>
      BY <2>1 DEF History, Ancestry
    <2>2. CASE ~ UNCHANGED <<commits, branch>>
      BY <2>2, StepGrows, GrownKeeps
    <2>3. QED
      BY <2>1, <2>2
  <1>3. ASSUME NEW c \in 1 .. Len(commits), OnBranch(c)
        PROVE  commits'[c].version = commits[c].version /\ OnBranch(c)'
    BY <1>2, <1>3, StaysOnBranch
  <1>4. ASSUME NEW r \in Runs, run[r].pc = "tag"
        PROVE  /\ run[r].commit \in 1 .. Len(commits)
               /\ commits[run[r].commit].version = run[r].version
               /\ OnBranch(run[r].commit)
    BY <1>1, <1>4 DEF History, Reached, IInv, Sound
  <1>5. ASSUME NEW r \in Runs, run'[r].pc = "tag"
        PROVE  commits'[run'[r].commit].version = run'[r].version
               /\ (OnBranch(run[r].commit))'
    <2>1. CASE /\ run[r].pc = "tag"
               /\ run'[r].commit = run[r].commit /\ run'[r].version = run[r].version
      BY <1>3, <1>4, <2>1 DEF OnBranch
    <2>2. CASE /\ MoveBranch(r)
               /\ run'[r].commit = Len(commits) + 1
               /\ run'[r].version = ReleaseVersion(r)
      BY <2>2, NewTip DEF OnBranch
    <2>3. QED
      BY <1>1, <1>5, <2>1, <2>2, AboutToTag
  <1>6. TagsAreOnBranches'
    <2>1. ASSUME NEW v \in DOMAIN tag
          PROVE  /\ tag[v] \in 1 .. Len(commits)
                 /\ commits[tag[v]].version = v /\ OnBranch(tag[v])
      BY <1>1 DEF History, Reached, TagsAreOnBranches, OnBranch, IInv, TypeOK
    <2>2. ASSUME NEW v \in DOMAIN tag
          PROVE  commits'[tag[v]].version = v /\ \E f \in Refs : tag[v] \in commits'[branch'[f]].past
      BY <1>3, <2>1 DEF OnBranch
    <2>3. CASE UNCHANGED tag
      BY <2>2, <2>3 DEF TagsAreOnBranches
    <2>4. ASSUME NEW r \in Runs, CreateTag(r) PROVE TagsAreOnBranches'
      <3>1. run[r].pc = "tag"
        BY <2>4 DEF CreateTag
      <3>2. commits'[run[r].commit].version = run[r].version
            /\ \E f \in Refs : run[r].commit \in commits'[branch'[f]].past
        BY <1>3, <1>4, <3>1 DEF OnBranch
      <3>3. \A v \in DOMAIN tag' :
              \/ v \in DOMAIN tag /\ tag'[v] = tag[v]
              \/ v = run[r].version /\ tag'[v] = run[r].commit
        BY <2>4 DEF CreateTag, Put
      <3>4. QED
        BY <2>2, <3>2, <3>3 DEF TagsAreOnBranches
    <2>5. UNCHANGED tag \/ \E r \in Runs : CreateTag(r)
      BY DEF Next, vars, Push, Dispatch, Rerun, Begin, Cancelled, JobFails, MoveBranch,
             PrepareRefused, TagExists, BuildWindows, Build, BuildDiverges,
             Publish, ReleaseExists
    <2>6. QED
      BY <2>3, <2>4, <2>5
  <1>7. QED
    BY <1>1, <1>2, <1>5, <1>6 DEF History, Reached

LEMMA HistoryInvariant == Spec => []History
  <1>1. QED
    BY HistoryInit, HistoryStep, PTL DEF Spec

\* A tag names a commit that is on a branch and carries its version, whatever
\* became of the run that made it.
THEOREM TagsReachable == Spec => []TagsAreOnBranches
  <1>1. History => TagsAreOnBranches
    BY DEF History, Reached
  <1>2. QED
    BY <1>1, HistoryInvariant, PTL

\* No step takes a commit off a branch.
THEOREM TipsAdvance == Spec => TipsOnlyAdvance
  <1>1. History /\ [Next]_vars => [\A f \in Refs : branch[f] \in commits'[branch'[f]].past]_vars
    <2> SUFFICES ASSUME History, [Next]_vars, NEW f \in Refs
                 PROVE  branch[f] \in commits'[branch'[f]].past
      OBVIOUS
    <2>1. CASE UNCHANGED <<commits, branch>>
      BY <2>1 DEF History, Ancestry, IInv, TypeOK
    <2>2. CASE ~ UNCHANGED <<commits, branch>>
      BY <2>2, StepGrows, GrownKeeps
    <2>3. QED
      BY <2>1, <2>2
  <1>2. QED
    BY <1>1, HistoryInvariant, PTL DEF Spec, TipsOnlyAdvance

-----------------------------------------------------------------------------
(* What whoever downloads a release may rely on: the ledger and the         *)
(* branches together.                                                       *)

Paired == \A v \in DOMAIN published : v \in DOMAIN tag /\ published[v] = tag[v]

Unrevoked ==
  /\ \A v \in DOMAIN tag : v \in DOMAIN tag' /\ tag'[v] = tag[v]
  /\ \A v \in DOMAIN published : v \in DOMAIN published' /\ published'[v] = published[v]

LEMMA LedgerOnlyAdds ==
  ASSUME [Ledger!Next]_<<tag, published>>
  PROVE  Unrevoked /\ (Paired => Paired')
  <1>1. CASE UNCHANGED <<tag, published>>
    BY <1>1 DEF Unrevoked, Paired
  <1>2. CASE Ledger!Tag
    BY <1>2 DEF Ledger!Tag, Ledger!Put, Unrevoked, Paired
  <1>3. CASE Ledger!Publish
    BY <1>3 DEF Ledger!Publish, Ledger!Put, Unrevoked, Paired
  <1>4. QED
    BY <1>1, <1>2, <1>3 DEF Ledger!Next

\* A published version was built from a commit that carries that version, that
\* the version's tag names and that can be reached from a branch.
ReleasesHaveSources ==
  \A v \in DOMAIN published :
    /\ v \in DOMAIN tag /\ published[v] = tag[v]
    /\ commits[published[v]].version = v
    /\ \E f \in Refs : published[v] \in commits[branch[f]].past

\* No two versions are of one commit.
CommitsHaveOneVersion == \A v, w \in DOMAIN tag : tag[v] = tag[w] => v = w

\* Whatever is published can be rebuilt from its tag, at any time after, and is
\* the only version of its sources: however runs died, raced or were re-run.
THEOREM ReleasesTraceable == Spec => [](ReleasesHaveSources /\ CommitsHaveOneVersion)
  <1>1. Init => Paired
    BY DEF Init, Nothing, Paired
  <1>2. IInv /\ Paired /\ [Next]_vars => Paired'
    BY LedgerStep, LedgerOnlyAdds
  <1>3. Paired /\ TagsAreOnBranches => ReleasesHaveSources /\ CommitsHaveOneVersion
    BY DEF Paired, TagsAreOnBranches, ReleasesHaveSources, CommitsHaveOneVersion
  <1>4. QED
    BY <1>1, <1>2, <1>3, Invariant, TagsReachable, PTL DEF Spec

\* A tag is never moved or removed and a release never replaced or withdrawn.
THEOREM ReleasesForGood == Spec => [][Unrevoked]_vars
  <1>1. IInv /\ [Next]_vars => [Unrevoked]_vars
    BY LedgerStep, LedgerOnlyAdds
  <1>2. QED
    BY <1>1, Invariant, PTL DEF Spec

-----------------------------------------------------------------------------
(* VERSION moves forward.                                                   *)

\* Every bump the inputs allow is ahead of the version it is applied to.
LEMMA NewVersionIsAhead ==
  ASSUME NEW current \in Version, NEW bump \in Bumps, NEW pre \in Labels,
         ValidInputs(current, bump, pre), bump # "none" \/ pre = current.pre
  PROVE  Less(current, NewVersion(current, bump, pre))
  <1> DEFINE new == NewVersion(current, bump, pre)
  <1>1. /\ current.base \in Nat \X Nat \X Nat /\ current.num \in Nat
        /\ current.pre \in {"no", "alpha", "beta", "rc"}
        /\ bump \in {"none", "patch", "minor", "major", "stable"}
    BY WorkflowConstants DEF Version
  <1>2. new.base = Bumped(current.base, bump)
    BY DEF NewVersion
  <1>3. CASE bump = "major"
    <2>1. Key(current)[1] < Key(new)[1]
      BY <1>1, <1>2, <1>3 DEF Key, Bumped
    <2>2. QED
      BY <2>1 DEF Less
  <1>4. CASE bump = "minor"
    <2>1. Key(current)[2] < Key(new)[2] /\ Key(current)[1] = Key(new)[1]
      BY <1>1, <1>2, <1>4 DEF Key, Bumped
    <2>2. QED
      BY <2>1 DEF Less
  <1>5. CASE bump = "patch"
    <2>1. /\ Key(current)[3] < Key(new)[3]
          /\ Key(current)[1] = Key(new)[1] /\ Key(current)[2] = Key(new)[2]
      BY <1>1, <1>2, <1>5 DEF Key, Bumped
    <2>2. QED
      BY <2>1 DEF Less
  <1>6. CASE bump \in {"none", "stable"}
    <2>1. /\ Key(current)[1] = Key(new)[1] /\ Key(current)[2] = Key(new)[2]
          /\ Key(current)[3] = Key(new)[3]
      BY <1>2, <1>6 DEF Key, Bumped
    <2>2. CASE bump = "stable"
      <3>1. current.pre # "no" /\ new.pre = "no"
        BY <2>2 DEF ValidInputs, NewVersion
      <3>2. Key(current)[4] < Key(new)[4]
        BY <1>1, <3>1 DEF Key, Rank
      <3>3. QED
        BY <2>1, <3>2 DEF Less
    <2>3. CASE bump = "none"
      <3>1. pre # "no" /\ pre = current.pre
        BY <2>3 DEF ValidInputs
      <3>2. new.pre = current.pre /\ new.num = current.num + 1
        BY <2>3, <3>1 DEF NewVersion
      <3>3. Key(current)[4] = Key(new)[4] /\ Key(current)[5] < Key(new)[5]
        BY <1>1, <3>2 DEF Key, Rank
      <3>4. QED
        BY <2>1, <3>3 DEF Less
    <2>4. QED
      BY <1>6, <2>2, <2>3
  <1>7. QED
    BY <1>1, <1>3, <1>4, <1>5, <1>6

\* Only its own PATCH moves the branch as a run leaves its first job.
LEMMA ReleasesByPatch ==
  ASSUME IInv, [Next]_vars, NEW r \in Runs, Releases(r)
  PROVE  MoveBranch(r)
  <1>1. branch' # branch /\ run[r].pc = "prepare" /\ run'[r].pc # "prepare"
    BY DEF Releases
  <1>2. \/ \E f \in Refs : Push(f)
        \/ \E q \in Runs : MoveBranch(q)
    BY <1>1 DEF Next, vars, Dispatch, Rerun, Begin, Cancelled, JobFails, PrepareRefused,
           CreateTag, TagExists, BuildWindows, Build, BuildDiverges, Publish,
           ReleaseExists
  <1>3. \A f \in Refs : ~ Push(f)
    BY <1>1 DEF Push
  <1>4. \A q \in Runs \ {r} : ~ MoveBranch(q)
    BY <1>1 DEF MoveBranch, Step, IInv, TypeOK
  <1>5. QED
    BY <1>2, <1>3, <1>4

\* A release moves VERSION forward, if it bumps it or carries on the series
\* VERSION is in.  The workflow accepts one combination besides, which may take
\* it back: no bump with another label (NoneOnlyCounts).
THEOREM ReleasesAdvance == Spec => VersionsAdvance
  <1>1. ASSUME IInv, [Next]_vars, NEW r \in Runs, Releases(r),
               run[r].bump # "none" \/ run[r].pre = Current(r).pre
        PROVE  Less(Current(r), commits'[branch'[run[r].ref]].version)
    <2>1. MoveBranch(r)
      BY <1>1, ReleasesByPatch
    <2>2. /\ run[r] \in Run /\ run[r].sha \in 1 .. Len(commits)
          /\ commits \in Seq(Commit) /\ branch \in [Refs -> 1 .. Len(commits)]
      <3>1. Sound(run[r], Len(commits), tag) /\ run[r].pc = "prepare"
        BY <1>1, <2>1 DEF MoveBranch, IInv
      <3>2. QED
        BY <1>1, <3>1 DEF Sound, IInv, TypeOK
    <2>3. Current(r) \in Version /\ run[r].bump \in Bumps /\ run[r].pre \in Labels
      <3>1. commits[run[r].sha] \in Commit
        BY <2>2
      <3>2. Current(r) \in Version
        BY <3>1 DEF Current, Commit
      <3>3. run[r].bump \in Bumps /\ run[r].pre \in Labels
        BY <2>2 DEF Run
      <3>4. QED
        BY <3>2, <3>3
    <2>4. branch'[run[r].ref] = Len(commits) + 1
      BY <2>1, <2>2 DEF MoveBranch, Run
    <2>5. commits' = Append(commits, ReleaseCommit(r))
      BY <2>1 DEF MoveBranch
    <2>6. commits'[Len(commits) + 1] = ReleaseCommit(r)
      BY <2>2, <2>5
    <2>7. commits'[branch'[run[r].ref]].version = ReleaseVersion(r)
      BY <2>4, <2>6 DEF ReleaseCommit
    <2>8. QED
      BY <1>1, <2>1, <2>3, <2>7, NewVersionIsAhead DEF ReleaseVersion, MoveBranch
  <1>2. IInv /\ [Next]_vars =>
          [\A r \in Runs :
             Releases(r) /\ (run[r].bump # "none" \/ run[r].pre = Current(r).pre) =>
               Less(Current(r), commits'[branch'[run[r].ref]].version)]_vars
    BY <1>1
  <1>3. QED
    BY <1>2, Invariant, PTL DEF Spec, VersionsAdvance
=============================================================================
