------------------------- MODULE ReleaseBundleProofs -------------------------
(***************************************************************************)
(* Proofs about ReleaseBundle, for any artifacts, platforms, commits and   *)
(* versions.  The packager hashes what it holds in memory and writes what  *)
(* it holds in memory: Hashed is that fact, Written says which archives of *)
(* this run are on disk, and Agreed what is left of both after a success.  *)
(***************************************************************************)
EXTENDS ReleaseBundle, TLAPS

LEMMA Constants ==
  /\ Len(Device) \in Nat \ {0} /\ DOMAIN Device = 1 .. Len(Device)
  /\ Len(Platforms) \in Nat \ {0} /\ DOMAIN Platforms = 1 .. Len(Platforms)
  /\ \A i \in 1 .. Len(Device) : Device[i] \in Artifact
  /\ \A i \in 1 .. Len(Platforms) : Platforms[i] \in Platform
  /\ 0 \in Commit
  /\ \A c \in Commit : Release[c] \in Versions
<1>1. /\ Len(Device) \in Nat \ {0} /\ DOMAIN Device = 1 .. Len(Device)
      /\ Len(Platforms) \in Nat \ {0} /\ DOMAIN Platforms = 1 .. Len(Platforms)
  BY BundleConstants
<1> QED
  BY <1>1, BundleConstants DEF Artifact, Platform, Commit, Versions

LEMMA Lengths == Len(Device) \in Nat \ {0} /\ Len(Platforms) \in Nat \ {0}
  BY Constants

\* The arithmetic of positions in the list of platforms.
LEMMA Positions ==
  /\ 1 \in 1 .. Len(Device) + Len(Platforms) /\ 1 \in 1 .. Len(Platforms) + 1
  /\ \A i \in 1 .. Len(Platforms) :
       /\ ~ (i < 1) /\ ~ (i < i) /\ i < Len(Platforms) + 1
       /\ i + 1 \in 1 .. Len(Platforms) + 1
       /\ i + 1 \in 1 .. Len(Device) + Len(Platforms)
       /\ \A j \in 1 .. Len(Platforms) : j < i + 1 => j < i \/ j = i
  /\ \A i \in 1 .. Len(Platforms) + 1 :
       i <= Len(Platforms) => i \in 1 .. Len(Platforms)
  BY Lengths

LEMMA FreshTyped == NoBytes \in [Artifact -> Commit] /\ Fresh \in Manifests
  BY Constants DEF NoBytes, Fresh, Manifests

\* Where the packager is in its lists.
AtIndex ==
  /\ phase \in {"idle", "cli", "submodules"} => next = 1
  /\ phase = "read" => next \in 1 .. Len(Device) + 1
  /\ phase = "bundle" => next \in 1 .. Len(Platforms) + 1
  /\ phase = "writing bundle" => next \in 1 .. Len(Platforms)

Hashed == phase # "idle" => run.sha256 = bytes

Running == phase # "idle" => outcome = "none"

\* The archive this run writes.
ThisRuns == [members |-> bytes, manifest |-> run]

Written ==
  phase \in {"bundle", "writing bundle"} =>
    /\ manifest = {run}
    /\ \A i \in 1 .. Len(Platforms) :
         i < next => bundle[run.version][Platforms[i]] = {ThisRuns}

IInv ==
  /\ TypeOK /\ AtIndex /\ Hashed /\ Running /\ Written
  /\ ManifestMatchesBundle /\ BundlesAgree

LEMMA InitInv == Init => IInv
<1> SUFFICES ASSUME Init PROVE IInv
  OBVIOUS
<1>1. TypeOK
  BY Constants, FreshTyped DEF Init, TypeOK, Phases, Option
<1> QED
  BY <1>1 DEF Init, IInv, AtIndex, Hashed, Running, Written,
              ManifestMatchesBundle, BundlesAgree, Readable

\* A run that gives up leaves the output directory as it is by then.
LEMMA FailInv ==
  ASSUME IInv, Fail, UNCHANGED manifest,
         bundle' \in [Versions -> [Platform -> Option(Archives)]],
         \A v \in Versions, p \in Platform : bundle'[v][p] \subseteq bundle[v][p]
  PROVE  IInv'
<1>1. TypeOK'
  <2>1. /\ next' = 1 /\ next' \in 1 .. Len(Device) + Len(Platforms)
        /\ phase' \in Phases /\ outcome' = "failed"
    BY Constants DEF Fail, Phases
  <2> QED
    BY <2>1, FreshTyped DEF Fail, IInv, TypeOK, tree
<1>2. ManifestMatchesBundle'
  BY DEF IInv, ManifestMatchesBundle, Readable
<1> QED
  BY <1>1, <1>2 DEF Fail, IInv, AtIndex, Hashed, Running, Written, BundlesAgree

\* A step of the packager on to another phase that touches no archive and
\* leaves what it holds in memory.
LEMMA GatherInv ==
  ASSUME IInv, UNCHANGED <<tree, bundle, outcome>>, phase # "idle",
         phase' \in Phases \ {"idle", "bundle", "writing bundle"},
         next' \in 1 .. Len(Device) + Len(Platforms),
         phase' \in {"cli", "submodules"} => next' = 1,
         phase' = "read" => next' \in 1 .. Len(Device) + 1,
         run' \in Manifests, bytes' \in [Artifact -> Commit],
         run'.sha256 = bytes', manifest' \subseteq Manifests
  PROVE  IInv'
<1>1. TypeOK'
  BY DEF IInv, TypeOK, tree
<1>2. ManifestMatchesBundle'
  BY DEF IInv, ManifestMatchesBundle, Readable
<1>3. outcome' = "none"
  BY DEF IInv, Running
<1>4. phase' \in {"cli", "submodules", "read", "manifest", "writing manifest"}
  BY DEF Phases
<1> QED
  BY <1>1, <1>2, <1>3, <1>4 DEF IInv, AtIndex, Hashed, Running, Written, BundlesAgree

LEMMA FailKeeps ==
  ASSUME IInv, Fail, UNCHANGED dist
  PROVE  IInv'
  BY FailInv DEF dist, IInv, TypeOK

LEMMA InvTree ==
  ASSUME IInv,
         Checkout \/ (\E a \in Artifact : Rebuild(a)) \/ (\E p \in Platform : RebuildCli(p))
  PROVE  IInv'
<1>1. UNCHANGED <<phase, next, run, bytes, outcome, manifest, bundle>>
  BY DEF Checkout, Rebuild, RebuildCli, dist
<1>2. /\ head' \in Commit
      /\ artifact' \in [Artifact -> Option(Commit)]
      /\ cli' \subseteq Platform
  BY DEF Checkout, Rebuild, RebuildCli, IInv, TypeOK, Option
<1> QED
  BY <1>1, <1>2 DEF IInv, TypeOK, AtIndex, Hashed, Running, Written, ThisRuns,
                   ManifestMatchesBundle, BundlesAgree, Readable

LEMMA InvStart ==
  ASSUME IInv, resolve_version
  PROVE  IInv'
<1>1. run' \in Manifests /\ run'.sha256 = NoBytes
  BY Constants, FreshTyped DEF resolve_version, IInv, TypeOK, Manifests, Fresh
<1>2. TypeOK'
  BY <1>1, FreshTyped DEF resolve_version, IInv, TypeOK, tree, dist, Phases
<1>3. ManifestMatchesBundle'
  BY DEF resolve_version, dist, IInv, ManifestMatchesBundle, Readable
<1> QED
  BY <1>1, <1>2, <1>3 DEF resolve_version, dist, IInv, AtIndex, Hashed, Running,
                         Written, BundlesAgree

LEMMA InvGather ==
  ASSUME IInv, check_cli \/ submodule_provenance \/ read_member \/ read_first_cli
  PROVE  IInv'
<1>1. CASE check_cli /\ ~ Fail
  <2>1. /\ phase = "cli" /\ phase' = "submodules" /\ next = 1
        /\ UNCHANGED <<next, outcome, run, bytes, tree, dist>>
    BY <1>1 DEF check_cli, Goto, IInv, AtIndex
  <2> QED
    BY <2>1, GatherInv DEF IInv, TypeOK, Hashed, Phases, dist
<1>2. CASE submodule_provenance
  <2>1. /\ phase = "submodules" /\ phase' = "read" /\ next = 1
        /\ run' = [run EXCEPT !.sources = head]
        /\ UNCHANGED <<next, outcome, bytes, tree, dist>>
    BY <1>2 DEF submodule_provenance, Goto, IInv, AtIndex
  <2>2. run' \in Manifests /\ run'.sha256 = run.sha256
    BY <2>1 DEF IInv, TypeOK, Manifests
  <2>3. next' \in 1 .. Len(Device) + 1
    BY <2>1, Constants
  <2> QED
    BY <2>1, <2>2, <2>3, GatherInv DEF IInv, TypeOK, Hashed, Phases, dist
<1>3. CASE read_member /\ ~ Fail
  <2>1. PICK c \in artifact[Device[next]] :
          /\ bytes' = [bytes EXCEPT ![Device[next]] = c]
          /\ run' = [run EXCEPT !.sha256[Device[next]] = c]
          /\ next' = next + 1
          /\ UNCHANGED <<phase, outcome, tree>>
    BY <1>3 DEF read_member
  <2>2. phase = "read" /\ next \in 1 .. Len(Device) /\ UNCHANGED dist
    BY <1>3, Constants DEF read_member, IInv, AtIndex
  <2>3. Device[next] \in Artifact /\ c \in Commit
    BY <2>2, Constants DEF IInv, TypeOK, Option
  <2>4. bytes' \in [Artifact -> Commit] /\ run' \in Manifests
    BY <2>1, <2>3 DEF IInv, TypeOK, Manifests
  <2>5. run'.sha256 = bytes'
    BY <2>1, <2>2 DEF IInv, TypeOK, Manifests, Hashed
  <2>6. /\ next' \in 1 .. Len(Device) + 1
        /\ next' \in 1 .. Len(Device) + Len(Platforms)
    BY <2>1, <2>2, Constants
  <2> QED
    BY <2>1, <2>2, <2>4, <2>5, <2>6, GatherInv DEF IInv, TypeOK, Phases, dist
<1>4. CASE read_first_cli /\ ~ Fail
  <2>1. /\ phase = "read" /\ phase' = "manifest"
        /\ UNCHANGED <<next, outcome, run, bytes, tree, dist>>
    BY <1>4 DEF read_first_cli, Goto
  <2> QED
    BY <2>1, GatherInv DEF IInv, TypeOK, Hashed, Phases, dist
<1>5. CASE Fail /\ UNCHANGED dist
  BY <1>5, FailKeeps
<1> QED
  BY <1>1, <1>2, <1>3, <1>4, <1>5
     DEF check_cli, submodule_provenance, read_member, read_first_cli

LEMMA InvManifest ==
  ASSUME IInv, open_manifest \/ write_manifest
  PROVE  IInv'
<1>1. CASE open_manifest
  <2>1. /\ phase = "manifest" /\ phase' = "writing manifest" /\ manifest' = {}
        /\ UNCHANGED <<next, outcome, run, bytes, tree, bundle>>
    BY <1>1 DEF open_manifest, Goto
  <2> QED
    BY <2>1, GatherInv DEF IInv, TypeOK, Hashed, Phases
<1>2. CASE write_manifest
  <2>1. /\ phase = "writing manifest" /\ phase' = "bundle" /\ next' = 1
        /\ manifest' = {run} /\ UNCHANGED <<run, bytes, outcome, tree, bundle>>
    BY <1>2 DEF write_manifest
  <2>2. /\ next' \in 1 .. Len(Device) + Len(Platforms)
        /\ next' \in 1 .. Len(Platforms) + 1
    BY <2>1, Positions
  <2>3. TypeOK'
    BY <2>1, <2>2 DEF IInv, TypeOK, Phases, tree
  <2>4. ManifestMatchesBundle'
    BY <2>1 DEF IInv, ManifestMatchesBundle, Readable
  <2>5. Written'
    BY <2>1, Positions, Zenon DEF Written
  <2> QED
    BY <2>1, <2>2, <2>3, <2>4, <2>5
       DEF IInv, AtIndex, Hashed, Running, BundlesAgree
<1> QED
  BY <1>1, <1>2

\* The archive of the platform at hand is replaced: those before it are kept.
LEMMA ReplaceInv ==
  ASSUME IInv, phase \in {"bundle", "writing bundle"}, next \in 1 .. Len(Platforms),
         NEW new \in Option(Archives),
         \A b \in new : b = ThisRuns,
         bundle' = [bundle EXCEPT ![run.version][Platforms[next]] = new]
  PROVE  /\ bundle' \in [Versions -> [Platform -> Option(Archives)]]
         /\ \A v \in Versions, p \in Platform :
              bundle'[v][p] \subseteq bundle[v][p] \cup {ThisRuns}
         /\ bundle'[run.version][Platforms[next]] = new
         /\ \A i \in 1 .. Len(Platforms) :
              i < next => bundle'[run.version][Platforms[i]] = {ThisRuns}
<1> DEFINE here == Platforms[next]
           old == bundle[run.version]
<1>1. here \in Platform /\ run.version \in Versions
  BY Constants DEF IInv, TypeOK, Manifests
<1>2. old \in [Platform -> Option(Archives)]
  BY <1>1 DEF IInv, TypeOK
<1>3. bundle' = [bundle EXCEPT ![run.version] = [old EXCEPT ![here] = new]]
  OBVIOUS
<1>4. [old EXCEPT ![here] = new] \in [Platform -> Option(Archives)]
  BY <1>1, <1>2
<1>5. bundle'[run.version] = [old EXCEPT ![here] = new]
  BY <1>1, <1>3 DEF IInv, TypeOK
<1>6. bundle' \in [Versions -> [Platform -> Option(Archives)]]
  BY <1>1, <1>3, <1>4 DEF IInv, TypeOK
<1>7. bundle'[run.version][here] = new
  BY <1>1, <1>2, <1>5
<1>8. ASSUME NEW v \in Versions, NEW p \in Platform
      PROVE  bundle'[v][p] \subseteq bundle[v][p] \cup {ThisRuns}
  <2>1. CASE v = run.version
    BY <2>1, <1>1, <1>2, <1>5
  <2>2. CASE v # run.version
    BY <2>2, <1>1, <1>3 DEF IInv, TypeOK
  <2> QED
    BY <2>1, <2>2
<1>9. ASSUME NEW i \in 1 .. Len(Platforms), i < next
      PROVE  bundle'[run.version][Platforms[i]] = {ThisRuns}
  <2>1. Platforms[i] \in Platform /\ Platforms[i] # here
    <3>1. i # next
      BY <1>9, Positions
    <3> QED
      BY <3>1, Constants, BundleConstants
  <2>2. old[Platforms[i]] = {ThisRuns}
    BY <1>9 DEF IInv, Written
  <2> QED
    BY <2>1, <2>2, <1>1, <1>2, <1>5
<1> QED
  BY <1>6, <1>7, <1>8, <1>9

\* What this run writes hashes to what its manifest says.
LEMMA ThisRunsMatches ==
  ASSUME IInv, phase # "idle"
  PROVE  /\ ThisRuns \in Archives
         /\ \A a \in Artifact : ThisRuns.manifest.sha256[a] = ThisRuns.members[a]
  BY DEF IInv, TypeOK, Hashed, ThisRuns, Archives

LEMMA MatchesKept ==
  ASSUME IInv, phase # "idle",
         \A v \in Versions, p \in Platform :
           bundle'[v][p] \subseteq bundle[v][p] \cup {ThisRuns}
  PROVE  ManifestMatchesBundle'
<1> SUFFICES ASSUME NEW v \in Versions, NEW p \in Platform, NEW b \in bundle'[v][p],
                    NEW a \in Artifact
             PROVE  b.manifest.sha256[a] = b.members[a]
  BY DEF ManifestMatchesBundle, Readable
<1>1. CASE b = ThisRuns
  BY <1>1, ThisRunsMatches
<1>2. CASE b \in bundle[v][p]
  BY <1>2 DEF IInv, ManifestMatchesBundle, Readable
<1> QED
  BY <1>1, <1>2

LEMMA InvBundle ==
  ASSUME IInv, open_bundle \/ write_bundle
  PROVE  IInv'
<1>1. next \in 1 .. Len(Platforms) /\ phase \in {"bundle", "writing bundle"}
  <2>1. CASE open_bundle
    BY <2>1, Positions DEF open_bundle, IInv, AtIndex
  <2>2. CASE write_bundle
    BY <2>2 DEF write_bundle, IInv, AtIndex
  <2> QED
    BY <2>1, <2>2
<1>2. CASE open_bundle /\ Fail
  <2>1. UNCHANGED <<manifest, bundle>>
    BY <1>2 DEF open_bundle, Goto, Fail
  <2> QED
    BY <1>2, <2>1, FailInv DEF IInv, TypeOK
<1>3. CASE open_bundle /\ ~ Fail
  <2>1. /\ bundle' = [bundle EXCEPT ![run.version][Platforms[next]] = {}]
        /\ phase' = "writing bundle"
        /\ UNCHANGED <<next, outcome, run, bytes, tree, manifest>>
    BY <1>3 DEF open_bundle, Goto
  <2>2. {} \in Option(Archives)
    BY DEF Option
  <2>3. /\ bundle' \in [Versions -> [Platform -> Option(Archives)]]
        /\ \A v \in Versions, p \in Platform :
             bundle'[v][p] \subseteq bundle[v][p] \cup {ThisRuns}
        /\ \A i \in 1 .. Len(Platforms) :
             i < next => bundle'[run.version][Platforms[i]] = {ThisRuns}
    BY <1>1, <2>1, <2>2, ReplaceInv
  <2>4. TypeOK'
    BY <2>1, <2>3 DEF IInv, TypeOK, Phases, tree
  <2>5. ManifestMatchesBundle'
    BY <1>1, <2>3, MatchesKept
  <2>6. Written'
    BY <1>1, <2>1, <2>3 DEF IInv, Written, ThisRuns
  <2> QED
    BY <1>1, <2>1, <2>4, <2>5, <2>6
       DEF IInv, AtIndex, Hashed, Running, BundlesAgree
<1>4. CASE write_bundle
  <2>1. /\ bundle' = [bundle EXCEPT ![run.version][Platforms[next]] = {ThisRuns}]
        /\ phase' = "bundle" /\ next' = next + 1
        /\ UNCHANGED <<outcome, run, bytes, tree, manifest>>
    BY <1>4 DEF write_bundle, ThisRuns
  <2>2. {ThisRuns} \in Option(Archives)
    BY <1>1, ThisRunsMatches DEF Option
  <2>3. /\ bundle' \in [Versions -> [Platform -> Option(Archives)]]
        /\ \A v \in Versions, p \in Platform :
             bundle'[v][p] \subseteq bundle[v][p] \cup {ThisRuns}
        /\ bundle'[run.version][Platforms[next]] = {ThisRuns}
        /\ \A i \in 1 .. Len(Platforms) :
             i < next => bundle'[run.version][Platforms[i]] = {ThisRuns}
    BY <1>1, <2>1, <2>2, ReplaceInv
  <2>4. /\ next' \in 1 .. Len(Platforms) + 1
        /\ next' \in 1 .. Len(Device) + Len(Platforms)
        /\ \A i \in 1 .. Len(Platforms) : i < next' => i < next \/ i = next
    BY <1>1, <2>1, Positions
  <2>5. TypeOK'
    BY <2>1, <2>3, <2>4 DEF IInv, TypeOK, Phases, tree
  <2>6. ManifestMatchesBundle'
    BY <1>1, <2>3, MatchesKept
  <2>7. Written'
    <3>1. ThisRuns' = ThisRuns
      BY <2>1 DEF ThisRuns
    <3> QED
      BY <1>1, <2>1, <2>3, <2>4, <3>1 DEF IInv, Written
  <2> QED
    BY <1>1, <2>1, <2>4, <2>5, <2>6, <2>7
       DEF IInv, AtIndex, Hashed, Running, BundlesAgree
<1> QED
  BY <1>2, <1>3, <1>4

\* The run has written every archive: this is where they agree.
LEMMA InvDone ==
  ASSUME IInv, Done
  PROVE  IInv'
<1>1. /\ phase = "bundle" /\ next = Len(Platforms) + 1
      /\ phase' = "idle" /\ outcome' = "ok" /\ next' = 1 /\ bytes' = NoBytes
      /\ UNCHANGED <<run, tree, manifest, bundle>>
  BY DEF Done, dist
<1>2. TypeOK'
  <2>1. next' \in 1 .. Len(Device) + Len(Platforms)
    BY <1>1, Constants
  <2> QED
    BY <1>1, <2>1, FreshTyped DEF IInv, TypeOK, Phases, tree
<1>3. ManifestMatchesBundle'
  BY <1>1 DEF IInv, ManifestMatchesBundle, Readable
<1>4. ASSUME NEW p \in Platform
      PROVE  bundle[run.version][p] = {ThisRuns} /\ manifest = {run}
  <2>1. PICK i \in 1 .. Len(Platforms) : p = Platforms[i]
    BY Constants DEF Platform
  <2> QED
    BY <1>1, <2>1, Constants DEF IInv, Written
<1>5. BundlesAgree'
  <2>1. ASSUME NEW p \in Platform
        PROVE  \E b \in bundle[run.version][p] : manifest = {b.manifest} /\ b.manifest = run
    <3>1. ThisRuns \in bundle[run.version][p] /\ ThisRuns.manifest = run
      BY <1>4 DEF ThisRuns
    <3> QED
      BY <1>4, <3>1
  <2> QED
    BY <1>1, <2>1 DEF BundlesAgree, Readable
<1> QED
  BY <1>1, <1>2, <1>3, <1>5 DEF IInv, AtIndex, Hashed, Running, Written

LEMMA NextInv == IInv /\ [Next]_vars => IInv'
<1> SUFFICES ASSUME IInv, [Next]_vars PROVE IInv'
  OBVIOUS
<1>1. CASE UNCHANGED vars
  BY <1>1 DEF vars, IInv, TypeOK, AtIndex, Hashed, Running, Written, ThisRuns,
              ManifestMatchesBundle, BundlesAgree, Readable
<1>2. CASE Die
  BY <1>2, FailKeeps DEF Die
<1>3. CASE Next /\ ~ Die
  BY <1>3, InvTree, InvStart, InvGather, InvManifest, InvBundle, InvDone DEF Next
<1> QED
  BY <1>1, <1>2, <1>3

LEMMA SpecInv == Spec => []IInv
  BY InitInv, NextInv, PTL DEF Spec

\* Every reachable state of the packager and its output directory is well typed.
THEOREM BundleTypeCorrect == Spec => []TypeOK
<1>1. IInv => TypeOK
  BY DEF IInv
<1> QED
  BY <1>1, SpecInv, PTL

\* Every archive in the output directory carries the hashes of the bytes in
\* it, whatever is rebuilt while the packager runs and wherever it dies.
THEOREM ManifestTrue == Spec => []ManifestMatchesBundle
<1>1. IInv => ManifestMatchesBundle
  BY DEF IInv
<1> QED
  BY <1>1, SpecInv, PTL

\* After a success the archives of all platforms carry the manifest.json that
\* lies beside them, for any number of platforms.
THEOREM PlatformsAgree == Spec => []BundlesAgree
<1>1. IInv => BundlesAgree
  BY DEF IInv
<1> QED
  BY <1>1, SpecInv, PTL
-----------------------------------------------------------------------------
(* Provenance.                                                              *)

\* What a run under way has read was built from the commits it will name.
ReadAtSources ==
  /\ phase = "read" =>
       \A i \in 1 .. Len(Device) : i < next => bytes[Device[i]] = run.sources
  /\ phase \notin {"idle", "cli", "submodules", "read"} =>
       \A a \in Artifact : bytes[a] = run.sources

Named == \A v \in Versions, p \in Platform : \A b \in Readable(v, p) : NamesSources(b)

LEMMA ReadStep ==
  ASSUME IInv, ReadAtSources, BuiltFromHead, HeadHeld, [Next]_vars
  PROVE  ReadAtSources'
<1> USE DEF ReadAtSources
<1>1. CASE UNCHANGED vars
  BY <1>1 DEF vars
<1>2. CASE Checkout \/ (\E a \in Artifact : Rebuild(a)) \/ (\E p \in Platform : RebuildCli(p))
  BY <1>2 DEF Checkout, Rebuild, RebuildCli
<1>3. CASE resolve_version
  BY <1>3 DEF resolve_version
<1>4. ASSUME Fail PROVE ReadAtSources'
  BY <1>4 DEF Fail
<1>5. CASE check_cli /\ ~ Fail
  BY <1>5 DEF check_cli, Goto, tree
<1>6. CASE submodule_provenance
  <2>1. phase = "submodules" /\ phase' = "read" /\ next' = 1
    BY <1>6 DEF submodule_provenance, Goto, IInv, AtIndex
  <2> QED
    BY <2>1
<1>7. CASE read_member /\ ~ Fail
  <2>1. PICK c \in artifact[Device[next]] :
          /\ bytes' = [bytes EXCEPT ![Device[next]] = c]
          /\ run' = [run EXCEPT !.sha256[Device[next]] = c]
          /\ next' = next + 1
          /\ UNCHANGED <<phase, outcome, tree>>
    BY <1>7 DEF read_member
  <2>2. phase = "read" /\ next \in 1 .. Len(Device)
    BY <1>7, Constants DEF read_member, IInv, AtIndex
  <2>3. Device[next] \in Artifact /\ DOMAIN bytes = Artifact
    BY <2>2, Constants DEF IInv, TypeOK
  <2>4. c = run.sources
    BY <2>1, <2>2, <2>3 DEF BuiltFromHead, HeadHeld
  <2>5. run'.sources = run.sources
    BY <2>1 DEF IInv, TypeOK, Manifests
  <2>6. ASSUME NEW i \in 1 .. Len(Device), i < next'
        PROVE  bytes'[Device[i]] = run.sources
    <3>1. Device[i] \in Artifact
      BY Constants
    <3>2. CASE Device[i] = Device[next]
      BY <3>2, <2>1, <2>3, <2>4
    <3>3. CASE Device[i] # Device[next]
      <4>1. i < next
        BY <3>3, <2>1, <2>2, <2>6, Constants
      <4> QED
        BY <4>1, <3>1, <3>3, <2>1, <2>2, <2>3
    <3> QED
      BY <3>2, <3>3
  <2> QED
    BY <2>1, <2>2, <2>5, <2>6 DEF tree
<1>8. CASE read_first_cli /\ ~ Fail
  <2>1. /\ phase = "read" /\ next = Len(Device) + 1 /\ phase' = "manifest"
        /\ UNCHANGED <<run, bytes>>
    BY <1>8 DEF read_first_cli, Goto
  <2>2. ASSUME NEW a \in Artifact PROVE bytes[a] = run.sources
    <3>1. PICK i \in 1 .. Len(Device) : a = Device[i]
      BY Constants DEF Artifact
    <3>2. i < next
      BY <2>1, Constants
    <3> QED
      BY <3>1, <3>2, <2>1
  <2> QED
    BY <2>1, <2>2
<1>9. CASE open_manifest \/ write_manifest
  BY <1>9 DEF open_manifest, write_manifest, Goto, tree
<1>10. CASE (open_bundle /\ ~ Fail) \/ write_bundle \/ Done
  BY <1>10 DEF open_bundle, write_bundle, Done, Goto, tree
<1>11. CASE Die
  BY <1>11, <1>4 DEF Die
<1> QED
  BY <1>1, <1>2, <1>3, <1>4, <1>5, <1>6, <1>7, <1>8, <1>9, <1>10, <1>11 DEF Next

\* An archive that appears is the one the run at hand writes.
LEMMA NewArchives ==
  ASSUME IInv, [Next]_vars
  PROVE  \/ \A v \in Versions, p \in Platform : bundle'[v][p] \subseteq bundle[v][p]
         \/ /\ phase = "writing bundle"
            /\ \A v \in Versions, p \in Platform :
                 bundle'[v][p] \subseteq bundle[v][p] \cup {ThisRuns}
<1>1. CASE UNCHANGED bundle
  BY <1>1
<1>2. CASE open_bundle /\ ~ Fail
  <2>1. /\ phase = "bundle" /\ next \in 1 .. Len(Platforms)
        /\ bundle' = [bundle EXCEPT ![run.version][Platforms[next]] = {}]
    BY <1>2, Positions DEF open_bundle, IInv, AtIndex
  <2>2. bundle \in [Versions -> [Platform -> Option(Archives)]]
    BY DEF IInv, TypeOK
  <2>3. \A v \in Versions, p \in Platform : bundle'[v][p] \subseteq bundle[v][p]
    BY <2>1, <2>2
  <2> QED
    BY <2>3
<1>3. CASE write_bundle
  <2>1. /\ phase = "writing bundle" /\ next \in 1 .. Len(Platforms)
        /\ bundle' = [bundle EXCEPT ![run.version][Platforms[next]] = {ThisRuns}]
    BY <1>3 DEF write_bundle, ThisRuns, IInv, AtIndex
  <2>2. {ThisRuns} \in Option(Archives)
    BY <2>1, ThisRunsMatches DEF Option
  <2> QED
    BY <2>1, <2>2, ReplaceInv
<1>4. CASE open_bundle /\ Fail
  <2>1. UNCHANGED bundle
    BY <1>4 DEF open_bundle, Goto, Fail
  <2> QED
    BY <2>1, <1>1
<1>5. UNCHANGED bundle \/ write_bundle \/ open_bundle
  BY DEF Next, vars, dist, Checkout, Rebuild, RebuildCli, resolve_version, check_cli,
     submodule_provenance, read_member, read_first_cli, open_manifest, write_manifest,
     Done, Die
<1> QED
  BY <1>1, <1>2, <1>3, <1>4, <1>5

\* If artifacts are built from HEAD and HEAD stays what a run has seen of it, then
\* the commits and the version that an archive's manifest states are those its
\* bytes were built from, for every archive at every later time.
THEOREM Provenance == Spec => ManifestNamesSources
<1>1. Init => ReadAtSources /\ Named
  BY DEF Init, ReadAtSources, Named, Readable
<1>2. IInv /\ ReadAtSources /\ BuiltFromHead /\ HeadHeld /\ [Next]_vars => ReadAtSources'
  BY ReadStep
<1>3. IInv /\ ReadAtSources /\ HeadHeld /\ Named /\ [Next]_vars => Named'
  <2> SUFFICES ASSUME IInv, ReadAtSources, HeadHeld, Named, [Next]_vars,
                      NEW v \in Versions, NEW p \in Platform, NEW b \in bundle'[v][p]
               PROVE  NamesSources(b)
    BY DEF Named, Readable, NamesSources
  <2>1. CASE b \in bundle[v][p]
    BY <2>1 DEF Named, Readable
  <2>2. CASE phase = "writing bundle" /\ b = ThisRuns
    BY <2>2 DEF ReadAtSources, HeadHeld, NamesSources, ThisRuns
  <2> QED
    BY <2>1, <2>2, NewArchives
<1>4. ManifestNamesSources <=> ([](BuiltFromHead /\ HeadHeld) => []Named)
  BY DEF ManifestNamesSources, Named
<1> QED
  BY <1>1, <1>2, <1>3, <1>4, SpecInv, PTL DEF Spec
=============================================================================
