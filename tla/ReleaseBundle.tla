---------------------------- MODULE ReleaseBundle ----------------------------
(***************************************************************************)
(* `build.py release` (tools/build.py cmd_release, tools/build/release.py):*)
(* one manifest and one archive per platform are put into the output       *)
(* directory from files that other processes may rebuild meanwhile.        *)
(*                                                                         *)
(* The bytes of a file, and their sha256, are represented by the commit    *)
(* the file was built from.  An optional value is a set of at most one     *)
(* element; an archive that a dead writer left torn counts as none.        *)
(***************************************************************************)
EXTENDS Naturals, Sequences

CONSTANTS
  Device,     \* the device artifacts, in the order release_members lists them
  Platforms,  \* RELEASE_PLATFORMS, in order
  MaxCommit,  \* bound: the repository has the commits 0 .. MaxCommit
  Release     \* Release[c]: content of the VERSION file at commit c

Commit == 0 .. MaxCommit
Artifact == {Device[i] : i \in DOMAIN Device}
Platform == {Platforms[i] : i \in DOMAIN Platforms}
Versions == {Release[c] : c \in Commit}
Option(S) == {{}} \cup {{x} : x \in S}

ASSUME BundleConstants ==
  /\ MaxCommit \in Nat
  /\ DOMAIN Release = Commit
  /\ Device \in Seq(Artifact) /\ Len(Device) > 0
  /\ Platforms \in Seq(Platform) /\ Len(Platforms) > 0
  /\ \A i, j \in 1 .. Len(Platforms) : Platforms[i] = Platforms[j] => i = j

VARIABLES
  head,      \* HEAD of the repository, VERSION and pinned submodules with it
  artifact,  \* [Artifact -> option: commit the captured file was built from]
  cli,       \* the platforms whose CLI binary has been built
  phase,     \* where the packager is
  next,      \* index of the member or platform it is at
  run,       \* the manifest as gathered so far
  bytes,     \* the device member bytes read so far
  outcome,   \* "none", "ok" or "failed"
  manifest,  \* out_dir/manifest.json
  bundle     \* [Versions -> [Platform -> option: an archive]]

tree == <<head, artifact, cli>>
dist == <<manifest, bundle>>
vars == <<head, artifact, cli, phase, next, run, bytes, outcome, manifest, bundle>>

Phases == {"idle", "cli", "submodules", "read", "manifest",
           "writing manifest", "bundle", "writing bundle"}

\* build_manifest: the version comes from cmd_release (the timestamp and
\* build.commit, read from HEAD right after it, are left out), the submodule
\* pins from submodule_provenance, the hashes from the bytes read.
Manifests == [version : Versions, sources : Commit, sha256 : [Artifact -> Commit]]
Archives == [members : [Artifact -> Commit], manifest : Manifests]

NoBytes == [a \in Artifact |-> 0]
Fresh == [version |-> Release[0], sources |-> 0, sha256 |-> NoBytes]

TypeOK ==
  /\ head \in Commit
  /\ artifact \in [Artifact -> Option(Commit)]
  /\ cli \subseteq Platform
  /\ phase \in Phases
  /\ next \in 1 .. Len(Device) + Len(Platforms)
  /\ phase = "idle" => next = 1
  /\ run \in Manifests
  /\ bytes \in [Artifact -> Commit]
  /\ outcome \in {"none", "ok", "failed"}
  /\ manifest \subseteq Manifests
  /\ bundle \in [Versions -> [Platform -> Option(Archives)]]

Init ==
  /\ head = 0
  /\ artifact = [a \in Artifact |-> {}]
  /\ cli = {}
  /\ phase = "idle"
  /\ next = 1
  /\ run = Fresh
  /\ bytes = NoBytes
  /\ outcome = "none"
  /\ manifest = {}
  /\ bundle = [v \in Versions |-> [p \in Platform |-> {}]]

-----------------------------------------------------------------------------
(* The tree changes under the packager's feet.                              *)

\* A commit, a checkout of another branch, a release bump.
Checkout ==
  /\ \E c \in Commit \ {head} : head' = c
  /\ UNCHANGED <<artifact, cli, phase, next, run, bytes, outcome, dist>>

\* A build step replaces one artifact, or a clean removes it.
Rebuild(a) ==
  /\ \E c \in {{}, {head}} \ {artifact[a]} : artifact' = [artifact EXCEPT ![a] = c]
  /\ UNCHANGED <<head, cli, phase, next, run, bytes, outcome, dist>>

RebuildCli(p) ==
  /\ cli' = IF p \in cli THEN cli \ {p} ELSE cli \cup {p}
  /\ UNCHANGED <<head, artifact, phase, next, run, bytes, outcome, dist>>

-----------------------------------------------------------------------------
(* cmd_release.                                                              *)

Goto(label) == phase' = label /\ UNCHANGED <<next, outcome>>

Fail ==
  /\ phase' = "idle"
  /\ outcome' = "failed"
  /\ next' = 1 /\ run' = Fresh /\ bytes' = NoBytes
  /\ UNCHANGED tree

resolve_version ==
  /\ phase = "idle"
  /\ run' = [Fresh EXCEPT !.version = Release[head]]
  /\ bytes' = NoBytes
  /\ phase' = "cli"
  /\ next' = 1
  /\ outcome' = "none"
  /\ UNCHANGED <<tree, dist>>

-----------------------------------------------------------------------------
(* write_release_bundles.                                                   *)

check_cli ==
  /\ phase = "cli"
  /\ \/ /\ Platform \subseteq cli
        /\ Goto("submodules")
        /\ UNCHANGED <<run, bytes, tree>>
     \/ /\ ~ Platform \subseteq cli
        /\ Fail
  /\ UNCHANGED dist

submodule_provenance ==
  /\ phase = "submodules"
  /\ run' = [run EXCEPT !.sources = head]
  /\ Goto("read")
  /\ UNCHANGED <<bytes, tree, dist>>

\* Slip: a member that is missing is taken from an archive that lies there.
read_member_reuses ==
  /\ phase = "read"
  /\ next <= Len(Device)
  /\ LET a == Device[next]
         Kept == {b.members[a] : b \in UNION {bundle[v][p] : v \in Versions, p \in Platform}}
     IN \/ \E c \in IF artifact[a] = {} THEN Kept ELSE artifact[a] :
             /\ bytes' = [bytes EXCEPT ![a] = c]
             /\ run' = [run EXCEPT !.sha256[a] = c]
             /\ next' = next + 1
             /\ UNCHANGED <<phase, outcome, tree>>
        \/ artifact[a] = {} /\ Kept = {} /\ Fail
  /\ UNCHANGED dist

\* The members of the first platform are read once: the device artifacts,
\* which are hashed from the bytes read, and then its CLI.
read_member ==
  /\ phase = "read"
  /\ next <= Len(Device)
  /\ LET a == Device[next] IN
       \/ \E c \in artifact[a] :
            /\ bytes' = [bytes EXCEPT ![a] = c]
            /\ run' = [run EXCEPT !.sha256[a] = c]
            /\ next' = next + 1
            /\ UNCHANGED <<phase, outcome, tree>>
       \/ artifact[a] = {} /\ Fail
  /\ UNCHANGED dist

read_first_cli ==
  /\ phase = "read"
  /\ next = Len(Device) + 1
  /\ \/ /\ Platforms[1] \in cli
        /\ Goto("manifest")
        /\ UNCHANGED <<run, bytes, tree>>
     \/ Platforms[1] \notin cli /\ Fail
  /\ UNCHANGED dist

\* manifest.json is truncated, then written, before any archive is.
open_manifest ==
  /\ phase = "manifest"
  /\ manifest' = {}
  /\ Goto("writing manifest")
  /\ UNCHANGED <<run, bytes, tree, bundle>>

write_manifest ==
  /\ phase = "writing manifest"
  /\ manifest' = {run}
  /\ phase' = "bundle"
  /\ next' = 1
  /\ UNCHANGED <<run, bytes, outcome, tree, bundle>>

\* One platform: its CLI is read now, the archive is truncated ...
\* Slip: a platform without a CLI is passed over.
open_bundle_skips ==
  /\ phase = "bundle"
  /\ next <= Len(Platforms)
  /\ IF Platforms[next] \in cli
     THEN /\ bundle' = [bundle EXCEPT ![run.version][Platforms[next]] = {}]
          /\ Goto("writing bundle")
     ELSE /\ next' = next + 1
          /\ UNCHANGED <<phase, outcome, bundle>>
  /\ UNCHANGED <<run, bytes, tree, manifest>>

open_bundle ==
  /\ phase = "bundle"
  /\ next <= Len(Platforms)
  /\ LET p == Platforms[next] IN
       \/ /\ p \in cli
          /\ bundle' = [bundle EXCEPT ![run.version][p] = {}]
          /\ Goto("writing bundle")
          /\ UNCHANGED <<run, bytes, tree>>
       \/ p \notin cli /\ Fail /\ UNCHANGED bundle
  /\ UNCHANGED manifest

\* ... and written, with the device bytes read before.
\* Slip: every member is read again for the archive.
write_bundle_rereads ==
  /\ phase = "writing bundle"
  /\ \E new \in [Artifact -> Commit] :
       /\ \A a \in Artifact : new[a] \in artifact[a]
       /\ bundle' = [bundle EXCEPT ![run.version][Platforms[next]] =
                       {[members |-> new, manifest |-> run]}]
  /\ phase' = "bundle"
  /\ next' = next + 1
  /\ UNCHANGED <<run, bytes, outcome, tree, manifest>>

write_bundle ==
  /\ phase = "writing bundle"
  /\ bundle' = [bundle EXCEPT ![run.version][Platforms[next]] =
                  {[members |-> bytes, manifest |-> run]}]
  /\ phase' = "bundle"
  /\ next' = next + 1
  /\ UNCHANGED <<run, bytes, outcome, tree, manifest>>

\* Slip: the position survives the run.
DoneKeepsNext ==
  /\ phase = "bundle" /\ next = Len(Platforms) + 1
  /\ phase' = "idle" /\ outcome' = "ok" /\ bytes' = NoBytes
  /\ UNCHANGED <<next, run, tree, dist>>

Done ==
  /\ phase = "bundle"
  /\ next = Len(Platforms) + 1
  /\ phase' = "idle"
  /\ outcome' = "ok"
  /\ next' = 1 /\ bytes' = NoBytes
  /\ UNCHANGED <<run, tree, dist>>

\* A full disk, a failing git or ct-build call, Ctrl-C.
Die ==
  /\ phase # "idle"
  /\ Fail
  /\ UNCHANGED dist

Next ==
  \/ Checkout
  \/ \E a \in Artifact : Rebuild(a)
  \/ \E p \in Platform : RebuildCli(p)
  \/ resolve_version 
  \/ check_cli \/ submodule_provenance \/ read_member
  \/ read_first_cli \/ open_manifest \/ write_manifest
  \/ open_bundle \/ write_bundle \/ Done
  \/ Die

Spec == Init /\ [][Next]_vars
-----------------------------------------------------------------------------
(* Properties.                                                              *)

Readable(v, p) == bundle[v][p]

\* INSTALL.md: "Every sha256 in the manifest was computed over the artifact
\* bytes as they appear" in the archive.  True of every archive in the output
\* directory at every moment, however the artifacts are rebuilt while the
\* packager runs and wherever a run fails.
ManifestMatchesBundle ==
  \A v \in Versions, p \in Platform : \A b \in Readable(v, p) :
    \A a \in Artifact : b.manifest.sha256[a] = b.members[a]

\* INSTALL.md: "The device artifacts are identical in both; only the CLI
\* differs".  A run that succeeds leaves one whole archive per platform, all
\* with the manifest.json that lies beside them: none left over from an
\* earlier run of that version, none from the middle of a rebuild.
BundlesAgree ==
  outcome = "ok" =>
    \A p \in Platform : \E b \in Readable(run.version, p) :
      manifest = {b.manifest} /\ b.manifest = run

(* INSTALL.md: "Exact pinned source commits and component versions are      *)
(* recorded in `manifest.json`".  The packager reads them from HEAD, and    *)
(* the artifacts as it finds them.  Two conditions, which the release       *)
(* workflow meets and the packager does not check, tie the one to the other.*)

\* Artifacts are built from HEAD, and cleaned away before HEAD moves.
BuiltFromHead == \A a \in Artifact : artifact[a] \subseteq {head}

\* HEAD is still what the run under way has seen of it.
HeadHeld ==
  /\ phase # "idle" => run.version = Release[head]
  /\ phase \notin {"idle", "cli", "submodules"} => run.sources = head

NamesSources(b) ==
  /\ b.manifest.version = Release[b.manifest.sources]
  /\ \A a \in Artifact : b.members[a] = b.manifest.sources

\* Under these, the commits and the version that a manifest states are those
\* the bytes in the archive were built from, for every archive, also those of
\* runs before the last and beside a run that dies.
ManifestNamesSources ==
  [](BuiltFromHead /\ HeadHeld) =>
    [](\A v \in Versions, p \in Platform : \A b \in Readable(v, p) : NamesSources(b))
=============================================================================
