--------------------------- MODULE ToolchainImage ---------------------------
(***************************************************************************)
(* The toolchain image, from a maintainer's shell to a release:            *)
(* tools/build_main.py builds it, pushes it and pins it by digest in       *)
(* toolchain/IMAGE_DIGEST; `build.py snapshot` copies its toolchains into  *)
(* a volume; release.yaml pulls it by the committed pin.                   *)
(*                                                                         *)
(* An image is named by its digest, here a number: no two builds give the  *)
(* same.  In it are the version of toolchain/ it was built from, that is   *)
(* two toolchains (what ToolchainContract promises of each stage) and the  *)
(* ct-build that reports their versions.                                   *)
(***************************************************************************)
EXTENDS Integers, Sequences

CONSTANTS
  Shells,     \* shells of one maintainer, in one checkout
  MaxImages,  \* bound: images built
  MaxTree     \* bound: edits of toolchain/

ASSUME ImageConstants == MaxImages \in Nat \ {0} /\ MaxTree \in Nat

Runtime == {"podman", "docker"}
Target == {"mips", "arm"}
Version == 0 .. MaxTree

NoImage == 0  \* also no digest: the all-zeros placeholder, an empty file
Torn == -1    \* a tree in part, or mixed; a text that holds no digest
Image == 1 .. MaxImages
Digest == Image \cup {NoImage}

Commit == [tree : Version, pin : Digest]

VARIABLES
  tree,      \* version of toolchain/ in the checkout
  images,    \* what each image was built from
  local,     \* [Runtime -> the image the local tag names]
  tagged,    \* the image the registry's tag names
  pushed,    \* the images in the registry
  pin,       \* toolchain/IMAGE_DIGEST
  volume,    \* the snapshot: [Target -> the image it was copied from]
  crossed,   \* history: two backups have overlapped, and none alone cleared it since
  sh,        \* [Shells -> the command a shell runs]
  head,      \* the commit on the branch
  ci         \* the workflow run

disk == <<tree, images, local, pin>>
registry == <<tagged, pushed>>
github == <<head, ci>>
snapshot == <<volume, crossed>>
vars == <<disk, snapshot, sh, registry, github>>

\* A command: its place, its runtime, the version of toolchain/ or the image
\* it works from, what push left in the digest file and on stdout, the trees
\* it has yet to copy.
Idle == [pc |-> "idle", rt |-> "podman", push |-> FALSE, src |-> 0,
         image |-> NoImage, file |-> NoImage, stdout |-> NoImage, todo |-> {}]
Command ==
  [pc : {"idle", "build", "push", "extract", "truncate", "write", "clear", "copy"},
   rt : Runtime, push : BOOLEAN, src : Version, image : Digest,
   file : Digest \cup {Torn}, stdout : Digest, todo : SUBSET Target]

NoRun == [pc |-> "none", commit |-> [tree |-> 0, pin |-> NoImage],
          image |-> NoImage, versions |-> 0]
Run == [pc : {"none", "pull", "emit", "package"}, commit : Commit,
        image : Digest, versions : Version]

Built == 1 .. Len(images)

TypeOK ==
  /\ tree \in Version
  /\ images \in Seq(Version) /\ Len(images) <= MaxImages
  /\ local \in [Runtime -> Built \cup {NoImage}]
  /\ tagged \in Built \cup {NoImage} /\ pushed \subseteq Built
  /\ pin \in Built \cup {NoImage}
  /\ volume \in [Target -> Built \cup {NoImage, Torn}] /\ crossed \in BOOLEAN
  /\ sh \in [Shells -> Command]
  /\ head \in Commit /\ ci \in Run

Init ==
  /\ tree = 0 /\ images = <<>> /\ pin = NoImage
  /\ local = [r \in Runtime |-> NoImage]
  /\ volume = [t \in Target |-> NoImage] /\ crossed = FALSE
  /\ sh = [o \in Shells |-> Idle]
  /\ tagged = NoImage /\ pushed = {}
  /\ head = [tree |-> 0, pin |-> NoImage]
  /\ ci = NoRun

-----------------------------------------------------------------------------
(* The maintainer edits toolchain/ and commits the checkout as it is.       *)

Edit ==
  /\ tree < MaxTree
  /\ tree' = tree + 1
  /\ UNCHANGED <<images, local, pin, snapshot, sh, registry, github>>

CommitAll ==
  /\ head' = [tree |-> tree, pin |-> pin]
  /\ UNCHANGED <<disk, snapshot, sh, registry, ci>>

-----------------------------------------------------------------------------
(* cmd_image                                                                *)

At(o, p) == sh[o].pc = p
Becomes(o, c) == sh' = [sh EXCEPT ![o] = c]
Goto(o, p) == Becomes(o, [sh[o] EXCEPT !.pc = p])

\* The runtime takes toolchain/ as it is when the build starts.
StartImage(o, r, push) ==
  /\ At(o, "idle")
  /\ Becomes(o, [Idle EXCEPT !.pc = "build", !.rt = r, !.push = push, !.src = tree])
  /\ UNCHANGED <<disk, snapshot, registry, github>>

\* Every stage has succeeded.
BuildImage(o) ==
  /\ At(o, "build")
  /\ Len(images) < MaxImages
  /\ images' = Append(images, sh[o].src)
  /\ local' = [local EXCEPT ![sh[o].rt] = Len(images) + 1]
  /\ IF sh[o].push THEN Becomes(o, [Idle EXCEPT !.pc = "push", !.rt = sh[o].rt])
     ELSE Becomes(o, Idle)
  /\ UNCHANGED <<tree, pin, snapshot, registry, github>>

\* The tag is pushed, whichever image it names by now.
Upload(i) == tagged' = i /\ pushed' = pushed \cup {i}

\* podman writes the digest to a file, which may come out empty or garbled;
\* docker prints it.
Push(o, file, stdout) ==
  /\ At(o, "push")
  /\ file \in IF sh[o].rt = "podman" THEN {local["podman"], NoImage, Torn}
              ELSE {NoImage}
  /\ stdout \in {local[sh[o].rt], NoImage}
  /\ Upload(local[sh[o].rt])
  /\ Becomes(o, [sh[o] EXCEPT !.pc = "extract", !.file = file, !.stdout = stdout])
  /\ UNCHANGED <<disk, snapshot, github>>

\* The registry has the image but the push is reported as failed.
PushLost(o) ==
  /\ At(o, "push")
  /\ Upload(local[sh[o].rt])
  /\ Becomes(o, Idle)
  /\ UNCHANGED <<disk, snapshot, github>>

\* Slip: the local image is inspected instead.
inspected_digest(o) == local[sh[o].rt]

\* A digest file that is not empty is the only source asked.
extract_pushed_digest(o) ==
  IF sh[o].file # NoImage THEN sh[o].file ELSE sh[o].stdout

\* Slip: a text that is not a digest is taken for one.
ExtractUnchecked(o) ==
  /\ At(o, "extract")
  /\ extract_pushed_digest(o) # NoImage
  /\ Becomes(o, [Idle EXCEPT !.pc = "truncate", !.image = extract_pushed_digest(o)])
  /\ UNCHANGED <<disk, snapshot, registry, github>>

Extract(o) ==
  /\ At(o, "extract")
  /\ extract_pushed_digest(o) \in Image
  /\ Becomes(o, [Idle EXCEPT !.pc = "truncate", !.image = extract_pushed_digest(o)])
  /\ UNCHANGED <<disk, snapshot, registry, github>>

NoDigest(o) ==
  /\ At(o, "extract")
  /\ extract_pushed_digest(o) \notin Image
  /\ Becomes(o, Idle)
  /\ UNCHANGED <<disk, snapshot, registry, github>>

\* write_text opens the file, which empties it, and writes.
Truncate(o) ==
  /\ At(o, "truncate")
  /\ pin' = NoImage
  /\ Goto(o, "write")
  /\ UNCHANGED <<tree, images, local, snapshot, registry, github>>

write_image_digest(o) ==
  /\ At(o, "write")
  /\ pin' = sh[o].image
  /\ Becomes(o, Idle)
  /\ UNCHANGED <<tree, images, local, snapshot, registry, github>>

-----------------------------------------------------------------------------
(* cmd_snapshot backup.  (restore only looks.)                              *)

require_image(r) == local[r] # NoImage

BackingUp(o) == sh[o].pc \in {"clear", "copy"}

\* To the volume podman keeps.  (docker's is another.)  Nothing keeps a second
\* shell from doing the same at the same time.
StartBackup(o) ==
  /\ At(o, "idle")
  /\ require_image("podman")
  /\ Becomes(o, [Idle EXCEPT !.pc = "clear", !.image = local["podman"],
                             !.todo = Target])
  /\ crossed' = (crossed \/ \E p \in Shells : BackingUp(p))
  /\ UNCHANGED <<disk, volume, registry, github>>

\* Slip: the new toolchains are copied over the old ones.
CopyOver(o) ==
  /\ At(o, "clear")
  /\ UNCHANGED volume
  /\ crossed' = (crossed /\ \E p \in Shells \ {o} : BackingUp(p))
  /\ Goto(o, "copy")
  /\ UNCHANGED <<disk, registry, github>>

\* rm -rf /backup/*
Clear(o) ==
  /\ At(o, "clear")
  /\ volume' = [t \in Target |-> NoImage]
  /\ crossed' = (crossed /\ \E p \in Shells \ {o} : BackingUp(p))
  /\ Goto(o, "copy")
  /\ UNCHANGED <<disk, registry, github>>

\* It dies with a tree untouched, gone or torn.
ClearDies(o) ==
  /\ At(o, "clear")
  /\ volume' \in {v \in [Target -> Digest \cup {Torn}] :
                   \A t \in Target : v[t] \in {volume[t], NoImage, Torn}}
  /\ Becomes(o, Idle)
  /\ UNCHANGED <<disk, crossed, registry, github>>

\* Over a tree that is there, of another image or torn, a copy may leave a
\* mixture.
Copied(o, t) ==
  {sh[o].image} \cup IF volume[t] \in {NoImage, sh[o].image} THEN {} ELSE {Torn}

\* cp -a takes one tree after the other.
Copy(o, t) ==
  /\ At(o, "copy")
  /\ t \in sh[o].todo
  /\ \E left \in Copied(o, t) : volume' = [volume EXCEPT ![t] = left]
  /\ IF sh[o].todo = {t} THEN Becomes(o, Idle)
     ELSE Becomes(o, [sh[o] EXCEPT !.todo = @ \ {t}])
  /\ UNCHANGED <<disk, crossed, registry, github>>

CopyDies(o, t) ==
  /\ At(o, "copy")
  /\ t \in sh[o].todo
  /\ volume' = [volume EXCEPT ![t] = Torn]
  /\ Becomes(o, Idle)
  /\ UNCHANGED <<disk, crossed, registry, github>>

-----------------------------------------------------------------------------
\* A command run by build.py exits nonzero before it has done anything, or
\* build.py is killed.
Dies(o) ==
  /\ ~ At(o, "idle")
  /\ Becomes(o, Idle)
  /\ UNCHANGED <<disk, snapshot, registry, github>>

-----------------------------------------------------------------------------
(* release.yaml, as far as the image is concerned.                          *)

Dispatch ==
  /\ ci.pc = "none"
  /\ ci' = [NoRun EXCEPT !.pc = "pull", !.commit = head]
  /\ UNCHANGED <<disk, snapshot, sh, registry, head>>

\* Slip: the moving tag is pulled.
PullTag ==
  /\ ci.pc = "pull"
  /\ tagged # NoImage
  /\ ci' = [ci EXCEPT !.pc = "emit", !.image = tagged]
  /\ UNCHANGED <<disk, snapshot, sh, registry, head>>

\* By the digest in the checkout; none, or a placeholder, fails the job.
Pull ==
  /\ ci.pc = "pull"
  /\ ci.commit.pin \in pushed
  /\ ci' = [ci EXCEPT !.pc = "emit", !.image = ci.commit.pin]
  /\ UNCHANGED <<disk, snapshot, sh, registry, head>>

\* ct-build emit-versions of the image itself.
EmitVersions ==
  /\ ci.pc = "emit"
  /\ ci' = [ci EXCEPT !.pc = "package", !.versions = images[ci.image]]
  /\ UNCHANGED <<disk, snapshot, sh, registry, head>>

\* The release is packaged, and the run ends.
Package ==
  /\ ci.pc = "package"
  /\ ci' = NoRun
  /\ UNCHANGED <<disk, snapshot, sh, registry, head>>

JobFails ==
  /\ ci.pc # "none"
  /\ ci' = NoRun
  /\ UNCHANGED <<disk, snapshot, sh, registry, head>>

-----------------------------------------------------------------------------
Step(o) ==
  \/ BuildImage(o)
  \/ \E file, stdout \in -1 .. MaxImages : Push(o, file, stdout)
  \/ PushLost(o) \/ Extract(o) \/ NoDigest(o)
  \/ Truncate(o) \/ write_image_digest(o)
  \/ Clear(o) \/ ClearDies(o) \/ \E t \in Target : Copy(o, t) \/ CopyDies(o, t)
  \/ Dies(o)

Next ==
  \/ Edit \/ CommitAll
  \/ \E o \in Shells : StartBackup(o)
  \/ \E o \in Shells, r \in Runtime, push \in BOOLEAN : StartImage(o, r, push)
  \/ \E o \in Shells : Step(o)
  \/ Dispatch \/ Pull \/ EmitVersions \/ Package \/ JobFails

Spec == Init /\ [][Next]_vars

-----------------------------------------------------------------------------
(* Properties.                                                              *)

\* "CI pulls by digest and hard-fails": it never has to because of a pin that
\* names an image nobody can pull.  Two shells may build and push under one
\* tag; a push may be lost; the file may be cut short.
PinCanBePulled == pin # NoImage => pin \in pushed

\* What is released from a commit was built in the image that commit pins,
\* whatever was pushed or pinned since, and names the toolchains in that
\* image, not those toolchain/ describes by now.
ReleasesFollowThePin ==
  ci.pc = "package" => /\ ci.image = ci.commit.pin
                       /\ ci.versions = images[ci.image]

\* "a sysroot-less snapshot would pass": a backup that dies leaves less in the
\* volume, never the toolchains of two images.  Two that overlap, with the tag
\* moved in between, may leave a mixture, and build.py has no lock; the next
\* that clears the volume while no other runs puts it right.
VolumeIsOfOneImage ==
  ~ crossed =>
    \A t, u \in Target :
      volume[t] \in Image /\ volume[u] \in Image => volume[t] = volume[u]
=============================================================================
