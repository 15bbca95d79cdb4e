# Formal models of v3ke-klipper

The repository puts mainline Klipper on a Creality Ender 3 V3 KE: it builds a
cross toolchain, the firmware of the motion MCU and the MIPS host artifacts,
packages and publishes them, and ships a CLI (`v3ke`) that verifies, stages and
flashes them.  This directory holds TLA+ modules of its stateful parts, the TLC
runs over them and proofs checked by TLAPS.

## 1. The system

| Component | Source | State it keeps | Operations |
|---|---|---|---|
| `v3ke flash` | `tools/v3ke/flash.nim` | flash of the motion MCU, image files, backup files | backup, katapult, klipper, all |
| `v3ke verify`, `deploy`, `rollout` | `verify.nim`, `deploy.nim`, `rollout.nim`, `sshdev.nim` | local host artifacts, staging directory on the printer | ABI check, push, validate on the device, the three in sequence with `flash all` |
| Artifact build | `tools/build.py`, `tools/build/{orchestrate,artifacts,_makesteps,arm_mcu,host}.py` | source tree, `out/` directories, captured files | 13 steps: two ARM makes, captures, gcc, MIPS make, capture |
| ABI checker | `tools/build/elf.py`, `tools/v3ke/elf.nim`, `tools/abi/` | none | parse an ELF, compare with the device's ABI |
| Release packaging | `tools/build/release.py`, `build.py release` | output directory: manifest and one archive per platform | read, hash, write manifest, write archives |
| Release workflow | `.github/workflows/release.yaml`, `scripts/repro-check.sh` | branch, tags, releases | bump, commit, tag, build twice and compare, build, package, sign, publish |
| CI workflow | `.github/workflows/ci.yaml` | none | tests, two-runner reproducibility compare |
| `ct-build` | `toolchain/ct_build.py` | build directory (`.config`), install prefix | configure, build (with the nano merge), verify, all, emit-versions |
| Toolchain image | `tools/build_main.py`, `build.py snapshot`, `toolchain/Containerfile` | local images and tags, registry, `IMAGE_DIGEST`, snapshot volume | build, push and pin, backup, restore |
| Device services | `printer-filesystem-patches/etc/init.d/` | klippy and host MCU processes, pid files, printer configuration | start, stop, restart; stock MCU update; configuration rotation |
| Data | `klipper/`, `mcu-firmware/`, `pinout/`, `nebula-display/`, docs | - | - |

How they meet.  `ct-build all`, once per target, fills a stage of the image; the
image is pinned by digest in a committed file, and the workflow pulls it by that
digest to build in.  The build writes files in the source tree
(`external/katapult/out`, `mcu-firmware`, `klippy/chelper`); packaging reads
those files; `v3ke` reads them from a bundle or from the tree; the workflow runs
build and packaging in order.  They share nothing but files, and no file is
locked: every hand-over is a read of what some other process wrote, perhaps
meanwhile.  `flash` talks to the MCU through one `openocd` process per
operation, `deploy` to the printer through one `ssh` process per operation.

What is hard.  Failures half-way through a destructive sequence (erase, then
write); a file read twice with a rebuild in between; two makes in one tree;
a run that follows one that failed; a dispatch that cancels the one before; a
tag that moves between a build and a push; subcommands run one at a time;
service scripts that signal a process and do not wait for it.
`PROJECT.json` lists these hazards at their lines.

What makes each part correct:

* *flash*: success means that the bytes read are in the flash; one image never
  damages the other's region; and `flash all`, which erases the chip, does so
  only after it was dumped and the user agreed (`flash katapult` and `flash
  klipper` write one image and neither dump nor ask).
* *build*: exit 0 means five usable artifacts of this run's sources, as long as
  no other build works in the tree meanwhile.
* *packaging*: a manifest describes the very bytes beside it, on all platforms.
* *workflow*: a published release is the tag's commit, built reproducibly; a
  version is published once.
* *ct-build*: what `all` reports as done is the pinned toolchain, complete, and
  so it is when its three parts are run one by one; every command ends.
* *image*: the pinned digest names an image that was pushed; a release is built
  in the image its commit pins; a snapshot is of one image, unless two backups
  into it overlap.
* *rollout*: what is staged and flashed was verified; a failing gate stops; the
  chip is not changed before every gate has passed and its dump is kept.
* *services*: one klippy at a time, and one host MCU.
* *ABI checker*: the two readers decide alike.

## 2. Modules

Operators keep the source's names where there is one to keep.  Definitions
marked `Slip` are deliberately wrong variants of the definition below them.  No
specification uses them; put in its place, each makes the property it was
written for fail, which shows that the property says something about the code.

### `FlashMcu` - `v3ke flash`

| State | In the code |
|---|---|
| `chip` | the MCU's flash, a row of pages; `Address` and `Region` are `KatapultAddr`, `KlipperAddr` and `[address, address + want.len)` |
| `rdp` | readout protection |
| `host` | the system the CLI runs on |
| `file` | `FW_DIR/katapult.bin`, `FW_DIR/klipper.bin` |
| `backup` | the files `flash backup` writes |
| `cmd`, `pc`, `out`, `img`, `want` | subcommand, place in it, backup path, image, `want` of `flashOne` |
| `exit` | normal return, `V3keError` (or a death), `UserAbort` |
| `snap` | history: the flash when the command started |

`backupStock` is `DumpSucceeds`, `DumpEmpty`, `DumpFails`; `confirm` is
`ConfirmYes`, `ConfirmNo`; `eraseAll` is `EraseAll`, `EraseFails`; `flashOne`
is `ReadImage`, `ReadImageFails` (path check, existence, `readFile`),
`WriteImage`, `WriteFails` (`write_image erase` and `verify_image`, which open
the file again), `ReadBackOk`, `ReadBackFails`.  `Killed` is a death between two
openocd runs.  The world contributes `ReplaceImage` (a rebuild, an unpacked
release) and `RestoreStock` (the rollback of DEPLOY.md).

A page holds `stock`, `blank`, `corrupt` or page data; that is enough because the
code only ever compares byte strings.  A build is a sequence of page data
(`Size`, `Data`), and builds may agree in some pages: a file caught while it is
copied is a build that is the beginning of another one.  Assumption
`ImagesFit` says that the firmwares' linker scripts keep each image in its
region; `flash.nim` does not check it.  With `Noise`, a dump may silently
differ from the flash in one page, and a write may be wrong in one page, which
`verify_image` sees.  The read-back reads true or fails: a wire that corrupts a
read-back into exactly the wanted bytes is not modelled.

### `BuildContract` and `BuildTree` - `build.py artifacts`

`BuildContract` is the promise: artifacts may be any mixture while a build runs
or after it failed, but a build that succeeds leaves every one usable and built
from a source the tree held since it began.

`BuildTree` is the pipeline: `Steps` is the list `build_all_artifacts`
assembles (`katapult_steps`, `klipper_steps`, two captures, `c_helper_steps`,
`klipper_mcu_steps`, the last capture), and the actions are one iteration of
`run_steps`: a command (`Clean`, `OldDefConfig`, `MakeTarget`, `Compile`,
`Capture`, `CommandFails`), then the look at its output (`Check`,
`CheckFails`).  `Report` is `_main`.  A file is missing or has an architecture
and the version of the sources it was built from; `alien` is a MIPS ELF that
violates the ABI, `malformed` one that does not parse.

A make is as many steps as it has targets (`made` says which are done), in the
order of `Prerequisites`: `klipper.elf` after the dictionary that is linked into
it, `klipper.bin` by objcopy from whatever `klipper.elf` is there by then.  A
target that is there, because another build has made it since the clean, may be
up to date and then stays.  So two makes in one `out/` can mix: the ARM
`klipper.bin` may come out of the `klipper.elf` a MIPS make has just linked.  A
failing command leaves what it has finished, and the file it was at as it was,
removed or torn; a failing clean leaves any of its files.

The code keeps no two builds of one tree apart.  `Spec` lets them overlap, and
`build_shared` shows what comes of it; what is promised is promised of builds
that somebody keeps apart, `TurnsSpec`: one builder begins only when no other is
at a step.

### `ToolchainContract` and `CtBuild` - `ct-build`

`ToolchainContract` is what a stage of the image relies on: while `ct-build all`
runs, and after it stopped, the prefix may hold anything; when it has succeeded
the toolchain there is usable, and stays so until the next command.

`CtBuild` is one target in one container (the two targets share only caches).
`config` is the `.config` of the build directory, named after the fragment that
was spliced into it; `prefix` is `/opt/x-tools/<tuple>`: which configuration was
built there, how far, how many `*_nano.a` are merged, and whether it is
read-only; `cmd`, `pc`, `exit` are the command.  The actions are the commands
that `configure` (`SeedSample` to `AssertFails`), `build` (`HostEnv` to
`BuildFails`), `nano_merge` (`Unseal` to `Seal`) and `verify` (`Compile` to
`LoaderMismatch`) run; `Onwards` is the `if args.cmd in (...)` of `main`.
`Aborted` is any other command that exits nonzero and any death, which may leave
`.config` missing, bare or cut short (`LeftOfConfig`: it is unlinked, and then
rewritten in place); `Leavings` is what a stopped `ct-ng build` leaves.  `chain` is history: how many of configure,
build and verify have succeeded in that order.  What crosstool-NG makes of a
fragment is a constant (`Resolved`): which versions, which default ABI, whether
newlib-nano is built.  `Complete` is what the commands make sure of; `Usable` asks
also that an ARM toolchain has the newlib-nano libraries the firmware links, which
none of them looks for.

### `ToolchainImage` - `build.py image`, `build.py snapshot`, `IMAGE_DIGEST`

Shells of one maintainer work in one checkout under one tag.  `images` is every
image built, each with the version of `toolchain/` it was built from; its place
there is its digest.  `local` is what the tag names in each runtime, `tagged`
and `pushed` are the registry, `pin` is `IMAGE_DIGEST`, `volume` the snapshot,
`head` the committed checkout, `ci` a release run as far as it concerns the
image.  `StartImage`, `BuildImage`, `Push`, `PushLost`, `Extract`, `NoDigest`,
`Truncate`, `write_image_digest` are `cmd_image`; the digest file may come out
empty or garbled (`Torn`), and the tag may have moved to the other shell's image
between build and push.  `StartBackup`, `Clear`, `Copy` and their deaths are
`snapshot backup`, one tree after the other.  Nothing keeps two backups apart, so
they may overlap: one copies over the tree of another's image, or a mixture of
both comes of it (`Copied`), and `crossed`, history, says that it has happened
since a backup last ran alone.  `Dispatch`, `Pull`,
`EmitVersions`, `Package` are the steps of `release.yaml` that use the image.
`emit-versions` is modelled here, since all it does is to tell which
`toolchain/` its image is from.

### `ReleaseBundle` - `build.py release`

`resolve_version` to `Done` are the steps of `cmd_release` and
`write_release_bundles`; each file that is read, and each that is truncated and
written, is a step.  Bytes and their sha256 are represented by the commit they
were built from; CLIs are there or not.  `Checkout`, `Rebuild` and `RebuildCli`
change the tree between any two steps, `Die` ends a run anywhere.  An archive
that a dead writer left torn counts as absent.

### `ReleaseLedger` and `ReleaseWorkflow` - `release.yaml`

`ReleaseLedger` is the promise to whoever downloads a release: a version is
tagged once and published once, what is published was built from the commit the
tag names, and neither ever changes.

`ReleaseWorkflow` is the workflow as GitHub runs it.  `commits` are all commits
in the order they were made, each with its VERSION and its ancestors; `branch`,
`tag`, `published` belong to GitHub; `run[r]` is a workflow run: the job or API
call it is at (`prepare`, `tag`, `windows`, `release`, `publish`), its inputs,
`github.sha`, the outputs of `prepare-version`.  `MoveBranch` creates the release
commit and moves the branch without force, which GitHub refuses unless the new
commit descends from the tip (`FastForward`); `CreateTag` follows as a call of
its own.  `BuildWindows`, `Build`, `BuildDiverges`, `Publish`, `ReleaseExists`
are the later jobs.  `Dispatch`, `Queue`, `Begin`, `Cancelled` are the
concurrency group with `cancel-in-progress`; `Rerun` is a re-run of a whole run
or of its failed jobs; `JobFails` and the second disjunct of `Step` are failing
commands and calls whose answer is lost; `Push` is everybody else.

The bytes of a build are left out: the two builds that are compared agree
(`Build`) or not (`BuildDiverges`), and what is published is named by the commit
that was checked out.

### `AbiCheck` - the two ELF readers

Operators only.  `inspect_elf`, `check_abi` are `tools/build/elf.py`; `readElf`,
`checkAbi` are `tools/v3ke/elf.nim`; `PyMalformed` and `NimMalformed` the inputs
each refuses.  A file is its length, its header fields, the words its tables
may hold, the `fp_abi` bytes, and the ranges that hold the loader's name;
`e_flags` comes apart as the masks take it.  Each side has its own table
(`DEVICE_ABI`, `ACCEPTED_FP_ABI` from `abi_spec.py`; `flagChecks`,
`AcceptedFpAbi`, the copy that `elf.nim` keeps by hand), so that a table changed
on one side breaks the agreement.  `Conventional` names where the two
part ways: elf.py takes table entries to be 32 and 40 bytes whatever the header
says and knows no size limit; elf.nim believes the header and stops at 64 MB.

### `Rollout` - `v3ke verify`, `deploy`, `rollout`

Extends `FlashMcu` and runs its actions as the last step of a rollout.  `local`
are the two host artifacts, `stage` the staging directory on the printer,
`step` the place in the command, `good` is `verifyCmd`'s variable of that name;
`checked` is history.  Each read of a local file is a step (`checkMips`,
`pushFile`), and so is what the printer's Python and loader say (`Load`,
`LoadRefused`); `ReplaceHostArtifact` and `ReplaceFirmware` may come between any
two.  `CallFlash`, `FlashStep`, `FlashReturns` nest `flashCmd(@["all"])`;
`FlashAlone` is a flash given by hand.  Which contents the printer loads is a
constant (`Loads`); a torn file does not load.

## 3. Runs

| Run | Configuration | Shows |
|---|---|---|
| `flash` | 3 pages (1 of the bootloader), 1 Katapult build, 2 Klipper builds of 1 and 2 pages, 1 backup file, both hosts, faults and noise | `TypeOK`, `SuccessMeansFlashed`, `EraseNeedsDump`, `AbortLeavesChip`, `RollbackStaysPossible`, `OtherRegionKept` |
| `flash_half` | the same chip, POSIX, no faults or noise | counterexample to `NoHalfFlashedMcu` |
| `flash_backup_kept` | the same | counterexample to `StockBackupKept` |
| `build` | 2 builders that take turns (`TurnsSpec`), source versions 0 and 1 | `TypeOK`, `CapturesFromTheRightBuild`, `KeepsContract` (refinement of `BuildContract`) |
| `build_shared` | 2 builders that overlap | counterexample to `SuccessMeansMipsElf` |
| `release` | 2 artifacts, 2 platforms, 2 commits of one version | `TypeOK`, `ManifestMatchesBundle`, `BundlesAgree`, `ManifestNamesSources` |
| `release_workflow` | 2 branches, 2 runs, 4 commits, faults; a patch release | `TypeOK`, `TagsAreOnBranches`, `TipsOnlyAdvance`, `KeepsLedger` (refinement of `ReleaseLedger`) |
| `release_none` | 1 branch, 1 run, VERSION 0.2.0, every bump | counterexample to `NoneOnlyCounts` |
| `rollout` | 2 pages, 1 build of each image, 2 contents of the library and 3 of the host program, 2 commands, faults | `RolloutTypeOK`, `FlashesBehindTheGate`, `RolloutIsWhole`, `VerifiesBeforeItStages`, `FlashesWhatItVerified`, `VerifyAgreesWithBuild`, `PointOfNoReturn` |
| `ct_build` | 3 fragments: as committed, a misnamed symbol, another ABI; both targets; fair | `TypeOK`, `SeparatelyAsTogether`, `KeepsContract` (refinement of `ToolchainContract`), `CommandsEnd` (liveness) |
| `ct_build_nano` | a fourth fragment, without newlib-nano | counterexample to `SuccessIsUsable` |
| `toolchain_image` | 2 shells (symmetric), 2 images, 1 edit of `toolchain/`, both runtimes | `TypeOK`, `PinCanBePulled`, `ReleasesFollowThePin`, `VolumeIsOfOneImage` |

Bounds.

* *flash*: three pages are one for the bootloader, and two for the application so
  that an image can be cut short, shrink and leave a page behind.  Two Klipper
  files are the one that was read and the one that replaced it; one is the
  beginning of the other, so that the read-back of the shorter passes on a chip
  that holds the longer.  Commands follow each other without bound.
* *build*, `MaxSource`: one edit, before, during or between builds, is what an
  artifact older than its run needs.  Two builders are the one that leaves a
  mess and the one that meets it; builds are not bounded, and the theorems hold
  for any number of builders and edits.
* *packaging*, `MaxCommit`: a stale and a fresh file; two artifacts, for one to
  be read before a rebuild and one after.  Packager runs are not bounded.
* *workflow*, `MaxCommits`: the first commit and three more are enough for two
  release commits and a push between or beside them; at the bound a release
  commit is refused.  Two runs are the one that is cancelled and the one that
  cancels; a finished run's place is taken again, so the number of dispatches is
  not bounded.  Runs are symmetric: no property names one.  `release_none`
  needs no race, so one run and one label.
* *rollout*, `MaxCalls`: two commands, one for the state it leaves behind in the
  staging directory, the flash and the backup, and one to meet that state.  The
  contents of the artifacts are: what the build makes; a library with the
  legacy NaN encoding, which the check refuses; a program cut short, which no
  reader parses; and a program built anew, as good as the first, which only a
  comparison with the verified one tells apart.  Flashing itself is checked on a larger chip by `flash`.

* *ct-build*: no bound; the fragments are one of each kind that `configure` and
  `verify` can tell apart, and in `ct_build_nano` the one (`noNano`) that neither
  can.  A `.config` may also be torn, in both.
* *image*, `MaxImages`: the image that was pinned and the one that moves the tag;
  `MaxTree`: `toolchain/` before and after an edit.  Two shells are the one that
  pushes and the one that builds in between; commands, pushes, commits, backups
  and releases are not bounded.  Shells are symmetric: no property names one.
  Backups may overlap.

Deadlock is checked in every run.

Fairness.  `ct_build` assumes `WF_vars(Step)`: a `ct-build` that has begun
keeps going.  It is one process that runs one command after another and waits
for nobody, so all the assumption says is that each command it runs ends, well or
not; a `ct-ng` that hangs for ever is excluded, because no line of the code has a
timeout.  The failing actions are in `Step` too, so fairness promises no
success: `CommandsEnd` holds also when everything fails.  The other runs claim
no liveness: their programs are straight lines of such commands, or wait for
people.

What the counterexamples show:

* **`flash_half`**: `flash all` erases before it looks for the images.  A
  missing one ends the command with a blank MCU, although `flash.nim:3` says
  "Any failure raises and stops (no half-flashed MCU)".  With the default
  `FW_DIR` this is the normal outcome in a release bundle, whose images are
  under `firmware/`.  `CheckedFirstIsWhole` proves what would keep the promise.
* **`flash_backup_kept`**: a second `flash backup` or `flash all` overwrites the
  dump DEPLOY.md:63 calls "your only route back to stock".
* **`build_shared`**: two builds in one tree: one exits 0 with an ARM
  `klipper_mcu.elf`, since the captured copy is never checked (`build.py:12-14`
  promises the ABI check of that file).  `TurnsKeepMips` proves that builders
  that take turns are safe from it.
* **`ct_build_nano`**: `ct-build all --target arm` exits 0 on a toolchain without
  newlib-nano: the merge (`ct_build.py:115`) finds nothing to copy and says so only
  in a count, `expect` names no newlib-nano symbol, and verify compiles an object
  without linking it.  `ct_build.py:108` says that the firmware links `-lc_nano`,
  `Containerfile:107` that ct-build "validates the result (a Cortex-M3 object) and
  fails if wrong".  The committed fragment is not of this kind: crosstool-NG's
  `arm-none-eabi` sample selects newlib-nano, and the fragment inherits that.
  `ContractKept` proves that an assertion of it in configure (`PinnedHasNano`)
  is what the contract lacks.
* **`release_none`**: `bump=none` with another label than VERSION has starts a new
  series at .1 on the same base, so 0.2.0 becomes 0.2.0-rc.1, which precedes it;
  `release.yaml:25` says that it "only increments the prerelease counter".
  `ReleasesAdvance` proves that every other accepted input moves forward.

What the properties do not say.  `SuccessMeansFlashed` does not promise that the flash holds
the very images that were read (a file read half-copied and whole by the time
openocd opens it is written whole, and the read-back compares only the length
that was read).  `VerifiesBeforeItStages` speaks of the artifacts as verify read
them; a rollout stages what the files hold later, which only the printer's own
loader has looked at (`FlashesBehindTheGate`).  `FlashesWhatItVerified` says
that this is the only gap: unless a file is replaced after it was verified, what
the flash goes beside is what passed.  `RollbackStaysPossible` is about the
command that runs and the firmware it found; that a later command overwrites the
file is `StockBackupKept`, which fails.  Under readout protection the dump is all
0xFF and the way back is not in it.

## 4. Proofs

Each theorem holds for every value of the constants that satisfies the named
assumptions of the modules (`FlashConstants`, `ImagesFit`, `BuildConstants`,
`BundleConstants`, `WorkflowConstants`, `RolloutConstants`, `CtConstants`,
`ImageConstants`); TLC evaluates those in the runs.

| Module | Theorem | States |
|---|---|---|
| `FlashMcuProofs` | `TypeCorrect` | `Spec => []TypeOK` |
| | `FlashedOnSuccess` | `Spec => []SuccessMeansFlashed` |
| | `DumpBeforeErase` | `Spec => []EraseNeedsDump` |
| | `AbortIsHarmless` | `Spec => []AbortLeavesChip` |
| | `RegionsAreKept` | `Spec => OtherRegionKept` |
| | `RollbackKept` | `Spec => []RollbackStaysPossible` |
| | `CheckedFirstIsWhole` | `[]NoHalfFlashedMcu`, under the conditions below |
| `ReleaseWorkflowProofs` | `TypeCorrect` | `Spec => []TypeOK` |
| | `LedgerKept` | `Spec => KeepsLedger` |
| | `TagsReachable` | `Spec => []TagsAreOnBranches` |
| | `TipsAdvance` | `Spec => TipsOnlyAdvance` |
| | `ReleasesAdvance` | `Spec => VersionsAdvance`: a release moves VERSION forward, unless it is bump=none with another label |
| | `ReleasesTraceable` | a published version was built from a commit that carries it, that its tag names and a branch reaches; no two versions are of one commit |
| | `ReleasesForGood` | no step moves or removes a tag, or replaces or withdraws a release |
| `RolloutProofs` | `NoReturnBehindGates` | `RolloutSpec => PointOfNoReturn` |
| | `RolloutTypeCorrect` | `RolloutSpec => []RolloutTypeOK` |
| | `GateBeforeFlash` | `RolloutSpec => []FlashesBehindTheGate` |
| | `VerifiedFirst` | `RolloutSpec => VerifiesBeforeItStages` |
| | `VerifyAgrees` | `RolloutSpec => VerifyAgreesWithBuild`, if every artifact is `Conventional` |
| | `RolloutWhole` | `RolloutSpec => []RolloutIsWhole` |
| | `FlashesVerified` | `RolloutSpec => FlashesWhatItVerified` |
| | `RolloutFlashesSafely` | `EraseNeedsDump`, `AbortLeavesChip`, `RollbackStaysPossible` and `OtherRegionKept` of the flash in a rollout |
| `AbiCheckProofs` | `VerdictsAgree` | `NimVerdict(f, kind) = PyVerdict(f, kind)` for every `Conventional` file |
| | `NimReadsInside`, `PyReadsInside` | what a reader does not refuse, it reads inside the file |
| `BuildTreeProofs` | `TreeTypeCorrect` | `Spec => []TypeOK` |
| | `CapturesRight` | `TurnsSpec => []CapturesFromTheRightBuild` |
| | `BuildKeepsContract` | `TurnsSpec => KeepsContract` |
| | `TurnsKeepMips` | `TurnsSpec => SuccessMeansMipsElf` |
| `ReleaseBundleProofs` | `BundleTypeCorrect` | `Spec => []TypeOK` |
| | `ManifestTrue` | `Spec => []ManifestMatchesBundle` |
| | `PlatformsAgree` | `Spec => []BundlesAgree` |
| | `Provenance` | `Spec => ManifestNamesSources` |
| `CtBuildProofs` | `CtTypeCorrect` | `Spec => []TypeOK` |
| | `StepsEqualAll` | `Spec => []SeparatelyAsTogether` |
| | `StepsRunOut` | `Spec => [](Left \in 0 .. 13) /\ [][Forwards]_vars` |
| | `ContractKept` | `Spec => KeepsContract`, if `PinnedHasNano` |
| `ToolchainImageProofs` | `ImageTypeCorrect` | `Spec => []TypeOK` |
| | `PinPulls` | `Spec => []PinCanBePulled` |
| | `ReleasesPinned` | `Spec => []ReleasesFollowThePin` |
| | `VolumeConsistent` | `Spec => []VolumeIsOfOneImage` |

**Flash.**  `SuccessMeansFlashed` is not inductive: that the flash is one `Layout` at the end
of `flash all` depends on what it held after the erase and after Katapult.  The
inductive invariant `IInv` says what holds at each place of a command: which
command can be there (`Position`); before the erase the flash is still `snap`
(`Untouched`) and, from the prompt on, dumped (`Dumped`); what was read is known
(`WantRead`); between the erase and Katapult's write the flash is blank, then it
is one Katapult image and blank, and after Klipper's write one image of each,
with the Katapult bytes that were read and compared still there (`ChipShape`).
`ControlStep` proves the part about order and `ShapeStep` the part about
contents, one step per action.  `RegionsApart` is where `ImagesFit` enters:
without it Klipper's write would reach into Katapult.

`RollbackStaysPossible` needs `Backed`: from the prompt to the end of the command
the default file holds a dump of `snap`, since no step but the dump writes it.
`CheckedFirstIsWhole` says what separates the code from its header: suppose the
wire and the host do not fail, `flash all` reaches its dump only with both images
in place and readable paths, and nobody touches the images while it runs; then a
`flash all` that fails leaves the flash as it found it (`Careful` carries that
what is written is what was read).  The code makes sure of none of these.

**Release workflow.**  That a published version was built from its tag's commit
is a fact about a run long before it publishes.  `Sound` says of a run that it
was dispatched on a commit that exists; that from the `windows` job on its
version is tagged, also when the first job is not run again; and that what it is
about to publish is what the tag names.  It survives the steps of others because
no step moves a tag.  `LedgerStep` then maps every step to a step of
`ReleaseLedger` or none.  For `TagsAreOnBranches` and `TipsOnlyAdvance` the
invariant is `History`: ancestors are transitive and a commit is its own
(`Ancestry`), and each tagged commit, and that of a run about to tag, carries its
version and is an ancestor of some tip (`Reached`).  The last one is where the
PATCH without force matters: a tip only ever gives way to a descendant.
`VersionsAdvance` says that a release moves VERSION forward, but for the inputs of
run `release_none`; it is a fact about one step: only its own PATCH moves the branch
as a run leaves its first job (`ReleasesByPatch`), and `NewVersionIsAhead` finds,
for each bump `ValidInputs` lets through, the component of the version that grows.
`ReleasesTraceable` and `ReleasesForGood` are what a downloader gets from the two
lines of argument together: `LedgerOnlyAdds` shows that a step of the ledger takes
nothing back, and the commit a release names is the one its tag has on a branch.

**Rollout.**  Every step of a rollout is one of `v3ke flash` or leaves the chip and
the backups alone (`FlashOrNothing`), which carries the theorems about flash over
(`RolloutFlashesSafely`).  `NoReturnBehindGates` is what the composition adds: the
invariants of the three commands (`Verified`, `Loaded`, and the `Backed` of
`FlashMcuProofs`) meet in the one step that changes the chip (`NoReturnStep`).
`Loaded` and `Verified` are
what each gate has established by the step the command is at.  `Nested` says
that the flash runs under a rollout that waits for it, or with no rollout at
all, so that nothing touches the chip once a rollout has reported success.
`FlashesVerified` assumes, of a behaviour, that no verified file is replaced under
the command (`LeftAlone`), and carries `checked` through the pushes (`Carried`).

**ABI check.**  A loop that stops at its first hit finds one entry
(`FirstIsUnique`), so "the byte is not in the accepted set" (Nim) and "none of
the accepted" (Python) agree; entries of the usual size lie where elf.py expects
them (`SameTables`).  `NimReadsInside` and `PyReadsInside` take the field offsets
each loop reads (`SegmentInside`, `SectionInside`, `InterpInside`,
`AbiflagsInside`) and show that the checks before them are enough, for every file.

**Build tree.**  With builds that overlap only types are proved: `build_shared`
shows that what a file holds does not follow from the position of a build.  When
builders take turns (`TurnsSpec`) the order of the steps counts, and `OInv(b)` says
for each place of builder `b` in it what the tree holds: between a clean and its
make, nothing (`Cleared`), and while a make runs, of its outputs only the targets
it is done with (`Making`), so that each target it makes is new and made from what
it has made (`Target1`); which files the steps so far have made since the run
began, for which machine (`MadeArm`, `MadeMips`); the firmware's files in `out/`
only until the host build's clean; and a MIPS output is of the right ABI or a
violation has been noted.  `StepTable` reads the thirteen steps out of the
concatenation.  At the report this is what `BuildContract` asks (`ReportEnds`);
every other step touches one artifact at most (`OneArtifact`, `Touches`).  An idle
builder's `OInv` asks for little, so whoever acts leaves the others' standing
(`OthersIdle`).  Nothing in the code makes builders take turns; that they do is an
assumption of these three theorems.

**Packaging.**  `Hashed` says that at every moment of a run the hashes in the
manifest are those of the bytes in memory; `Written`, that the archives of the
platforms passed so far are this run's, beside this run's manifest.  The second
needs the platforms to be distinct (`BundleConstants`): one listed twice would be
truncated again after it was written.
`Provenance` is about what the manifest says of the bytes' origin.  Packaging reads
HEAD and whatever artifacts are there; if those were built from HEAD
(`BuiltFromHead`) and HEAD stays what the run has seen of it (`HeadHeld`), every
archive names the commits its bytes are from, for good: `ReadAtSources` follows
them from the reads to the archive.  The workflow packages in a fresh checkout it
has just built, and so meets both; by hand neither is checked.

**ct-build.**  `ProgressOK` says what each place of a command and each value of
`chain` has established: `Configured` after configure, `Merging` between the end
of ct-ng and the sealing, `Complete` after build.  `SeparatelyAsTogether` and the
refinement rest on the same facts, which is why the two ways come to the same.
`SeparatelyAsTogether` promises what the commands make sure of (`Complete`), for
whatever fragments; the contract promises a toolchain the firmware can be linked
with (`Usable`), and there the proof needs `PinnedHasNano` (`EndsWell`), which the
code leaves to crosstool-NG.
`Left` counts the steps a command may still take; `StepsRunOut` says that it
starts at thirteen or less and every step lowers it, so that of `CommandsEnd`
only the fairness argument itself is left to TLC.

**Image.**  A pin names a pushed image because the digest travels from the push
to the file inside one command: `CommandOK` says of each place what the command
holds, and no other shell's step takes it away, since `pushed` only grows.
`BackupOK` says that, as long as backups do not overlap, the volume holds nothing
but trees of the image being copied during one; a backup that clears the volume
while no other runs re-establishes it, whatever was there.

Model-checked only: `CommandsEnd` (its safety half is `StepsRunOut`).  Liveness under fairness and `ENABLED` are out
of the prover's reach, as are facts by induction over recursive data (none is
needed; no module declares a RECURSIVE operator).  Every other property of a
passing run has its theorem; `VersionsAdvance` has a theorem and no run.

## 5. Plan

Done, in order of what matters most to a user of the printer: `FlashMcu`;
`BuildTree` against `BuildContract`; `ReleaseBundle`; `ReleaseWorkflow` against
`ReleaseLedger`; `AbiCheck` and `Rollout`; `CtBuild` against `ToolchainContract`;
`ToolchainImage`.  Each has its proofs.

Left, should the code grow:

1. `ReleaseBundle` composed with `BuildTree`, if packaging is to be tied to the
   build it packages (today nothing ties them).
2. The service scripts, once the repository holds what they start.

## 6. Not modelled

Compiler flags and kernel configuration, the bytes of archives and their
determinism, the JSON schema, terminal output, and the Klipper configuration are
data or formatting.  openocd, make, git, ssh, crosstool-NG, the container
runtimes, the registry and GitHub are modelled by how this repository uses them.
`ci.yaml` keeps and publishes nothing.

*Device services.*  `S55klipper_service` and `S57klipper_mcu` are vendor scripts
with a few patched lines; each operation is one signal or one start through
busybox's `start-stop-daemon`.  Whether a restart leaves a klippy running depends
on how long the old one lives after its signal and on what busybox takes for a
live process; whether `mcu_reset` (line 20, which looks for a process
`klipper_mcu`) sees the patched `klipper_mcu.elf` depends on `pidof`.  A model
would state these programs' behaviour and not this repository's.  The two
routines with state of their own, `copy_config` with `backup_usr_cfg` and the
updater `S14mcu_update`, are switched off by the patch.  `S13dropbear`,
`S70cx_ai_middleware` and `S99start_app` start one vendor program each.

What the models leave out on purpose:

* `repro-check.sh` compares four of the five released files, and the files that
  are released come from a third build: facts about the bytes of builds that do
  not reproduce, which `ReleaseWorkflow` does not hold.
* Artifacts built by hand before a checkout are packaged under the new commit
  (`build.py release` reads HEAD when it packages): nothing in the code is meant
  to prevent it, and `ManifestNamesSources` holds on the condition that it does
  not happen.
* podman may read `toolchain/` while it builds; `StartImage` takes it as it is
  then, as docker does.
* The image's builder stages appear in `ToolchainImage` as done or not
  (`BuildImage`): what they do is `CtBuild`.

Where text and code part, and no run is needed to see it:

* `checkOcdPath` (`flash.nim:39`) refuses every backslash, and so every image
  path on Windows, though `v3ke.exe` is shipped for flashing
  (`release_assets/INSTALL.md:17`).
* `release.yaml:49-50` says that a duplicate dispatch "would fail at
  --fail-if-exists anyway"; there is no such flag (lines 528-529), and a dispatch
  that starts after the first run has moved the branch releases the next version.
* `build.py release` by hand takes the toolchain versions from the checkout's
  `ct_build.py`, mounted into the container (line 143); its docstring
  (lines 105-106) and help text (205-206) say from the image.
* `snapshot restore` compiles with the MIPS toolchain only (`build.py:66`); the
  comment above it speaks of a working toolchain, of which the volume holds two.
* `docs/toolchain-image.md` says that the registry is inspected for the digest;
  `build_main.py:189-191` explains why it is not.
