------------------------------ MODULE FlashMcu ------------------------------
(***************************************************************************)
(* `v3ke flash` (tools/v3ke/flash.nim): backing up, erasing and writing    *)
(* the motion MCU over SWD with openocd.                                   *)
(*                                                                         *)
(* The chip is a row of flash pages.  The command runs one openocd process *)
(* after another; between two of them the chip, the image files in FW_DIR  *)
(* and the backup files are what the outside world made of them, so every  *)
(* openocd run and every file read is a step of its own.                   *)
(*                                                                         *)
(* A page's content is "stock" (Creality's firmware), "blank" (0xFF),      *)
(* "corrupt" or a page of some image.  A backup file holds one such value  *)
(* per page, "none" where the file has no bytes: a file that is missing or *)
(* empty is "none" everywhere.  An image file is known by the build it     *)
(* came from; a half-copied file is a build of its own, with the pages of  *)
(* the whole one as far as it goes.                                        *)
(***************************************************************************)
EXTENDS Naturals

CONSTANTS
  NumPages,        \* pages of the chip (512 KiB, FlashSize)
  BootPages,       \* pages below KlipperAddr (8 KiB, KatapultAddr = FlashBase)
  KatapultBuilds,  \* the builds katapult.bin can hold
  KlipperBuilds,   \* the builds klipper.bin can hold
  Size,            \* pages each build takes
  PageData,        \* contents a page of a build can have
  Data,            \* Data[b][k]: content of page k of build b
  BackupFiles,     \* files `flash backup [file]` may dump to
  DefaultBackup,   \* "stock-mcu-backup.bin"
  Hosts,           \* systems the CLI ships for: subset of {"posix", "windows"}
  Faults,          \* may openocd fail, or the process be killed, at any point?
  Noise            \* may the SWD wire silently corrupt a page?

Image == {"katapult", "klipper"}
Builds(i) == IF i = "katapult" THEN KatapultBuilds ELSE KlipperBuilds
AllBuilds == KatapultBuilds \cup KlipperBuilds

ASSUME FlashConstants ==
  /\ NumPages \in Nat /\ BootPages \in Nat /\ BootPages < NumPages
  /\ Size \in [AllBuilds -> Nat \ {0}]
  /\ Data \in [AllBuilds -> [0 .. NumPages - 1 -> PageData]]
  /\ "none" \notin AllBuilds \cup PageData
  /\ DefaultBackup \in BackupFiles
  /\ Hosts \subseteq {"posix", "windows"}
  /\ Faults \in BOOLEAN /\ Noise \in BOOLEAN

\* The linker scripts of the two firmwares keep each image in its region;
\* flash.nim itself never compares an image's length with the region.
ASSUME ImagesFit ==
  /\ \A b \in KatapultBuilds : Size[b] <= BootPages
  /\ \A b \in KlipperBuilds : BootPages + Size[b] <= NumPages

Page == 0 .. NumPages - 1
Content == {"stock", "blank", "corrupt"} \cup PageData
Command == {"backup", "katapult", "klipper", "all", "restore"}

\* KatapultAddr and KlipperAddr, as the first page of each image.
Address(i) == IF i = "katapult" THEN 0 ELSE BootPages
Region(i, b) == {p \in Page : Address(i) <= p /\ p < Address(i) + Size[b]}

\* What page p holds once build b is written at the address of image i.
Written(i, b, p) == Data[b][p - Address(i)]

VARIABLES
  chip,    \* [Page -> Content]
  rdp,     \* is readout protection on?
  host,    \* the system the CLI runs on
  file,    \* FW_DIR/katapult.bin and FW_DIR/klipper.bin: a build, or "none"
  backup,  \* the backup files
  cmd,     \* the subcommand running, or the last one
  pc,      \* where it is; "idle" when no command runs
  out,     \* the backup file it dumps to
  img,     \* the image flashOne is at
  want,    \* the bytes flashOne read of each image in this invocation
  exit,    \* how the last command ended
  snap     \* history: the chip when the command started

proc == <<cmd, pc, out, img, want, exit, snap>>
env == <<rdp, host, file>>
vars == <<chip, rdp, host, file, backup, cmd, pc, out, img, want, exit, snap>>

TypeOK ==
  /\ chip \in [Page -> Content]
  /\ rdp \in BOOLEAN
  /\ host \in Hosts
  /\ file \in [Image -> AllBuilds \cup {"none"}]
  /\ \A i \in Image : file[i] \in Builds(i) \cup {"none"}
  /\ backup \in [BackupFiles -> [Page -> Content \cup {"none"}]]
  /\ cmd \in Command
  /\ pc \in {"idle", "dump", "confirm", "erase", "read", "write", "readback"}
  /\ out \in BackupFiles
  /\ img \in Image
  /\ want \in [Image -> AllBuilds \cup {"none"}]
  /\ \A i \in Image : want[i] \in Builds(i) \cup {"none"}
  /\ exit \in {"none", "ok", "failed", "aborted"}
  /\ snap \in [Page -> Content]

NoImage == [i \in Image |-> "none"]

Init ==
  /\ chip = [p \in Page |-> "stock"]
  /\ rdp \in BOOLEAN
  /\ host \in Hosts
  /\ file \in {f \in [Image -> AllBuilds \cup {"none"}] :
                 \A i \in Image : f[i] \in Builds(i) \cup {"none"}}
  /\ backup = [f \in BackupFiles |-> [p \in Page |-> "none"]]
  /\ cmd = "backup" /\ pc = "idle" /\ exit = "none"
  /\ out = DefaultBackup
  /\ img = "katapult"
  /\ want = NoImage
  /\ snap = chip

-----------------------------------------------------------------------------
(* How a command ends.                                                      *)

End(code) ==
  /\ pc' = "idle"
  /\ exit' = code
  /\ UNCHANGED <<cmd, out, img, want, snap>>

Goto(label) ==
  /\ pc' = label
  /\ UNCHANGED <<cmd, out, img, want, exit, snap>>

(* flashCmd: one command at a time, the ST-Link has one user.               *)

Start(c) ==
  /\ pc = "idle"
  /\ cmd' = c
  /\ exit' = "none"
  /\ want' = NoImage
  /\ snap' = chip
  /\ UNCHANGED <<chip, backup, env>>

FlashBackup ==
  /\ Start("backup")
  /\ pc' = "dump"
  /\ out' \in BackupFiles
  /\ UNCHANGED img

\* checkOcdPath(outPath): the path the user gave is none of BackupFiles, it has
\* a character openocd would take for Tcl in it.  Nothing is run.
BackupRefused ==
  /\ pc = "idle"
  /\ cmd' = "backup" /\ exit' = "failed"
  /\ want' = NoImage /\ snap' = chip
  /\ UNCHANGED <<chip, env, backup, pc, out, img>>

FlashImage(i) ==
  /\ Start(i)
  /\ pc' = "read"
  /\ img' = i
  /\ UNCHANGED out

FlashAll ==
  /\ Start("all")
  /\ pc' = "dump"
  /\ out' = DefaultBackup
  /\ img' = "katapult"

(***************************************************************************)
(* backupStock.  dump_image opens the file for writing before it reads the *)
(* chip, so a failing dump can leave a shorter file behind.  Under readout *)
(* protection a dump that does not fail is empty or all 0xFF.  The dump is *)
(* compared with nothing.                                                  *)
(***************************************************************************)
Dumps(c) ==
  IF rdp THEN {[p \in Page |-> "blank"]}
  ELSE {c} \cup (IF Noise THEN {[c EXCEPT ![p] = "corrupt"] : p \in Page} ELSE {})
Reads == Dumps(chip)

Truncated(d) ==
  {[p \in Page |-> IF p < k THEN d[p] ELSE "none"] : k \in 0 .. NumPages - 1}

DumpSucceeds ==
  /\ pc = "dump"
  /\ \E d \in Reads : backup' = [backup EXCEPT ![out] = d]
  /\ IF cmd = "all" THEN Goto("confirm") ELSE End("ok")
  /\ UNCHANGED <<chip, env>>

\* Slip: an empty dump is only warned about, like one that is all 0xFF.
DumpEmptyWarns ==
  /\ pc = "dump" /\ rdp
  /\ backup' = [backup EXCEPT ![out] = [p \in Page |-> "none"]]
  /\ IF cmd = "all" THEN Goto("confirm") ELSE End("ok")
  /\ UNCHANGED <<chip, env>>

DumpEmpty ==
  /\ pc = "dump"
  /\ rdp
  /\ backup' = [backup EXCEPT ![out] = [p \in Page |-> "none"]]
  /\ End("failed")
  /\ UNCHANGED <<chip, env>>

DumpFails ==
  /\ pc = "dump"
  /\ Faults
  /\ \E d \in Truncated(chip) : backup' = [backup EXCEPT ![out] = d]
  /\ End("failed")
  /\ UNCHANGED <<chip, env>>

(* confirm: "y" or "yes" goes on, anything else raises UserAbort.           *)

ConfirmYes ==
  /\ pc = "confirm"
  /\ Goto("erase")
  /\ UNCHANGED <<chip, backup, env>>

\* Slip: the question is put where each image is flashed.
ConfirmNoPerImage ==
  /\ pc \in {"confirm", "read"}
  /\ End("aborted")
  /\ UNCHANGED <<chip, backup, env>>

ConfirmNo ==
  /\ pc = "confirm"
  /\ End("aborted")
  /\ UNCHANGED <<chip, backup, env>>

(* eraseAll: erase_address from the first page up; a failure stops midway.  *)

Erased(k) == [p \in Page |-> IF p < k THEN "blank" ELSE chip[p]]

EraseAll ==
  /\ pc = "erase"
  /\ chip' = [p \in Page |-> "blank"]
  /\ Goto("read")
  /\ UNCHANGED <<backup, env>>

EraseFails ==
  /\ pc = "erase"
  /\ Faults
  /\ \E k \in 0 .. NumPages : chip' = Erased(k)
  /\ End("failed")
  /\ UNCHANGED <<backup, env>>

(***************************************************************************)
(* flashOne.  The path is checked and the file looked for only now: for    *)
(* `flash all` that is after the erase.  checkOcdPath rejects a backslash, *)
(* and FW_DIR / "klipper.bin" has one on Windows.                          *)
(***************************************************************************)
checkOcdPath == host = "posix"

\* Slip: klipper.bin whatever the image.
ReadKlipperImage ==
  /\ pc = "read" /\ checkOcdPath /\ file["klipper"] # "none"
  /\ want' = [want EXCEPT ![img] = file["klipper"]]
  /\ pc' = "write"
  /\ UNCHANGED <<cmd, out, img, exit, snap>>
  /\ UNCHANGED <<chip, backup, env>>

ReadImage ==
  /\ pc = "read"
  /\ checkOcdPath
  /\ file[img] # "none"
  /\ want' = [want EXCEPT ![img] = file[img]]
  /\ pc' = "write"
  /\ UNCHANGED <<cmd, out, img, exit, snap>>
  /\ UNCHANGED <<chip, backup, env>>

ReadImageFails ==
  /\ pc = "read"
  /\ ~ checkOcdPath \/ file[img] = "none"
  /\ End("failed")
  /\ UNCHANGED <<chip, backup, env>>

(* write_image erase + verify_image: openocd opens the file again, and      *)
(* writes what it holds by then.                                            *)

Programmed(b) ==
  [p \in Page |-> IF p \in Region(img, b) THEN Written(img, b, p) ELSE chip[p]]

\* The pages below k are programmed, the rest of the region erased; or only
\* the pages below k erased; or everything written, one page wrongly, which
\* verify_image notices.
HalfProgrammed(b, k) ==
  {[p \in Page |-> IF p \notin Region(img, b) THEN chip[p]
                   ELSE IF p < k THEN Written(img, b, p) ELSE "blank"],
   [p \in Page |-> IF p \in Region(img, b) /\ p < k THEN "blank" ELSE chip[p]]}

Miswritten(b) ==
  {[Programmed(b) EXCEPT ![p] = "corrupt"] : p \in Region(img, b)}

\* Slip: a mass erase instead of `write_image erase`.
WriteImageMassErase ==
  /\ pc = "write" /\ file[img] # "none"
  /\ chip' = [p \in Page |-> IF p \in Region(img, file[img])
                            THEN Written(img, file[img], p) ELSE "blank"]
  /\ Goto("readback")
  /\ UNCHANGED <<backup, env>>

WriteImage ==
  /\ pc = "write"
  /\ file[img] # "none"
  /\ chip' = Programmed(file[img])
  /\ Goto("readback")
  /\ UNCHANGED <<backup, env>>

WriteFails ==
  /\ pc = "write"
  /\ \/ /\ file[img] = "none"
        /\ UNCHANGED chip
     \/ /\ Faults /\ file[img] # "none"
        /\ \E k \in 0 .. NumPages : chip' \in HalfProgrammed(file[img], k)
     \/ /\ Noise /\ file[img] # "none"
        /\ chip' \in Miswritten(file[img])
  /\ End("failed")
  /\ UNCHANGED <<backup, env>>

(* Dump the want.len bytes at the address and compare them with want.       *)

\* Slip: only the lengths are compared.
MatchesLength == img \in Image

Holds(i, b) == \A p \in Region(i, b) : chip[p] = Written(i, b, p)

Matches == Holds(img, want[img])

ReadBackOk ==
  /\ pc = "readback"
  /\ Matches
  /\ IF cmd = "all" /\ img = "katapult"
     THEN /\ pc' = "read"
          /\ img' = "klipper"
          /\ UNCHANGED <<cmd, out, want, exit, snap>>
     ELSE End("ok")
  /\ UNCHANGED <<chip, backup, env>>

ReadBackFails ==
  /\ pc = "readback"
  /\ ~ Matches \/ Noise \/ Faults
  /\ End("failed")
  /\ UNCHANGED <<chip, backup, env>>

(* Ctrl-C, an end of file at the prompt, a full disk or a pulled cable       *)
(* between two openocd runs; the exit code differs, the effect does not.    *)

\* Slip: the file that was being dumped is removed, however far the command is.
KilledCleansUp ==
  /\ Faults
  /\ pc # "idle"
  /\ End("failed")
  /\ backup' = [backup EXCEPT ![out] = [p \in Page |-> "none"]]
  /\ UNCHANGED <<chip, env>>

Killed ==
  /\ Faults
  /\ pc # "idle"
  /\ End("failed")
  /\ UNCHANGED <<chip, backup, env>>

-----------------------------------------------------------------------------
(* The world around the command.                                            *)

\* A rebuild, an unpacked release or a clean changes an image file.
ReplaceImage(i) ==
  /\ \E b \in Builds(i) \cup {"none"} :
        /\ b # file[i]
        /\ file' = [file EXCEPT ![i] = b]
  /\ UNCHANGED <<chip, rdp, host, backup, proc>>

\* The rollback by hand: write_image erase of the backup file at FlashBase.
RestoreStock ==
  /\ pc = "idle"
  /\ \E f \in BackupFiles :
       /\ \E p \in Page : backup[f][p] # "none"
       /\ chip' = [p \in Page |-> IF backup[f][p] = "none" THEN chip[p]
                                  ELSE backup[f][p]]
  /\ cmd' = "restore" /\ exit' = "none"
  /\ snap' = chip
  /\ want' = NoImage
  /\ UNCHANGED <<pc, out, img, backup, env>>

Next ==
  \/ FlashBackup \/ BackupRefused \/ FlashAll \/ \E i \in Image : FlashImage(i)
  \/ DumpSucceeds \/ DumpEmpty \/ DumpFails
  \/ ConfirmYes \/ ConfirmNo
  \/ EraseAll \/ EraseFails
  \/ ReadImage \/ ReadImageFails
  \/ WriteImage \/ WriteFails
  \/ ReadBackOk \/ ReadBackFails
  \/ Killed
  \/ \E i \in Image : ReplaceImage(i)
  \/ RestoreStock

Spec == Init /\ [][Next]_vars

-----------------------------------------------------------------------------
(* Properties.                                                              *)

\* The chip after a complete `flash all`.
Layout(ka, kl) ==
  [p \in Page |->
     IF p \in Region("katapult", ka) THEN Written("katapult", ka, p)
     ELSE IF p \in Region("klipper", kl) THEN Written("klipper", kl, p)
     ELSE "blank"]

\* When a flashing command reports success, the chip holds the bytes the
\* command read at its start, whatever happened to the image files while it
\* ran; after `flash all` the chip holds one Katapult and one Klipper image
\* and nothing else.  (They need not be the images that were read: a file that
\* was read half-copied and written whole passes the read-back.)
SuccessMeansFlashed ==
  exit = "ok" =>
    /\ cmd \in Image => Holds(cmd, want[cmd])
    /\ cmd = "all" => /\ \A i \in Image : Holds(i, want[i])
                     /\ \E ka \in KatapultBuilds, kl \in KlipperBuilds :
                          chip = Layout(ka, kl)

\* `flash all` reaches the erase only with a dump of the very chip it is
\* about to erase in the default backup file (but for a page the wire may have
\* corrupted: the dump is compared with nothing), or with one that is all 0xFF
\* (readout protection, which is warned about and accepted).
EraseNeedsDump ==
  pc = "erase" => /\ chip = snap
                  /\ backup[DefaultBackup] \in Reads

\* The route back stays open all along `flash all`, and after it, however it
\* ended: whenever the chip is no longer what it was when the command began,
\* the default backup file holds a dump of what it was.  (Of a chip under
\* readout protection that dump is all 0xFF, of which backupStock warns.)
RollbackStaysPossible ==
  cmd = "all" /\ chip # snap => backup[DefaultBackup] \in Dumps(snap)

\* A user who declines the confirmation has an untouched chip.
AbortLeavesChip == exit = "aborted" => chip = snap

\* Reflashing one image never touches a page of the other's region, even
\* when the write fails or the file is replaced meanwhile.
OtherRegionKept ==
  [][/\ cmd = "klipper" /\ pc # "idle" =>
          \A p \in 0 .. BootPages - 1 : chip'[p] = chip[p]
     /\ cmd = "katapult" /\ pc # "idle" =>
          \A p \in BootPages .. NumPages - 1 : chip'[p] = chip[p]]_vars

\* flash.nim's header: "Any failure raises and stops (no half-flashed MCU)".
\* A `flash all` that fails leaves the chip as it found it.
NoHalfFlashedMcu == exit = "failed" /\ cmd = "all" => chip = snap

\* DEPLOY.md: the dump of the stock firmware is "your only route back to
\* stock", to be kept forever.  Once the default file holds it, no later
\* command of the CLI takes it away.
StockDump(f) == \A p \in Page : backup[f][p] = "stock"
StockBackupKept ==
  [][StockDump(DefaultBackup) => StockDump(DefaultBackup)']_vars
=============================================================================
