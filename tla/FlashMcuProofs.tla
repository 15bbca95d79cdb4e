--------------------------- MODULE FlashMcuProofs ---------------------------
(***************************************************************************)
(* What `v3ke flash` guarantees for every chip geometry, every set of      *)
(* builds and every number of backup files.                                *)
(*                                                                         *)
(* SuccessMeansFlashed is not inductive: that the last read-back makes the *)
(* whole chip right needs what the chip looked like between the steps of   *)
(* `flash all` (ChipShape), and EraseNeedsDump needs that nothing touches  *)
(* the chip between the dump and the erase (Untouched).                    *)
(* RollbackStaysPossible needs the dump remembered all along the command   *)
(* (Backed).  CheckedFirstIsWhole is about a promise flash.nim does not    *)
(* keep, and says what it would take.                                      *)
(***************************************************************************)
EXTENDS FlashMcu, TLAPS

\* Which command can be where.
Position ==
  /\ pc \in {"dump", "confirm", "erase"} =>
       cmd \in {"backup", "all"} /\ (cmd = "all" => out = DefaultBackup)
  /\ pc \in {"confirm", "erase"} => cmd = "all"
  /\ pc \in {"dump", "confirm", "erase"} /\ cmd = "all" => img = "katapult"
  /\ pc \in {"read", "write", "readback"} => cmd = "all" \/ cmd = img
  /\ pc # "idle" => exit = "none"

\* Nothing touches the chip before the erase.
Untouched == pc \in {"dump", "confirm", "erase"} => chip = snap

\* Past the dump, the default backup file is a dump of the chip.
Dumped == pc \in {"confirm", "erase"} => backup[DefaultBackup] \in Reads

\* The bytes flashOne compares with have been read.
WantRead ==
  /\ pc \in {"write", "readback"} => want[img] # "none"
  /\ pc \in {"read", "write", "readback"} /\ cmd = "all" /\ img = "klipper"
       => want["katapult"] # "none"

\* A chip with a Katapult image and nothing else.
BootOnly(ka) ==
  [p \in Page |-> IF p \in Region("katapult", ka) THEN Written("katapult", ka, p)
                  ELSE "blank"]

\* The chip between the steps of `flash all`.
ChipShape ==
  cmd = "all" =>
    /\ pc \in {"read", "write"} /\ img = "katapult" =>
         chip = [p \in Page |-> "blank"]
    /\ pc = "readback" /\ img = "katapult" =>
         \E b \in KatapultBuilds : chip = BootOnly(b)
    /\ pc \in {"read", "write"} /\ img = "klipper" =>
         /\ Holds("katapult", want["katapult"])
         /\ \E ka \in KatapultBuilds : chip = BootOnly(ka)
    /\ pc = "readback" /\ img = "klipper" =>
         /\ Holds("katapult", want["katapult"])
         /\ \E ka \in KatapultBuilds, kl \in KlipperBuilds :
              chip = Layout(ka, kl)

IInv == /\ TypeOK /\ Position /\ Untouched /\ Dumped /\ WantRead /\ ChipShape
        /\ SuccessMeansFlashed /\ AbortLeavesChip

-----------------------------------------------------------------------------
(* The region of an image.                                                  *)

\* An image begins at its address and stays inside its region.
LEMMA RegionFacts ==
  ASSUME NEW i \in Image, NEW b \in Builds(i)
  PROVE  /\ Region(i, b) \subseteq Page
         /\ Address(i) \in Region(i, b)
         /\ i = "katapult" => \A p \in Region(i, b) : p < BootPages
         /\ i = "klipper" => \A p \in Region(i, b) : BootPages <= p
  <1>1. b \in AllBuilds /\ Size[b] \in Nat /\ Size[b] > 0
    BY FlashConstants DEF AllBuilds, Builds, Image
  <1>2. CASE i = "katapult"
    <2>1. Size[b] <= BootPages
      BY <1>2, ImagesFit DEF Builds
    <2>2. QED
      BY <1>1, <1>2, <2>1, FlashConstants DEF Region, Address, Page
  <1>3. CASE i = "klipper"
    <2>1. BootPages + Size[b] <= NumPages
      BY <1>3, ImagesFit DEF Builds
    <2>2. QED
      BY <1>1, <1>3, <2>1, FlashConstants DEF Region, Address, Page
  <1>4. QED
    BY <1>2, <1>3 DEF Image

-----------------------------------------------------------------------------
(* Types.                                                                   *)

\* What a write puts in the region of an image is the content of a page.
LEMMA WrittenIsContent ==
  ASSUME NEW i \in Image, NEW b \in Builds(i)
  PROVE  b \in AllBuilds /\ \A p \in Region(i, b) : Written(i, b, p) \in Content
  <1>1. b \in AllBuilds
    BY DEF AllBuilds, Builds
  <1>2. ASSUME NEW p \in Region(i, b) PROVE p - Address(i) \in Page
    BY FlashConstants DEF Region, Address, Page
  <1>3. \A p \in Region(i, b) : Data[b][p - Address(i)] \in PageData
    BY <1>1, <1>2, FlashConstants DEF Page
  <1>4. QED
    BY <1>1, <1>3 DEF Written, Content

LEMMA TypeInit == Init => TypeOK
  BY FlashConstants DEF Init, TypeOK, Content, NoImage, Image, Command

LEMMA TypeStep == TypeOK /\ [Next]_vars => TypeOK'
  <1> SUFFICES ASSUME TypeOK, [Next]_vars PROVE TypeOK'
    OBVIOUS
  <1> USE DEF TypeOK, env, proc, End, Goto
  <1>1. CASE FlashBackup \/ BackupRefused
    BY <1>1, FlashConstants DEF FlashBackup, BackupRefused, Start, NoImage, Command, Image
  <1>2. CASE FlashAll
    BY <1>2, FlashConstants DEF FlashAll, Start, NoImage, Command, Image
  <1>3. ASSUME NEW i \in Image, FlashImage(i) PROVE TypeOK'
    BY <1>3, FlashConstants DEF FlashImage, Start, NoImage, Command, Image
  <1>4. CASE DumpSucceeds
    BY <1>4 DEF DumpSucceeds, Reads, Dumps, Content
  <1>5. CASE DumpEmpty
    BY <1>5 DEF DumpEmpty, Content
  <1>6. CASE DumpFails
    BY <1>6 DEF DumpFails, Truncated
  <1>7. CASE ConfirmYes
    BY <1>7 DEF ConfirmYes
  <1>8. CASE ConfirmNo
    BY <1>8 DEF ConfirmNo
  <1>9. CASE EraseAll
    BY <1>9 DEF EraseAll, Content
  <1>10. CASE EraseFails
    BY <1>10 DEF EraseFails, Erased, Content
  <1>11. CASE ReadImage
    BY <1>11 DEF ReadImage, Image
  <1>12. CASE ReadImageFails
    BY <1>12 DEF ReadImageFails
  <1>13. CASE WriteImage
    <2>1. chip' \in [Page -> Content]
      BY <1>13, WrittenIsContent DEF WriteImage, Programmed
    <2>2. QED
      BY <1>13, <2>1 DEF WriteImage
  <1>14. CASE WriteFails
    <2>1. ASSUME file[img] # "none"
          PROVE  /\ file[img] \in Builds(img)
                 /\ \A p \in Region(img, file[img]) :
                      Written(img, file[img], p) \in Content
      BY <2>1, WrittenIsContent
    <2>2. ASSUME file[img] # "none", NEW k \in 0 .. NumPages
          PROVE  HalfProgrammed(file[img], k) \subseteq [Page -> Content]
      BY <2>1, <2>2 DEF HalfProgrammed, Content
    <2>3. ASSUME file[img] # "none"
          PROVE  Miswritten(file[img]) \subseteq [Page -> Content]
      <3>1. Programmed(file[img]) \in [Page -> Content]
        BY <2>1, <2>3 DEF Programmed
      <3>2. QED
        BY <3>1 DEF Miswritten, Content
    <2>4. chip' \in [Page -> Content]
      BY <1>14, <2>2, <2>3 DEF WriteFails
    <2>5. QED
      BY <1>14, <2>4 DEF WriteFails
  <1>15. CASE ReadBackOk
    BY <1>15 DEF ReadBackOk, Image
  <1>16. CASE ReadBackFails
    BY <1>16 DEF ReadBackFails
  <1>17. CASE Killed
    BY <1>17 DEF Killed
  <1>18. ASSUME NEW i \in Image, ReplaceImage(i) PROVE TypeOK'
    BY <1>18 DEF ReplaceImage, Builds, AllBuilds
  <1>19. CASE RestoreStock
    BY <1>19 DEF RestoreStock, NoImage, Command
  <1>20. CASE UNCHANGED vars
    BY <1>20 DEF vars
  <1>21. QED
    BY <1>1, <1>2, <1>3, <1>4, <1>5, <1>6, <1>7, <1>8, <1>9, <1>10, <1>11, <1>12, <1>13, <1>14, <1>15, <1>16, <1>17, <1>18, <1>19, <1>20 DEF Next

\* Every variable keeps its type.
THEOREM TypeCorrect == Spec => []TypeOK
  BY TypeInit, TypeStep, PTL DEF Spec

-----------------------------------------------------------------------------
(* The order of the steps.                                                  *)

\* What every command keeps in order: which step follows which, that nothing
\* writes the chip before the erase, and that the erase has its dump.
Control == TypeOK /\ Position /\ Untouched /\ Dumped /\ WantRead
           /\ AbortLeavesChip

LEMMA ControlInit == Init => Control
  BY FlashConstants DEF Init, TypeOK, Content, NoImage, Image, Command, Control,
    Position, Untouched, Dumped, WantRead, AbortLeavesChip

LEMMA ControlStep == Control /\ [Next]_vars => Control'
  <1> SUFFICES ASSUME Control, [Next]_vars PROVE Control'
    OBVIOUS
  <1>0. TypeOK /\ TypeOK'
    BY TypeStep DEF Control
  <1> USE <1>0 DEF Control, Position, Untouched, Dumped, WantRead,
        AbortLeavesChip, env, proc, End, Goto
  <1>1. CASE FlashBackup \/ BackupRefused
    BY <1>1, FlashConstants DEF FlashBackup, BackupRefused, Start, NoImage, Image
  <1>2. CASE FlashAll
    BY <1>2, FlashConstants DEF FlashAll, Start, NoImage, Image
  <1>3. ASSUME NEW i \in Image, FlashImage(i) PROVE Control'
    BY <1>3, FlashConstants DEF FlashImage, Start, NoImage, Image
  <1>4. CASE DumpSucceeds
    BY <1>4 DEF DumpSucceeds, Reads, Dumps, TypeOK
  <1>5. CASE DumpEmpty
    BY <1>5 DEF DumpEmpty
  <1>6. CASE DumpFails
    BY <1>6 DEF DumpFails
  <1>7. CASE ConfirmYes
    BY <1>7 DEF ConfirmYes, Reads, Dumps, TypeOK
  <1>8. CASE ConfirmNo
    BY <1>8 DEF ConfirmNo
  <1>9. CASE EraseAll
    BY <1>9 DEF EraseAll
  <1>10. CASE EraseFails
    BY <1>10 DEF EraseFails
  <1>11. CASE ReadImage
    BY <1>11 DEF ReadImage, TypeOK, Image
  <1>12. CASE ReadImageFails
    BY <1>12 DEF ReadImageFails
  <1>13. CASE WriteImage
    BY <1>13 DEF WriteImage
  <1>14. CASE WriteFails
    BY <1>14 DEF WriteFails
  <1>15. CASE ReadBackOk
    BY <1>15 DEF ReadBackOk, TypeOK, Image
  <1>16. CASE ReadBackFails
    BY <1>16 DEF ReadBackFails
  <1>17. CASE Killed
    BY <1>17 DEF Killed
  <1>18. ASSUME NEW i \in Image, ReplaceImage(i) PROVE Control'
    BY <1>18 DEF ReplaceImage, Reads, Dumps
  <1>19. CASE RestoreStock
    BY <1>19 DEF RestoreStock
  <1>20. CASE UNCHANGED vars
    BY <1>20 DEF vars, Reads, Dumps
  <1>21. QED
    BY <1>1, <1>2, <1>3, <1>4, <1>5, <1>6, <1>7, <1>8, <1>9, <1>10, <1>11, <1>12, <1>13, <1>14, <1>15, <1>16, <1>17, <1>18, <1>19, <1>20 DEF Next

-----------------------------------------------------------------------------
(* What `flash all` leaves on the chip.                                     *)

\* The two images lie on disjoint pages.
LEMMA RegionsApart ==
  ASSUME NEW ka \in KatapultBuilds, NEW kl \in KlipperBuilds,
         NEW p \in Region("klipper", kl)
  PROVE  p \notin Region("katapult", ka)
  <1>1. ka \in Builds("katapult") /\ kl \in Builds("klipper")
    BY DEF Builds
  <1>2. /\ \A q \in Region("katapult", ka) : q < BootPages
        /\ \A q \in Region("klipper", kl) : BootPages <= q /\ q \in Page
    BY <1>1, RegionFacts DEF Image
  <1>3. QED
    BY <1>2, FlashConstants DEF Page

Shape == ChipShape /\ SuccessMeansFlashed

LEMMA ShapeStep == Control /\ Shape /\ [Next]_vars => Shape'
  <1> SUFFICES ASSUME Control, Shape, [Next]_vars PROVE Shape'
    OBVIOUS
  <1>0. TypeOK /\ TypeOK' /\ Position /\ WantRead
    BY TypeStep DEF Control
  <1> USE <1>0 DEF Position, WantRead, Shape, ChipShape, SuccessMeansFlashed,
        env, proc, End, Goto
  <1>1. CASE FlashBackup \/ BackupRefused
    BY <1>1 DEF FlashBackup, BackupRefused, Start, NoImage, Image
  <1>2. CASE FlashAll
    BY <1>2 DEF FlashAll, Start, NoImage, Image
  <1>3. ASSUME NEW i \in Image, FlashImage(i) PROVE Shape'
    BY <1>3 DEF FlashImage, Start, NoImage, Image
  <1>4. CASE DumpSucceeds
    BY <1>4 DEF DumpSucceeds, Image
  <1>5. CASE DumpEmpty
    BY <1>5 DEF DumpEmpty
  <1>6. CASE DumpFails
    BY <1>6 DEF DumpFails
  <1>7. CASE ConfirmYes
    BY <1>7 DEF ConfirmYes
  <1>8. CASE ConfirmNo
    BY <1>8 DEF ConfirmNo
  <1>9. CASE EraseAll
    BY <1>9 DEF EraseAll
  <1>10. CASE EraseFails
    BY <1>10 DEF EraseFails
  <1>11. CASE ReadImage
    <2>1. /\ pc = "read" /\ pc' = "write" /\ exit' = exit /\ img' = img
          /\ cmd' = cmd /\ chip' = chip
          /\ img = "klipper" => want'["katapult"] = want["katapult"]
      BY <1>11 DEF ReadImage, TypeOK, Image
    <2>2. QED
      BY <2>1 DEF Holds
  <1>12. CASE ReadImageFails
    BY <1>12 DEF ReadImageFails
  <1>13. CASE WriteImage
    <2>1. /\ pc = "write" /\ pc' = "readback" /\ exit' = exit /\ img' = img
          /\ cmd' = cmd /\ want' = want /\ file[img] \in Builds(img)
          /\ chip' = Programmed(file[img])
      BY <1>13 DEF WriteImage, TypeOK
    <2>2. CASE cmd = "all" /\ img = "katapult"
      <3>1. file[img] \in KatapultBuilds /\ chip' = BootOnly(file[img])
        BY <2>1, <2>2 DEF Programmed, BootOnly, Builds
      <3>2. QED
        BY <2>1, <2>2, <3>1
    <2>3. CASE cmd = "all" /\ img = "klipper"
      <3>1. /\ file[img] \in KlipperBuilds
            /\ want["katapult"] \in KatapultBuilds
        BY <2>1, <2>3 DEF Builds, TypeOK, Image
      <3>2. PICK ka \in KatapultBuilds : chip = BootOnly(ka)
        BY <2>1, <2>3
      <3>3. chip' = Layout(ka, file[img])
        BY <2>1, <2>3, <3>1, <3>2, RegionsApart DEF Programmed, BootOnly, Layout
      <3>4. \A p \in Region("katapult", want["katapult"]) : chip'[p] = chip[p]
        <4>1. ASSUME NEW p \in Region("katapult", want["katapult"])
              PROVE  p \in Page /\ p \notin Region("klipper", file[img])
          BY <3>1, RegionsApart DEF Region
        <4>2. QED
          BY <2>1, <2>3, <4>1 DEF Programmed
      <3>5. Holds("katapult", want["katapult"])'
        BY <2>1, <2>3, <3>4 DEF Holds
      <3>6. QED
        BY <2>1, <2>3, <3>1, <3>3, <3>5
    <2>4. QED
      BY <2>1, <2>2, <2>3 DEF TypeOK, Image
  <1>14. CASE WriteFails
    BY <1>14 DEF WriteFails
  <1>15. CASE ReadBackOk
    <2> USE <1>15 DEF ReadBackOk
    <2>1. want[img] \in Builds(img) /\ img \in Image
      BY DEF TypeOK
    <2>2. CASE cmd = "all" /\ img = "katapult"
      <3>1. Holds("katapult", want["katapult"])
        BY <2>2 DEF Matches
      <3>2. \E ka \in KatapultBuilds : chip = BootOnly(ka)
        BY <2>2
      <3>3. /\ pc' = "read" /\ img' = "klipper" /\ exit' = exit /\ cmd' = cmd
            /\ chip' = chip /\ want' = want
        BY <2>2
      <3>4. QED
        BY <2>2, <3>1, <3>2, <3>3 DEF Holds
    <2>3. CASE cmd = "all" /\ img = "klipper"
      <3>1. Holds("katapult", want["katapult"]) /\ Holds("klipper", want["klipper"])
        BY <2>3 DEF Matches
      <3>2. \E ka \in KatapultBuilds, kl \in KlipperBuilds : chip = Layout(ka, kl)
        BY <2>3
      <3>3. /\ pc' = "idle" /\ cmd' = "all" /\ chip' = chip /\ want' = want
        BY <2>3
      <3>4. QED
        BY <3>1, <3>2, <3>3 DEF Holds, Image
    <2>4. CASE cmd # "all"
      <3>1. cmd = img
        BY <2>4
      <3>2. QED
        BY <2>4, <3>1 DEF Matches, Holds
    <2>5. QED
      BY <2>1, <2>2, <2>3, <2>4 DEF Image
  <1>16. CASE ReadBackFails
    BY <1>16 DEF ReadBackFails
  <1>17. CASE Killed
    BY <1>17 DEF Killed
  <1>18. ASSUME NEW i \in Image, ReplaceImage(i) PROVE Shape'
    BY <1>18 DEF ReplaceImage, Holds
  <1>19. CASE RestoreStock
    BY <1>19 DEF RestoreStock
  <1>20. CASE UNCHANGED vars
    BY <1>20 DEF vars, Holds
  <1>21. QED
    BY <1>1, <1>2, <1>3, <1>4, <1>5, <1>6, <1>7, <1>8, <1>9, <1>10, <1>11, <1>12, <1>13, <1>14, <1>15, <1>16, <1>17, <1>18, <1>19, <1>20 DEF Next

LEMMA IInvStep == IInv /\ [Next]_vars => IInv'
  <1>1. IInv <=> Control /\ Shape
    BY DEF IInv, Control, Shape
  <1>2. IInv' <=> Control' /\ Shape'
    BY DEF IInv, Control, Shape
  <1>3. QED
    BY <1>1, <1>2, ControlStep, ShapeStep

LEMMA Inductive == Spec => []IInv
  <1>1. Init => IInv
    <2>1. Init => Shape
      BY DEF Init, Shape, ChipShape, SuccessMeansFlashed, Image
    <2>2. QED
      BY <2>1, ControlInit DEF IInv, Control, Shape
  <1>2. QED
    BY <1>1, IInvStep, PTL DEF Spec

\* A flashing command that reports success has put on the chip the bytes it
\* read, even if the image files were replaced while it ran.
THEOREM FlashedOnSuccess == Spec => []SuccessMeansFlashed
  <1>1. IInv => SuccessMeansFlashed
    BY DEF IInv
  <1>2. QED
    BY <1>1, Inductive, PTL

\* `flash all` never erases a chip it has not just dumped.
THEOREM DumpBeforeErase == Spec => []EraseNeedsDump
  <1>1. IInv => EraseNeedsDump
    BY DEF IInv, Untouched, Dumped, EraseNeedsDump
  <1>2. QED
    BY <1>1, Inductive, PTL

\* Declining the confirmation leaves the chip as it was.
THEOREM AbortIsHarmless == Spec => []AbortLeavesChip
  <1>1. IInv => AbortLeavesChip
    BY DEF IInv
  <1>2. QED
    BY <1>1, Inductive, PTL

\* A step that writes one image's region leaves the other region alone.
OtherKept ==
  /\ cmd = "klipper" /\ pc # "idle" =>
       \A p \in 0 .. BootPages - 1 : chip'[p] = chip[p]
  /\ cmd = "katapult" /\ pc # "idle" =>
       \A p \in BootPages .. NumPages - 1 : chip'[p] = chip[p]

LEMMA OtherKeptStep == IInv /\ [Next]_vars => [OtherKept]_vars
  <1> SUFFICES ASSUME IInv, Next, chip' # chip PROVE OtherKept
    BY DEF OtherKept, vars
  <1>0. TypeOK /\ Position
    BY DEF IInv
  <1>1. 0 .. BootPages - 1 \subseteq Page /\ BootPages .. NumPages - 1 \subseteq Page
    BY FlashConstants DEF Page
  <1>2. CASE EraseAll \/ EraseFails
    BY <1>0, <1>2 DEF EraseAll, EraseFails, Position, OtherKept
  <1>3. CASE WriteImage \/ WriteFails
    <2>1. pc = "write" /\ (cmd = "all" \/ cmd = img)
      BY <1>0, <1>3 DEF WriteImage, WriteFails, Position
    <2>2. file[img] \in Builds(img) /\ img \in Image
      BY <1>0, <1>3 DEF WriteImage, WriteFails, TypeOK
    <2>3. \A p \in Page : p \notin Region(img, file[img]) => chip'[p] = chip[p]
      <3>1. CASE WriteImage
        BY <3>1 DEF WriteImage, Programmed
      <3>2. CASE WriteFails
        BY <1>0, <3>2 DEF WriteFails, HalfProgrammed, Miswritten, Programmed, TypeOK
      <3>3. QED
        BY <1>3, <3>1, <3>2
    <2>4. /\ img = "katapult" => \A p \in Region(img, file[img]) : p < BootPages
          /\ img = "klipper" => \A p \in Region(img, file[img]) : BootPages <= p
      BY <2>2, RegionFacts
    <2>5. QED
      BY <1>1, <2>1, <2>3, <2>4, FlashConstants DEF OtherKept
  <1>4. CASE RestoreStock
    BY <1>4 DEF RestoreStock, OtherKept
  <1>5. QED
    BY <1>2, <1>3, <1>4 DEF Next, env, FlashBackup, BackupRefused, FlashAll, FlashImage, Start,
      DumpSucceeds, DumpEmpty, DumpFails, ConfirmYes, ConfirmNo, ReadImage,
      ReadImageFails, ReadBackOk, ReadBackFails, Killed, ReplaceImage

\* Reflashing one image never changes the other's region.
THEOREM RegionsAreKept == Spec => OtherRegionKept
  <1>1. OtherRegionKept <=> [][OtherKept]_vars
    BY DEF OtherRegionKept, OtherKept
  <1>2. QED
    BY <1>1, Inductive, OtherKeptStep, PTL DEF Spec

-----------------------------------------------------------------------------
(* The route back.                                                          *)

\* From the prompt on, and for as long as it matters, the default backup file
\* holds a dump of the chip as the command found it.
Backed ==
  /\ cmd = "all" /\ pc \in {"confirm", "erase", "read", "write", "readback"} =>
       backup[DefaultBackup] \in Dumps(snap)
  /\ RollbackStaysPossible

LEMMA BackedStep == Control /\ Backed /\ [Next]_vars => Backed'
  <1> SUFFICES ASSUME Control, Backed, [Next]_vars PROVE Backed'
    OBVIOUS
  <1>0. TypeOK /\ Position /\ Untouched
    BY DEF Control
  <1> USE <1>0 DEF Position, Untouched, Backed, RollbackStaysPossible, Dumps, env, proc,
        End, Goto
  <1>1. CASE FlashBackup \/ BackupRefused \/ FlashAll \/ \E i \in Image : FlashImage(i)
    BY <1>1 DEF FlashBackup, BackupRefused, FlashAll, FlashImage, Start, Image
  <1>2. CASE DumpSucceeds
    <2>1. pc = "dump" /\ chip = snap /\ UNCHANGED <<chip, snap, cmd, rdp>>
      BY <1>2 DEF DumpSucceeds
    <2>2. CASE cmd = "all"
      <3>1. out = DefaultBackup
        BY <2>1, <2>2
      <3>2. PICK d \in Reads : backup' = [backup EXCEPT ![out] = d]
        BY <1>2 DEF DumpSucceeds
      <3>3. backup'[DefaultBackup] = d /\ d \in Dumps(snap)
        BY <2>1, <3>1, <3>2, FlashConstants DEF Reads, TypeOK
      <3>4. QED
        BY <2>1, <3>3
    <2>3. CASE cmd # "all"
      BY <2>1, <2>3
    <2>4. QED
      BY <2>2, <2>3
  <1>3. CASE DumpEmpty \/ DumpFails
    BY <1>3 DEF DumpEmpty, DumpFails
  <1>4. CASE ConfirmYes \/ ConfirmNo
    BY <1>4 DEF ConfirmYes, ConfirmNo
  <1>5. CASE EraseAll \/ EraseFails
    BY <1>5 DEF EraseAll, EraseFails
  <1>6. CASE ReadImage \/ ReadImageFails
    BY <1>6 DEF ReadImage, ReadImageFails
  <1>7. CASE WriteImage \/ WriteFails
    BY <1>7 DEF WriteImage, WriteFails
  <1>8. CASE ReadBackOk \/ ReadBackFails
    BY <1>8 DEF ReadBackOk, ReadBackFails
  <1>9. CASE Killed
    BY <1>9 DEF Killed
  <1>10. CASE \E i \in Image : ReplaceImage(i)
    BY <1>10 DEF ReplaceImage
  <1>11. CASE RestoreStock
    BY <1>11 DEF RestoreStock
  <1>12. CASE UNCHANGED vars
    BY <1>12 DEF vars
  <1>13. QED
    BY <1>1, <1>2, <1>3, <1>4, <1>5, <1>6, <1>7, <1>8, <1>9, <1>10, <1>11, <1>12 DEF Next

LEMMA SpecControl == Spec => []Control
  BY ControlInit, ControlStep, PTL DEF Spec

LEMMA SpecBacked == Spec => [](Control /\ Backed)
  <1>1. Init => Backed
    BY DEF Init, Backed, RollbackStaysPossible
  <1>2. QED
    BY <1>1, BackedStep, SpecControl, PTL DEF Spec

\* Whenever `flash all` has changed the chip, however it ended, the default
\* backup file holds a dump of what the chip was before.
THEOREM RollbackKept == Spec => []RollbackStaysPossible
  <1>1. Backed => RollbackStaysPossible
    BY DEF Backed
  <1>2. QED
    BY <1>1, SpecBacked, PTL

-----------------------------------------------------------------------------
(* What would keep flash.nim's promise "no half-flashed MCU".               *)

\* flashOne would get as far as the write.
Present == checkOcdPath /\ \A i \in Image : file[i] # "none"

\* What `flash all` has established when nothing fails but what it checks
\* itself: what is written is what was read.
Careful ==
  /\ NoHalfFlashedMcu
  /\ cmd = "all" /\ pc # "idle" => Present
  /\ cmd = "all" /\ pc \in {"write", "readback"} => want[img] = file[img]
  /\ cmd = "all" /\ pc = "readback" => Holds(img, file[img])

LEMMA CarefulStep ==
  ASSUME ~ Faults, ~ Noise, Control, Careful,
         cmd = "all" /\ pc = "dump" => Present,
         (cmd = "all" /\ pc = "dump" => Present)', [Next]_vars,
         [cmd = "all" /\ pc # "idle" => UNCHANGED file]_vars
  PROVE  Careful'
  <1>0. TypeOK /\ Position /\ Untouched
    BY DEF Control
  <1> USE <1>0 DEF Position, Untouched, Careful, NoHalfFlashedMcu, Present,
        checkOcdPath, env, proc, End, Goto
  <1>1. CASE FlashBackup \/ BackupRefused \/ FlashAll \/ \E i \in Image : FlashImage(i)
    BY <1>1 DEF FlashBackup, BackupRefused, FlashAll, FlashImage, Start, Image
  <1>2. CASE DumpSucceeds \/ DumpEmpty \/ DumpFails
    BY <1>2 DEF DumpSucceeds, DumpEmpty, DumpFails
  <1>3. CASE ConfirmYes \/ ConfirmNo
    BY <1>3 DEF ConfirmYes, ConfirmNo
  <1>4. CASE EraseAll \/ EraseFails
    BY <1>4 DEF EraseAll, EraseFails
  <1>5. CASE ReadImage \/ ReadImageFails
    BY <1>5 DEF ReadImage, ReadImageFails, TypeOK
  <1>6. CASE WriteImage
    <2>1. file[img] \in Builds(img)
      BY <1>6 DEF WriteImage, TypeOK
    <2>2. Region(img, file[img]) \subseteq Page
      BY <2>1, RegionFacts DEF TypeOK
    <2>3. \A p \in Region(img, file[img]) : chip'[p] = Written(img, file[img], p)
      BY <1>6, <2>2 DEF WriteImage, Programmed
    <2>4. /\ pc = "write" /\ pc' = "readback" /\ UNCHANGED <<cmd, img, want, exit, host, file>>
      BY <1>6 DEF WriteImage
    <2>5. Holds(img, file[img])'
      BY <2>3, <2>4 DEF Holds
    <2>6. QED
      BY <2>4, <2>5
  <1>7. CASE WriteFails
    BY <1>7 DEF WriteFails, TypeOK
  <1>8. CASE ReadBackOk
    BY <1>8 DEF ReadBackOk
  <1>9. CASE ReadBackFails
    BY <1>9 DEF ReadBackFails, Matches
  <1>10. CASE Killed
    BY <1>10 DEF Killed
  <1>11. CASE \E i \in Image : ReplaceImage(i)
    BY <1>11 DEF ReplaceImage, Holds, vars, TypeOK
  <1>12. CASE RestoreStock
    BY <1>12 DEF RestoreStock
  <1>13. CASE UNCHANGED vars
    BY <1>13 DEF vars, Holds
  <1>14. QED
    BY <1>1, <1>2, <1>3, <1>4, <1>5, <1>6, <1>7, <1>8, <1>9, <1>10, <1>11, <1>12, <1>13
       DEF Next

\* On a wire and a host that do not fail, two things are missing for "no
\* half-flashed MCU": to look for both images before the first openocd run, and
\* that nobody touches them until the command ends.  With these, a `flash all`
\* that fails leaves the chip as it found it.
THEOREM CheckedFirstIsWhole ==
  ~ Faults /\ ~ Noise =>
    (/\ Spec
     /\ [](cmd = "all" /\ pc = "dump" => Present)
     /\ [][cmd = "all" /\ pc # "idle" => UNCHANGED file]_vars
     => []NoHalfFlashedMcu)
  <1> SUFFICES ASSUME ~ Faults, ~ Noise
               PROVE  /\ Spec
                      /\ [](cmd = "all" /\ pc = "dump" => Present)
                      /\ [][cmd = "all" /\ pc # "idle" => UNCHANGED file]_vars
                      => []NoHalfFlashedMcu
    OBVIOUS
  <1>1. Init => Careful
    BY DEF Init, Careful, NoHalfFlashedMcu
  <1>2. /\ Control /\ Careful
        /\ cmd = "all" /\ pc = "dump" => Present
        /\ (cmd = "all" /\ pc = "dump" => Present)'
        /\ [Next]_vars
        /\ [cmd = "all" /\ pc # "idle" => UNCHANGED file]_vars
        => Careful'
    BY CarefulStep
  <1>3. Careful => NoHalfFlashedMcu
    BY DEF Careful
  <1>4. QED
    BY <1>1, <1>2, <1>3, SpecControl, PTL DEF Spec
=============================================================================
