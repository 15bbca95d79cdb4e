------------------------------ MODULE AbiCheck ------------------------------
(***************************************************************************)
(* The two device-ABI checkers: tools/build/elf.py, which the build runs   *)
(* on what it has just made, and tools/v3ke/elf.nim, which `v3ke verify`   *)
(* runs on an operator's machine.  Operators only.                         *)
(*                                                                         *)
(* A file is its length, the header fields the readers use, the non-zero   *)
(* words they may meet in its tables, and two things about the rest: the   *)
(* fp_abi byte at an offset, and which ranges hold a string that ends with *)
(* the device's loader.  e_flags is taken apart as the masks do it.        *)
(***************************************************************************)
EXTENDS Naturals

File ==
  [size : Nat, elf32 : BOOLEAN,
   machine : Nat, data : Nat, nan2008 : Nat, abi : Nat, arch : Nat,
   phoff : Nat, phentsize : Nat, phnum : Nat,
   shoff : Nat, shentsize : Nat, shnum : Nat,
   word : SUBSET [at : Nat, value : Nat \ {0}],
   fp : SUBSET [at : Nat, value : Nat \ {0}],
   loader : SUBSET (Nat \X Nat)]

Kind == {"Executable", "SharedLibrary"}
Field == {"machine", "endianness", "nan2008", "o32", "mips32r2", "fp_abi", "loader"}

\* The value a table of non-zero values has at offset o.
ValueAt(table, o) ==
  IF \E e \in table : e.at = o THEN (CHOOSE e \in table : e.at = o).value ELSE 0

PT_INTERP == 3
SHT_MIPS_ABIFLAGS == 1879048234
ABIFLAGS_MIN_SIZE == 24

\* The entries a loop over n of them looks at that stops at the first in S.
Visited(n, S) == {i \in 0 .. n - 1 : \A j \in S : i <= j}

-----------------------------------------------------------------------------
(* abi/abi_spec.py: little-endian MIPS32r2, o32, NaN 2008, FP64.             *)

EM_MIPS == 8
ELFDATA2LSB == 1
DEVICE_ABI == [nan2008 |-> 1, o32 |-> 1, mips32r2 |-> 7]
ACCEPTED_FP_ABI == [kind \in Kind |-> {6}]

-----------------------------------------------------------------------------
(* build/elf.py                                                             *)

PHDR32_SIZE == 32
SHDR32_SIZE == 40

PyPh(f, i) == f.phoff + i * PHDR32_SIZE
PySh(f, i) == f.shoff + i * SHDR32_SIZE
PyInterps(f) == {i \in 0 .. f.phnum - 1 : ValueAt(f.word, PyPh(f, i)) = PT_INTERP}
PyAbiflags(f) ==
  {i \in 0 .. f.shnum - 1 : ValueAt(f.word, PySh(f, i) + 4) = SHT_MIPS_ABIFLAGS}

PyMalformed(f) ==
  \/ f.size < 52 \/ ~ f.elf32
  \/ \E i \in Visited(f.phnum, PyInterps(f)) :
       \/ PyPh(f, i) + PHDR32_SIZE > f.size
       \/ /\ i \in PyInterps(f)
          /\ ValueAt(f.word, PyPh(f, i) + 4) + ValueAt(f.word, PyPh(f, i) + 16) > f.size
  \/ \E i \in Visited(f.shnum, PyAbiflags(f)) :
       \/ PySh(f, i) + SHDR32_SIZE > f.size
       \/ /\ i \in PyAbiflags(f)
          /\ \/ ValueAt(f.word, PySh(f, i) + 20) < ABIFLAGS_MIN_SIZE
             \/ ValueAt(f.word, PySh(f, i) + 16) + ValueAt(f.word, PySh(f, i) + 20) > f.size

\* inspect_elf, as far as check_abi looks at it.  An option is a set.
inspect_elf(f) ==
  [machine |-> f.machine, data |-> f.data,
   nan2008 |-> f.nan2008, abi |-> f.abi, arch |-> f.arch,
   fp_abi |-> {ValueAt(f.fp, ValueAt(f.word, PySh(f, i) + 16) + 7) :
                 i \in PyAbiflags(f) \cap Visited(f.shnum, PyAbiflags(f))},
   loader |-> \E i \in PyInterps(f) \cap Visited(f.phnum, PyInterps(f)) :
                <<ValueAt(f.word, PyPh(f, i) + 4),
                  ValueAt(f.word, PyPh(f, i) + 16)>> \in f.loader]

\* check_abi: the fields that are not what DEVICE_ABI wants.
check_abi(info, kind) ==
  {v \in Field :
     \/ v = "machine" /\ info.machine # EM_MIPS
     \/ v = "endianness" /\ info.data # ELFDATA2LSB
     \/ v = "nan2008" /\ info.nan2008 # DEVICE_ABI.nan2008
     \/ v = "o32" /\ info.abi # DEVICE_ABI.o32
     \/ v = "mips32r2" /\ info.arch # DEVICE_ABI.mips32r2
     \/ v = "fp_abi" /\ info.fp_abi \cap ACCEPTED_FP_ABI[kind] = {}
     \/ v = "loader" /\ kind = "Executable" /\ ~ info.loader}

PyVerdict(f, kind) ==
  IF PyMalformed(f) THEN "malformed"
  ELSE IF check_abi(inspect_elf(f), kind) = {} THEN "ok" ELSE "mismatch"

-----------------------------------------------------------------------------
(* v3ke/elf.nim: entries are as large as the header says.                    *)

MaxElfBytes == 64 * 1024 * 1024

\* A copy of abi_spec.py's tables, kept by hand.
EmMips == 8
ElfData2Lsb == 1
flagChecks == [nan2008 |-> 1, o32 |-> 1, mips32r2 |-> 7]
AcceptedFpAbi == {6}

NimPh(f, i) == f.phoff + i * f.phentsize
NimSh(f, i) == f.shoff + i * f.shentsize
NimInterps(f) == {i \in 0 .. f.phnum - 1 : ValueAt(f.word, NimPh(f, i)) = PT_INTERP}
NimAbiflags(f) ==
  {i \in 0 .. f.shnum - 1 : ValueAt(f.word, NimSh(f, i) + 4) = SHT_MIPS_ABIFLAGS}

NimMalformed(f) ==
  \/ f.size > MaxElfBytes \/ f.size < 52 \/ ~ f.elf32
  \/ f.phnum > 0 /\ f.phentsize < 20
  \/ \E i \in Visited(f.phnum, NimInterps(f)) :
       \/ NimPh(f, i) + f.phentsize > f.size
       \/ /\ i \in NimInterps(f)
          /\ ValueAt(f.word, NimPh(f, i) + 4) + ValueAt(f.word, NimPh(f, i) + 16) > f.size
  \/ f.shnum > 0 /\ f.shentsize < 24
  \/ \E i \in Visited(f.shnum, NimAbiflags(f)) :
       \/ NimSh(f, i) + f.shentsize > f.size
       \/ /\ i \in NimAbiflags(f)
          /\ \/ ValueAt(f.word, NimSh(f, i) + 20) < ABIFLAGS_MIN_SIZE
             \/ ValueAt(f.word, NimSh(f, i) + 16) + ValueAt(f.word, NimSh(f, i) + 20) > f.size

readElf(f) ==
  [machine |-> f.machine, data |-> f.data,
   nan2008 |-> f.nan2008, abi |-> f.abi, arch |-> f.arch,
   fpAbi |-> {ValueAt(f.fp, ValueAt(f.word, NimSh(f, i) + 16) + 7) :
                i \in NimAbiflags(f) \cap Visited(f.shnum, NimAbiflags(f))},
   loader |-> \E i \in NimInterps(f) \cap Visited(f.phnum, NimInterps(f)) :
                <<ValueAt(f.word, NimPh(f, i) + 4),
                  ValueAt(f.word, NimPh(f, i) + 16)>> \in f.loader]

\* Slip: the loader is asked of every kind.
checkAbiAnyKind(info, kind) ==
  {v \in Field :
     \/ v = "machine" /\ info.machine # EmMips
     \/ v = "endianness" /\ info.data # ElfData2Lsb
     \/ v = "nan2008" /\ info.nan2008 # flagChecks.nan2008
     \/ v = "o32" /\ info.abi # flagChecks.o32
     \/ v = "mips32r2" /\ info.arch # flagChecks.mips32r2
     \/ v = "fp_abi" /\ (info.fpAbi = {} \/ ~ info.fpAbi \subseteq AcceptedFpAbi)
     \/ v = "loader" /\ ~ info.loader}

checkAbi(info, kind) ==
  {v \in Field :
     \/ v = "machine" /\ info.machine # EmMips
     \/ v = "endianness" /\ info.data # ElfData2Lsb
     \/ v = "nan2008" /\ info.nan2008 # flagChecks.nan2008
     \/ v = "o32" /\ info.abi # flagChecks.o32
     \/ v = "mips32r2" /\ info.arch # flagChecks.mips32r2
     \/ v = "fp_abi" /\ (info.fpAbi = {} \/ ~ info.fpAbi \subseteq AcceptedFpAbi)
     \/ v = "loader" /\ kind = "Executable" /\ ~ info.loader}

NimVerdict(f, kind) ==
  IF NimMalformed(f) THEN "malformed"
  ELSE IF checkAbi(readElf(f), kind) = {} THEN "ok" ELSE "mismatch"

-----------------------------------------------------------------------------
\* Files as every ELF32 linker writes them, of the size of a host artifact.
\* On others the readers part ways: elf.py takes its entries to be 32 and 40
\* bytes whatever the header says, and knows no limit on the size.
Conventional(f) ==
  /\ f.size <= MaxElfBytes
  /\ f.phnum > 0 => f.phentsize = PHDR32_SIZE
  /\ f.shnum > 0 => f.shentsize = SHDR32_SIZE
=============================================================================
