--------------------------- MODULE AbiCheckProofs ---------------------------
(***************************************************************************)
(* The two ELF readers decide alike on every file of the usual layout,     *)
(* whatever is in it: elf.nim's header says that the two "cannot silently  *)
(* drift".  No bound on sizes, offsets or the number of headers.           *)
(***************************************************************************)
EXTENDS AbiCheck, TLAPS

\* A loop that stops at its first hit finds one entry at most.
LEMMA FirstIsUnique ==
  ASSUME NEW n \in Nat, NEW S \in SUBSET (0 .. n - 1),
         NEW i \in S \cap Visited(n, S), NEW j \in S \cap Visited(n, S)
  PROVE  i = j
<1>1. i <= j /\ j <= i
  BY DEF Visited
<1>2. i \in Nat /\ j \in Nat
  OBVIOUS
<1> QED
  BY <1>1, <1>2

\* Entries of the usual size are where elf.py takes them to be.
LEMMA SameTables ==
  ASSUME NEW f \in File, Conventional(f)
  PROVE  /\ \A i \in 0 .. f.phnum - 1 : NimPh(f, i) = PyPh(f, i)
         /\ \A i \in 0 .. f.shnum - 1 : NimSh(f, i) = PySh(f, i)
         /\ NimInterps(f) = PyInterps(f)
         /\ NimAbiflags(f) = PyAbiflags(f)
<1>1. f.phnum \in Nat /\ f.shnum \in Nat
  BY DEF File
<1>2. \A i \in 0 .. f.phnum - 1 : NimPh(f, i) = PyPh(f, i)
  BY <1>1 DEF NimPh, PyPh, Conventional
<1>3. \A i \in 0 .. f.shnum - 1 : NimSh(f, i) = PySh(f, i)
  BY <1>1 DEF NimSh, PySh, Conventional
<1>4. NimInterps(f) = PyInterps(f)
  BY <1>2 DEF NimInterps, PyInterps
<1>5. NimAbiflags(f) = PyAbiflags(f)
  BY <1>3 DEF NimAbiflags, PyAbiflags
<1> QED
  BY <1>2, <1>3, <1>4, <1>5

\* They refuse the same files as malformed.
LEMMA SameRefusals ==
  ASSUME NEW f \in File, Conventional(f)
  PROVE  NimMalformed(f) <=> PyMalformed(f)
<1> DEFINE
  BadHeader == f.size < 52 \/ ~ f.elf32
  NimBadPh == \E i \in Visited(f.phnum, NimInterps(f)) :
       \/ NimPh(f, i) + f.phentsize > f.size
       \/ /\ i \in NimInterps(f)
          /\ ValueAt(f.word, NimPh(f, i) + 4) + ValueAt(f.word, NimPh(f, i) + 16) > f.size
  PyBadPh == \E i \in Visited(f.phnum, PyInterps(f)) :
       \/ PyPh(f, i) + PHDR32_SIZE > f.size
       \/ /\ i \in PyInterps(f)
          /\ ValueAt(f.word, PyPh(f, i) + 4) + ValueAt(f.word, PyPh(f, i) + 16) > f.size
  NimBadSh == \E i \in Visited(f.shnum, NimAbiflags(f)) :
       \/ NimSh(f, i) + f.shentsize > f.size
       \/ /\ i \in NimAbiflags(f)
          /\ \/ ValueAt(f.word, NimSh(f, i) + 20) < ABIFLAGS_MIN_SIZE
             \/ ValueAt(f.word, NimSh(f, i) + 16) + ValueAt(f.word, NimSh(f, i) + 20) > f.size
  PyBadSh == \E i \in Visited(f.shnum, PyAbiflags(f)) :
       \/ PySh(f, i) + SHDR32_SIZE > f.size
       \/ /\ i \in PyAbiflags(f)
          /\ \/ ValueAt(f.word, PySh(f, i) + 20) < ABIFLAGS_MIN_SIZE
             \/ ValueAt(f.word, PySh(f, i) + 16) + ValueAt(f.word, PySh(f, i) + 20) > f.size
<1>1. f.size \in Nat /\ f.phnum \in Nat /\ f.shnum \in Nat
  BY DEF File
<1>2. ~ (f.size > MaxElfBytes)
  BY <1>1 DEF Conventional, MaxElfBytes
<1>3. ~ (f.phnum > 0 /\ f.phentsize < 20) /\ ~ (f.shnum > 0 /\ f.shentsize < 24)
  BY DEF Conventional, PHDR32_SIZE, SHDR32_SIZE
<1>4. \A i \in Visited(f.phnum, PyInterps(f)) :
        i \in 0 .. f.phnum - 1 /\ f.phentsize = PHDR32_SIZE
  <2>1. \A i \in Visited(f.phnum, PyInterps(f)) : i \in 0 .. f.phnum - 1
    BY DEF Visited
  <2>2. \A i \in 0 .. f.phnum - 1 : f.phnum > 0
    BY <1>1
  <2> QED
    BY <2>1, <2>2 DEF Conventional
<1>5. \A i \in Visited(f.shnum, PyAbiflags(f)) :
        i \in 0 .. f.shnum - 1 /\ f.shentsize = SHDR32_SIZE
  <2>1. \A i \in Visited(f.shnum, PyAbiflags(f)) : i \in 0 .. f.shnum - 1
    BY DEF Visited
  <2>2. \A i \in 0 .. f.shnum - 1 : f.shnum > 0
    BY <1>1
  <2> QED
    BY <2>1, <2>2 DEF Conventional
<1>6. NimBadPh <=> PyBadPh
  BY SameTables, <1>4
<1>7. NimBadSh <=> PyBadSh
  BY SameTables, <1>5
<1>8. NimMalformed(f) <=> BadHeader \/ NimBadPh \/ NimBadSh
  BY <1>2, <1>3 DEF NimMalformed
<1>9. PyMalformed(f) <=> BadHeader \/ PyBadPh \/ PyBadSh
  BY DEF PyMalformed
<1> QED
  BY <1>6, <1>7, <1>8, <1>9

\* They read the same things out of the others.
LEMMA SameInfo ==
  ASSUME NEW f \in File, Conventional(f)
  PROVE  LET n == readElf(f) p == inspect_elf(f)
         IN  /\ n.machine = p.machine /\ n.data = p.data
             /\ n.nan2008 = p.nan2008 /\ n.abi = p.abi /\ n.arch = p.arch
             /\ n.fpAbi = p.fp_abi
             /\ n.loader <=> p.loader
<1> DEFINE A == PyAbiflags(f) \cap Visited(f.shnum, PyAbiflags(f))
           I == PyInterps(f) \cap Visited(f.phnum, PyInterps(f))
<1>1. A \subseteq 0 .. f.shnum - 1 /\ I \subseteq 0 .. f.phnum - 1
  BY DEF PyAbiflags, PyInterps
<1>2. {ValueAt(f.fp, ValueAt(f.word, NimSh(f, i) + 16) + 7) : i \in A}
        = {ValueAt(f.fp, ValueAt(f.word, PySh(f, i) + 16) + 7) : i \in A}
  BY <1>1, SameTables
<1>3. (\E i \in I : <<ValueAt(f.word, NimPh(f, i) + 4),
                      ValueAt(f.word, NimPh(f, i) + 16)>> \in f.loader)
        <=> (\E i \in I : <<ValueAt(f.word, PyPh(f, i) + 4),
                            ValueAt(f.word, PyPh(f, i) + 16)>> \in f.loader)
  BY <1>1, SameTables
<1> QED
  BY <1>2, <1>3, SameTables DEF readElf, inspect_elf

\* The float ABI is one byte or absent, so that "not in the accepted set" and
\* "none of the accepted" are the same.
LEMMA OneFpAbi ==
  ASSUME NEW f \in File, NEW v \in inspect_elf(f).fp_abi, NEW w \in inspect_elf(f).fp_abi
  PROVE  v = w
<1> DEFINE S == PyAbiflags(f)
           At(i) == ValueAt(f.fp, ValueAt(f.word, PySh(f, i) + 16) + 7)
<1>1. PICK i \in S \cap Visited(f.shnum, S) : v = At(i)
  BY DEF inspect_elf
<1>2. PICK j \in S \cap Visited(f.shnum, S) : w = At(j)
  BY DEF inspect_elf
<1>3. f.shnum \in Nat /\ S \in SUBSET (0 .. f.shnum - 1)
  BY DEF File, PyAbiflags
<1>4. i = j
  BY <1>3, FirstIsUnique
<1> QED
  BY <1>1, <1>2, <1>4

\* The build's checker and the operator's give one verdict.
THEOREM VerdictsAgree ==
  ASSUME NEW f \in File, Conventional(f), NEW kind \in Kind
  PROVE  NimVerdict(f, kind) = PyVerdict(f, kind)
<1> DEFINE n == readElf(f)
           p == inspect_elf(f)
<1>1. (n.fpAbi = {} \/ ~ n.fpAbi \subseteq AcceptedFpAbi)
        <=> p.fp_abi \cap ACCEPTED_FP_ABI[kind] = {}
  <2>1. n.fpAbi = p.fp_abi
    BY SameInfo
  <2> QED
    BY <2>1, OneFpAbi DEF AcceptedFpAbi, ACCEPTED_FP_ABI
<1>2. checkAbi(n, kind) = check_abi(p, kind)
  <2> HIDE DEF n, p
  <2>1. /\ n.machine = p.machine /\ n.data = p.data
        /\ n.nan2008 = p.nan2008 /\ n.abi = p.abi /\ n.arch = p.arch
        /\ n.loader <=> p.loader
    BY SameInfo DEF n, p
  <2> QED
    BY <1>1, <2>1 DEF checkAbi, check_abi, EmMips, EM_MIPS, ElfData2Lsb, ELFDATA2LSB,
                      flagChecks, DEVICE_ABI
<1> QED
  BY <1>2, SameRefusals DEF NimVerdict, PyVerdict
-----------------------------------------------------------------------------
(* Bounds.  elf.nim's readElf raises ElfError "if any referenced            *)
(* section/program header lies outside the file"; an IndexDefect instead    *)
(* would end verify with a stack trace.                                     *)

\* A field of four bytes at o, and the range of n bytes at o, in the file.
WordInside(f, o) == o + 4 <= f.size
RangeInside(f, o, n) == o + n <= f.size

\* What a reader takes from the table entries at p and at s.
SegmentInside(f, p) ==
  /\ WordInside(f, p) /\ WordInside(f, p + 4) /\ WordInside(f, p + 16)
SectionInside(f, s) ==
  /\ WordInside(f, s + 4) /\ WordInside(f, s + 16) /\ WordInside(f, s + 20)
InterpInside(f, p) ==
  RangeInside(f, ValueAt(f.word, p + 4), ValueAt(f.word, p + 16))
AbiflagsInside(f, s) == RangeInside(f, ValueAt(f.word, s + 16) + 7, 1)

LEMMA ValuesAreNatural ==
  ASSUME NEW f \in File, NEW o
  PROVE  ValueAt(f.word, o) \in Nat
<1>1. f.word \subseteq [at : Nat, value : Nat \ {0}]
  BY DEF File
<1>2. CASE \E e \in f.word : e.at = o
  <2>1. (CHOOSE e \in f.word : e.at = o) \in f.word
    BY <1>2
  <2> QED
    BY <1>1, <1>2, <2>1 DEF ValueAt
<1>3. CASE ~ \E e \in f.word : e.at = o
  BY <1>3 DEF ValueAt
<1> QED
  BY <1>2, <1>3

\* What an entry of m bytes at p holds: the bounds its check gives.
LEMMA EntryInside ==
  ASSUME NEW f \in File, NEW p \in Nat, NEW m \in Nat, p + m <= f.size
  PROVE  /\ m >= 20 => SegmentInside(f, p)
         /\ m >= 24 => SectionInside(f, p)
<1>1. f.size \in Nat
  BY DEF File
<1> QED
  BY <1>1 DEF SegmentInside, SectionInside, WordInside

LEMMA FlagsInside ==
  ASSUME NEW f \in File, NEW s \in Nat,
         ~ (ValueAt(f.word, s + 20) < ABIFLAGS_MIN_SIZE),
         ~ (ValueAt(f.word, s + 16) + ValueAt(f.word, s + 20) > f.size)
  PROVE  AbiflagsInside(f, s)
<1>1. /\ f.size \in Nat
      /\ ValueAt(f.word, s + 16) \in Nat /\ ValueAt(f.word, s + 20) \in Nat
  BY ValuesAreNatural DEF File
<1> QED
  BY <1>1 DEF AbiflagsInside, RangeInside, ABIFLAGS_MIN_SIZE

LEMMA NameInside ==
  ASSUME NEW f \in File, NEW p \in Nat,
         ~ (ValueAt(f.word, p + 4) + ValueAt(f.word, p + 16) > f.size)
  PROVE  InterpInside(f, p)
<1>1. /\ f.size \in Nat
      /\ ValueAt(f.word, p + 4) \in Nat /\ ValueAt(f.word, p + 16) \in Nat
  BY ValuesAreNatural DEF File
<1> QED
  BY <1>1 DEF InterpInside, RangeInside

\* Of a file it does not refuse, elf.nim reads nothing past the end, whatever
\* sizes, counts and offsets the headers claim.
THEOREM NimReadsInside ==
  ASSUME NEW f \in File, ~ NimMalformed(f)
  PROVE  /\ \A i \in Visited(f.phnum, NimInterps(f)) :
              /\ SegmentInside(f, NimPh(f, i))
              /\ i \in NimInterps(f) => InterpInside(f, NimPh(f, i))
         /\ \A i \in Visited(f.shnum, NimAbiflags(f)) :
              /\ SectionInside(f, NimSh(f, i))
              /\ i \in NimAbiflags(f) => AbiflagsInside(f, NimSh(f, i))
<1>1. /\ f.size \in Nat /\ f.phoff \in Nat /\ f.phentsize \in Nat /\ f.phnum \in Nat
      /\ f.shoff \in Nat /\ f.shentsize \in Nat /\ f.shnum \in Nat
  BY DEF File
<1>2. ASSUME NEW i \in Visited(f.phnum, NimInterps(f))
      PROVE  /\ SegmentInside(f, NimPh(f, i))
             /\ i \in NimInterps(f) => InterpInside(f, NimPh(f, i))
  <2>1. i \in Nat /\ f.phnum > 0
    BY <1>1, <1>2 DEF Visited
  <2>2. NimPh(f, i) \in Nat /\ f.phentsize >= 20
    BY <1>1, <2>1 DEF NimPh, NimMalformed
  <2>3. NimPh(f, i) + f.phentsize <= f.size
    <3>1. ~ (NimPh(f, i) + f.phentsize > f.size)
      BY <1>2 DEF NimMalformed
    <3> QED
      BY <1>1, <2>2, <3>1
  <2>4. SegmentInside(f, NimPh(f, i))
    BY <1>1, <2>2, <2>3, EntryInside
  <2>5. i \in NimInterps(f) => InterpInside(f, NimPh(f, i))
    BY <1>2, <2>2, NameInside DEF NimMalformed
  <2> QED
    BY <2>4, <2>5
<1>3. ASSUME NEW i \in Visited(f.shnum, NimAbiflags(f))
      PROVE  /\ SectionInside(f, NimSh(f, i))
             /\ i \in NimAbiflags(f) => AbiflagsInside(f, NimSh(f, i))
  <2>1. i \in Nat /\ f.shnum > 0
    BY <1>1, <1>3 DEF Visited
  <2>2. NimSh(f, i) \in Nat /\ f.shentsize >= 24
    BY <1>1, <2>1 DEF NimSh, NimMalformed
  <2>3. NimSh(f, i) + f.shentsize <= f.size
    <3>1. ~ (NimSh(f, i) + f.shentsize > f.size)
      BY <1>3 DEF NimMalformed
    <3> QED
      BY <1>1, <2>2, <3>1
  <2>4. SectionInside(f, NimSh(f, i))
    BY <1>1, <2>2, <2>3, EntryInside
  <2>5. i \in NimAbiflags(f) => AbiflagsInside(f, NimSh(f, i))
    BY <1>3, <2>2, FlagsInside DEF NimMalformed
  <2> QED
    BY <2>4, <2>5
<1> QED
  BY <1>2, <1>3

\* The same of elf.py, which takes every entry to have the usual size.
THEOREM PyReadsInside ==
  ASSUME NEW f \in File, ~ PyMalformed(f)
  PROVE  /\ \A i \in Visited(f.phnum, PyInterps(f)) :
              /\ SegmentInside(f, PyPh(f, i))
              /\ i \in PyInterps(f) => InterpInside(f, PyPh(f, i))
         /\ \A i \in Visited(f.shnum, PyAbiflags(f)) :
              /\ SectionInside(f, PySh(f, i))
              /\ i \in PyAbiflags(f) => AbiflagsInside(f, PySh(f, i))
<1>1. /\ f.size \in Nat /\ f.phoff \in Nat /\ f.phnum \in Nat
      /\ f.shoff \in Nat /\ f.shnum \in Nat
  BY DEF File
<1>2. ASSUME NEW i \in Visited(f.phnum, PyInterps(f))
      PROVE  /\ SegmentInside(f, PyPh(f, i))
             /\ i \in PyInterps(f) => InterpInside(f, PyPh(f, i))
  <2>1. i \in Nat
    BY <1>1, <1>2 DEF Visited
  <2>2. PyPh(f, i) \in Nat /\ PHDR32_SIZE = 32
    BY <1>1, <2>1 DEF PyPh, PHDR32_SIZE
  <2>3. ~ (PyPh(f, i) + PHDR32_SIZE > f.size)
    BY <1>2 DEF PyMalformed
  <2>4. SegmentInside(f, PyPh(f, i))
    BY <1>1, <2>2, <2>3, EntryInside
  <2>5. i \in PyInterps(f) => InterpInside(f, PyPh(f, i))
    BY <1>2, <2>2, NameInside DEF PyMalformed
  <2> QED
    BY <2>4, <2>5
<1>3. ASSUME NEW i \in Visited(f.shnum, PyAbiflags(f))
      PROVE  /\ SectionInside(f, PySh(f, i))
             /\ i \in PyAbiflags(f) => AbiflagsInside(f, PySh(f, i))
  <2>1. i \in Nat
    BY <1>1, <1>3 DEF Visited
  <2>2. PySh(f, i) \in Nat /\ SHDR32_SIZE = 40
    BY <1>1, <2>1 DEF PySh, SHDR32_SIZE
  <2>3. ~ (PySh(f, i) + SHDR32_SIZE > f.size)
    BY <1>3 DEF PyMalformed
  <2>4. SectionInside(f, PySh(f, i))
    BY <1>1, <2>2, <2>3, EntryInside
  <2>5. i \in PyAbiflags(f) => AbiflagsInside(f, PySh(f, i))
    BY <1>3, <2>2, FlagsInside DEF PyMalformed
  <2> QED
    BY <2>4, <2>5
<1> QED
  BY <1>2, <1>3
=============================================================================
