------------------------------- MODULE IoPage -------------------------------
(***************************************************************************)
(* The I/O page (bus.cpp): read_IO and write_IO try the registers of the   *)
(* machine and the windows of the devices one after the other, each in an  *)
(* order of its own, and trap when nothing answers.  Here each is a        *)
(* sequence of entries, and the first that matches answers.                *)
(***************************************************************************)
EXTENDS Integers, Sequences

CONSTANT Attached         \* the devices that the bus was given

Page == \o160000 .. \o177777

ADDR_PSW == \o177776
ADDR_STACKLIM == \o177774
ADDR_PIR == \o177772
ADDR_MICROPROG_BREAK_REG == \o177770
ADDR_CPU_ERR == \o177766
ADDR_SYSTEM_ID == \o177764
ADDR_SYSSIZE == \o177760
ADDR_MAINT == \o177750
ADDR_CONSW == \o177570
ADDR_LFC == \o177546
ADDR_LP11CSR == \o177514
ADDR_MMR0 == \o177572
ADDR_MMR1 == \o177574
ADDR_MMR2 == \o177576
ADDR_MMR3 == \o172516

\* The windows: first address, the address behind the last, and how many
\* registers of a word the device keeps.
Devices ==
  [tm11 |-> [base |-> \o172520, end |-> \o172534, registers |-> 6],
   rk05 |-> [base |-> \o177400, end |-> \o177416, registers |-> 7],
   rl02 |-> [base |-> \o174400, end |-> \o174410, registers |-> 4],
   tty |-> [base |-> \o177560, end |-> \o177570, registers |-> 4],
   dc11 |-> [base |-> \o174000, end |-> \o174000 + (4 * 4 + 1) * 2, registers |-> 16],
   dz11 |-> [base |-> \o160100, end |-> \o160110, registers |-> 6],
   rp06 |-> [base |-> \o176700, end |-> \o176752, registers |-> 32],
   deqna |-> [base |-> \o174440, end |-> \o174460, registers |-> 8]]

ASSUME AttachedAssumption == Attached \subseteq DOMAIN Devices

DeviceOrder == <<"tm11", "rk05", "rl02", "tty", "dc11", "dz11", "rp06", "deqna">>

WindowTooFar(d) == IF d \in Attached THEN Devices[d].base .. Devices[d].end ELSE {}

Window(d) == IF d \in Attached THEN Devices[d].base .. Devices[d].end - 1 ELSE {}

Byte == {TRUE}
Word == {FALSE}
Both == BOOLEAN

\* An entry answers the addresses given, for the sizes of access given.
Entry(name, addresses, sizes) == [name |-> name, addresses |-> addresses, sizes |-> sizes]
WithNext(a) == {a, a + 1}

Windows == [n \in DOMAIN DeviceOrder |-> Entry(DeviceOrder[n], Window(DeviceOrder[n]), Both)]

\* R0 to R5 of the set in use (both ranges), the stack pointers and the PC
CpuRegisters == \o177700 .. \o177705 \cup \o177710 .. \o177715
                \cup {\o177706, \o177707, \o177716, \o177717}

PageRegisters == \o172200 .. \o172277 \cup \o172300 .. \o172377 \cup \o177600 .. \o177677
CacheControl == \o177740 .. \o177753
UnibusMap == \o170200 .. \o170377
Parity == \o172100 .. \o172137

Answers(e, a, byte) == a \in e.addresses /\ byte \in e.sizes

\* What answers, by the order of the table; "odd" and "none" trap to 4.
First(table, a, byte) ==
  LET hits == {n \in DOMAIN table : Answers(table[n], a, byte)}
  IN  IF hits = {} THEN "none"
      ELSE table[CHOOSE n \in hits : \A k \in hits : n <= k].name

-----------------------------------------------------------------------------
(***************************************************************************)
(* Reading: the registers of the CPU come before the check for odd         *)
(* addresses, as they are at odd ones too.                                 *)
(***************************************************************************)
OddWords == Entry("odd", {a \in Page : a % 2 = 1}, Word)

ReadAnySize ==
  <<Entry("cpuerr", {ADDR_CPU_ERR}, Both),
    Entry("maint", {ADDR_MAINT}, Both),
    Entry("switches", {ADDR_CONSW}, Both),
    Entry("pir", WithNext(ADDR_PIR), Both),
    Entry("sysid", {ADDR_SYSTEM_ID}, Both),
    Entry("kw11", {ADDR_LFC}, Both),
    Entry("lp11", {ADDR_LP11CSR}, Both),
    Entry("pages", PageRegisters, Both),
    Entry("cache", CacheControl, Both),
    Entry("unibus", UnibusMap, Both),
    Entry("parity", Parity, Both)>>

ReadBySize ==
  <<Entry("psw", WithNext(ADDR_PSW), Byte),
    Entry("stacklim", WithNext(ADDR_STACKLIM), Byte),
    Entry("break", WithNext(ADDR_MICROPROG_BREAK_REG), Byte),
    Entry("mmr0", WithNext(ADDR_MMR0), Byte),
    Entry("mmr0", {ADDR_MMR0}, Word),
    Entry("mmr1", {ADDR_MMR1}, Word),
    Entry("mmr2", {ADDR_MMR2}, Word),
    Entry("mmr3", {ADDR_MMR3}, Word),
    Entry("psw", {ADDR_PSW}, Word),
    Entry("stacklim", {ADDR_STACKLIM}, Word),
    Entry("break", {ADDR_MICROPROG_BREAK_REG}, Word)>>

SystemSize == Entry("syssize", {ADDR_SYSSIZE, ADDR_SYSSIZE + 2}, Both)

ReadTable == <<Entry("cpu", CpuRegisters, Both), OddWords>>
             \o ReadAnySize \o ReadBySize \o Windows \o <<SystemSize>>

read_IO(a, byte) == First(ReadTable, a, byte)

(***************************************************************************)
(* Writing: the odd address is looked at when nothing else has answered.   *)
(* Bytes reach the registers of the CPU only by way of a window.           *)
(***************************************************************************)
WriteBySize ==
  <<Entry("psw", WithNext(ADDR_PSW), Byte),
    Entry("stacklim", WithNext(ADDR_STACKLIM), Byte),
    Entry("break", WithNext(ADDR_MICROPROG_BREAK_REG), Byte),
    Entry("mmr0", WithNext(ADDR_MMR0), Byte),
    Entry("psw", {ADDR_PSW}, Word),
    Entry("stacklim", {ADDR_STACKLIM}, Word),
    Entry("cpu", CpuRegisters, Word),
    Entry("break", {ADDR_MICROPROG_BREAK_REG}, Word)>>

WriteAnySize ==
  <<Entry("cpuerr", {ADDR_CPU_ERR}, Both),
    Entry("mmr3", {ADDR_MMR3}, Both),
    Entry("mmr0", {ADDR_MMR0}, Both),
    Entry("pir", {ADDR_PIR}, Both),
    Entry("kw11", {ADDR_LFC}, Both)>>

WriteLast ==
  <<Entry("parity", Parity, Both),
    Entry("pages", PageRegisters, Both),
    Entry("cache", CacheControl, Both),
    Entry("unibus", UnibusMap, Both),
    Entry("switches", {ADDR_CONSW}, Both),
    SystemSize,
    Entry("sysid", {ADDR_SYSTEM_ID}, Both),
    OddWords>>

WriteTable == WriteBySize \o WriteAnySize \o Windows \o WriteLast

write_IO(a, byte) == First(WriteTable, a, byte)

\* The register of the device that an address in its window is taken for.
RegisterOf(d, a) == (a - Devices[d].base) \div 2

(***************************************************************************)
(* The program interrupt requests, bits 9 to 15, and the highest of them   *)
(* as the hardware encodes it, in bits 1 to 3 and 5 to 7.                  *)
(***************************************************************************)
Requests(value) == value \div 512
Rounds(value) ==                             \* of the loop: bits >>= 1 until 0
  CHOOSE n \in 0..7 : Requests(value) \div 2 ^ n = 0
                      /\ (n = 0 \/ Requests(value) \div 2 ^ (n - 1) # 0)
WritePir(value) == 512 * Requests(value) + \o42 * Rounds(value)

=============================================================================
