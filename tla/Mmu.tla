-------------------------------- MODULE Mmu --------------------------------
(***************************************************************************)
(* Class mmu (mmu.cpp) as bus::read and bus::write (bus.cpp) use it: the   *)
(* check of every reference against the page's access mode and length, the *)
(* A and W bits of the page descriptors, and MMR0, which keeps the first   *)
(* fault until the program writes it.                                      *)
(*                                                                         *)
(* An address is its page field and its block in the page.  What a page    *)
(* address register points at is memory, the I/O page, or nothing.         *)
(* References of trap() itself (vector, pushes) are references like any.   *)
(***************************************************************************)
EXTENDS Naturals, FiniteSets

CONSTANTS RunModes,       \* a subset of {0, 1, 3}
          Apfs,           \* active page fields, a subset of 0..7
          Blocks,         \* block numbers in a page, a subset of 0..127
          Descriptors,    \* [ac, len, dir] values programs write to PDRs
          Mmr0Values,     \* values programs write to MMR0
          MaxMapped       \* bound: pages programs set up at the same time

Spaces == {"i", "d"}
Regions == {"memory", "io", "none"}
Errors == {"nonresident", "length", "readonly"}      \* bits 15, 14, 13

\* The fields of MMR0 the code uses; the mode is the mode of the fault.
Mmr0 == [enabled : BOOLEAN, errors : SUBSET Errors, mode : RunModes,
         space : Spaces, apf : Apfs]

ASSUME ModesAssumption == RunModes \subseteq 0..3 /\ 0 \in RunModes
ASSUME FieldsAssumption ==
  /\ Apfs \subseteq 0..7 /\ 0 \in Apfs /\ Blocks \subseteq 0..127
  /\ Descriptors \subseteq [ac : 0..7, len : 0..127, dir : {"up", "down"}]
  /\ Mmr0Values \subseteq Mmr0
  /\ MaxMapped \in Nat

\* calc_par_pdr_index
Index == RunModes \X Spaces \X Apfs

VARIABLES pages,          \* [Index -> [ac, len, dir, par, marks]]
          MMR0,           \* [enabled, errors, mode, space, apf]
          MMR3,           \* run modes whose D-space is enabled
          written,        \* history: pages written through since their PDR
                          \* or PAR was
          first,          \* history: the reference whose fault locked MMR0
          breach          \* history: the last reference wrote where the
                          \* page's access mode refuses writes

vars == <<pages, MMR0, MMR3, written, first, breach>>

None == [kind |-> "none"]

Pages == [ac : 0..7, len : 0..127, dir : {"up", "down"}, par : Regions,
          marks : SUBSET {"A", "W"}]

\* What reset leaves: no access, and page 0 of memory.
Cleared == [ac |-> 0, len |-> 0, dir |-> "up", par |-> "memory", marks |-> {}]
Mmr0Cleared == [enabled |-> FALSE, errors |-> {}, mode |-> 0, space |-> "i", apf |-> 0]

is_locked == MMR0.errors # {}

\* What verify_page_access does for each access mode: read, write.
get_trap_action(ac, is_write) ==
  IF is_write
  THEN CASE ac = 6 -> "proceed" [] ac \in {4, 5} -> "trap 250" [] OTHER -> "abort"
  ELSE CASE ac \in {2, 5, 6} -> "proceed" [] ac \in {1, 4} -> "trap 250" [] OTHER -> "abort"

\* verify_page_length
OutsidePage(p, b) == IF p.dir = "down" THEN b < p.len ELSE b > p.len

Init ==
  /\ pages = [i \in Index |-> Cleared]
  /\ MMR0 = Mmr0Cleared
  /\ MMR3 = {}
  /\ written = {}
  /\ first = None
  /\ breach = FALSE

-----------------------------------------------------------------------------
(* References.                                                             *)

\* bus::read and bus::write: the space counts only where it is enabled.
UsedSpace(rm, s) == IF rm \in MMR3 THEN s ELSE "i"

\* calculate_physical_address and the page index it returns; without the
\* MMU, it is the page field alone and the address is the physical one.
PageOf(rm, s, apf) ==
  IF MMR0.enabled THEN <<rm, UsedSpace(rm, s), apf>> ELSE <<0, "i", apf>>

\* Mutant: a fault overwrites what an earlier one recorded.
RecordAlways(errors, mode, space, i) ==
  /\ MMR0' = [MMR0 EXCEPT !.errors = errors, !.mode = mode, !.space = space, !.apf = i[3]]
  /\ first' = IF is_locked THEN first
              ELSE [kind |-> "fault", errors |-> errors, apf |-> i[3]]
  /\ UNCHANGED <<pages, MMR3, written, breach>>

\* A fault is recorded unless an earlier one is; then trap(0250) and throw.
Record(errors, mode, space, i) ==
  /\ MMR0' = IF is_locked THEN MMR0
             ELSE [MMR0 EXCEPT !.errors = errors, !.mode = mode, !.space = space,
                               !.apf = i[3]]
  /\ first' = IF is_locked THEN first
              ELSE [kind |-> "fault", errors |-> errors, apf |-> i[3]]
  /\ UNCHANGED <<pages, MMR3, written, breach>>

\* verify_page_access.  Mode and space are cleared and not set again.
\* bus::write passes is_write = false here (bus.cpp:855).
AccessRefused(rm, s, apf) ==
  LET i == PageOf(rm, s, apf)
      ac == pages[i].ac
      is_write == FALSE
  IN  /\ MMR0.enabled
      /\ get_trap_action(ac, is_write) # "proceed"
      /\ Record((IF (is_write /\ ac # 6) \/ ac \in {1, 2} THEN {"readonly"} ELSE {})
                \cup (IF ac \in {0, 3, 4, 7} THEN {"nonresident"} ELSE {}),
                0, "i", i)

InAccess(rm, s, apf) ==
  MMR0.enabled => get_trap_action(pages[PageOf(rm, s, apf)].ac, FALSE) = "proceed"

LengthRefused(rm, s, apf, b) ==
  LET i == PageOf(rm, s, apf)
  IN  /\ MMR0.enabled
      /\ InAccess(rm, s, apf)
      /\ OutsidePage(pages[i], b)
      /\ Record({"length"}, i[1], i[2], i)

Translated(rm, s, apf, b) ==
  /\ InAccess(rm, s, apf)
  /\ MMR0.enabled => ~OutsidePage(pages[PageOf(rm, s, apf)], b)

\* Without the MMU, the last page field is the I/O page and the rest memory.
RegionOf(rm, s, apf) ==
  IF MMR0.enabled THEN pages[PageOf(rm, s, apf)].par
  ELSE IF apf = 7 THEN "io" ELSE "memory"

\* verify_pointer_bounds; the space keeps what it was.
BoundsRefused(rm, s, apf, b) ==
  LET i == PageOf(rm, s, apf)
  IN  /\ Translated(rm, s, apf, b)
      /\ RegionOf(rm, s, apf) = "none"
      /\ Record({"nonresident"}, i[1], MMR0.space, i)

Breaches(i, w) ==
  MMR0.enabled /\ w /\ get_trap_action(pages[i].ac, TRUE) # "proceed"

\* A device register: its page's bits stay as they are.
IoReference(rm, s, apf, b, w) ==
  /\ Translated(rm, s, apf, b)
  /\ RegionOf(rm, s, apf) = "io"
  /\ breach' = Breaches(PageOf(rm, s, apf), w)
  /\ UNCHANGED <<pages, MMR0, MMR3, written, first>>

\* Mutant: set_page_accessed for writes too.
MarkAccessed(p, w) == [p EXCEPT !.marks = @ \cup {"A"}]

\* set_page_accessed, set_page_written_to
Mark(p, w) == [p EXCEPT !.marks = @ \cup (IF w THEN {"A", "W"} ELSE {"A"})]

Reference(rm, s, apf, b, w) ==
  LET i == PageOf(rm, s, apf)
  IN  /\ Translated(rm, s, apf, b)
      /\ RegionOf(rm, s, apf) = "memory"
      /\ pages' = [pages EXCEPT ![i] = Mark(@, w)]
      /\ written' = IF w THEN written \cup {i} ELSE written
      /\ breach' = Breaches(i, w)
      /\ UNCHANGED <<MMR0, MMR3, first>>

\* A word at an odd address: trap_if_odd writes the page field of MMR0,
\* locked or not, and the reference is given up without a trap.
OddReference(rm, s, apf, b, w) ==
  LET i == PageOf(rm, s, apf)
  IN  /\ Translated(rm, s, apf, b)
      /\ RegionOf(rm, s, apf) = "memory"
      /\ pages' = [pages EXCEPT ![i] = Mark(@, w)]
      /\ MMR0' = [MMR0 EXCEPT !.apf = apf]
      /\ first' = None
      /\ UNCHANGED <<MMR3, written, breach>>

-----------------------------------------------------------------------------
(* Registers.                                                              *)

\* write_pdr: the A and W bits are cleared.
write_pdr(i, d) ==
  /\ pages' = [pages EXCEPT ![i] = [@ EXCEPT !.ac = d.ac, !.len = d.len, !.dir = d.dir,
                                             !.marks = {}]]
  /\ written' = written \ {i}
  /\ UNCHANGED <<MMR0, MMR3, first, breach>>

write_par(i, region) ==
  /\ pages' = [pages EXCEPT ![i] = [@ EXCEPT !.par = region, !.marks = {}]]
  /\ written' = written \ {i}
  /\ UNCHANGED <<MMR0, MMR3, first, breach>>

\* setMMR0: turning the MMU on clears the error bits; when it is left off
\* and was locked, only bits 1 to 7 of the value are kept.
setMMR0(value) ==
  /\ MMR0' = IF value.enabled \/ is_locked THEN [value EXCEPT !.errors = {}] ELSE value
  /\ first' = None
  /\ UNCHANGED <<pages, MMR3, written, breach>>

setMMR3(modes) ==
  /\ MMR3' = modes
  /\ UNCHANGED <<pages, MMR0, written, first, breach>>

\* bus::reset(hard): mmu::reset(hard), and in the end MMR0 and MMR3 are set
\* to 0, hard or not.
reset(hard) ==
  /\ pages' = IF hard THEN [i \in Index |-> Cleared] ELSE pages
  /\ written' = IF hard THEN {} ELSE written
  /\ MMR0' = Mmr0Cleared
  /\ MMR3' = {}
  /\ first' = None
  /\ UNCHANGED breach

-----------------------------------------------------------------------------
Refer ==
  \E rm \in RunModes, s \in Spaces, apf \in Apfs, b \in Blocks, w \in BOOLEAN :
     \/ AccessRefused(rm, s, apf)
     \/ LengthRefused(rm, s, apf, b)
     \/ BoundsRefused(rm, s, apf, b)
     \/ IoReference(rm, s, apf, b, w)
     \/ Reference(rm, s, apf, b, w)
     \/ OddReference(rm, s, apf, b, w)

Mapped == {i \in Index : pages[i].ac # 0 \/ pages[i].par # "memory"}
Mappable == IF Cardinality(Mapped) < MaxMapped THEN Index ELSE Mapped

Next ==
  \/ Refer
  \/ \E i \in Mappable : \E d \in Descriptors : write_pdr(i, d)
  \/ \E i \in Mappable : \E region \in Regions : write_par(i, region)
  \/ \E value \in Mmr0Values : setMMR0(value)
  \/ \E modes \in SUBSET RunModes : setMMR3(modes)
  \/ \E hard \in BOOLEAN : reset(hard)

Spec == Init /\ [][Next]_vars

-----------------------------------------------------------------------------
TypeOK ==
  /\ pages \in [Index -> Pages]
  /\ MMR0 \in Mmr0
  /\ MMR3 \subseteq RunModes
  /\ written \subseteq Index
  /\ breach \in BOOLEAN

(***************************************************************************)
(* MMR0 describes the first fault: until the program writes MMR0 or makes  *)
(* an odd reference, its error bits and page field are those of the        *)
(* reference that set the lock, however many references fault after it     *)
(* (the tests of is_locked() at mmu.cpp:345, 385 and bus.cpp:549).         *)
(***************************************************************************)
FirstFaultKept ==
  first # None => MMR0.errors = first.errors /\ MMR0.apf = first.apf /\ is_locked

(***************************************************************************)
(* A page whose W bit is clear has not been written through since its PDR  *)
(* or PAR was: an operating system may drop it without saving it.          *)
(***************************************************************************)
WrittenIsMarked == \A i \in written : pages[i].marks = {"A", "W"}

\* What the table of get_trap_action says of writes, and the assertion on it
\* (mmu.cpp:312-324): a page that does not allow them is never written.
WriteProtected == ~breach
=============================================================================
