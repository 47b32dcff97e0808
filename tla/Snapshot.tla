------------------------------ MODULE Snapshot ------------------------------
(***************************************************************************)
(* The snapshot of a machine: what the command "ser" writes, what the      *)
(* option -D makes of it, and what main() adds to that.  A machine is a    *)
(* record of its devices; the registers of a device are a small function.  *)
(* No bus, or a crash on the way, is the value Crashed.                    *)
(***************************************************************************)
EXTENDS Naturals

\* Bits stand for the contents of a register.
Bits == {0, 1}
Registers(n) == 0 .. n - 1
Zeroes(n) == [i \in Registers(n) |-> 0]
Crashed == [machine |-> "none"]

\* What a device is after its constructor, begin() and reset(true).  The CPU
\* keeps for good the MMU that the bus has when it is made (mmu_object).
NewCpu(object) == [mmu_object |-> object,
           register |-> [place \in (0..1) \X Registers(2) |-> 0], sp |-> Zeroes(4),
           state |-> Zeroes(2), delayed_trap |-> {}, queued_interrupts |-> {},
           any_queued_interrupts |-> 0]
Modes == {0, 1, 3}
Spaces == {"i", "d"}
NewMmu == [pages |-> [page \in Modes \X Spaces |-> [par |-> 0, pdr |-> 0]],
           MMR |-> Zeroes(4), errors |-> 0]
NewTty == [registers |-> Zeroes(2), waiting |-> 0]
NewKw11 == [lf_csr |-> 0, wall_clock |-> 0]
NewDisk == [registers |-> Zeroes(2), position |-> 0, backends |-> {}]
NewDz11(lines) == [registers |-> Zeroes(2), channels |-> lines]

\* the constructor of the bus
NewBus == [machine |-> "made", memory |-> Zeroes(2), cpu |-> NewCpu(0), mmu |-> NewMmu,
           mmu_object |-> 0, tty |-> NewTty, kw11 |-> NewKw11, rl02 |-> NewDisk, rk05 |-> NewDisk,
           rp06 |-> NewDisk, dz11 |-> NewDz11(<< >>), dc11 |-> 0, tm11 |-> 0,
           console_switches |-> 0]

-----------------------------------------------------------------------------
(***************************************************************************)
(* Back-ends of disks: a new one has size 0, and the sum over no data is   *)
(* not the one that was written.  Where it is, deserialize(j) of the class *)
(* calls itself with the same j.                                           *)
(***************************************************************************)
crc_over_data(backend) == IF backend.size = 0 THEN "nothing" ELSE "data"
serialize_backend(backend) == [type |-> backend.type, overlay |-> backend.overlay,
                               crc32 |-> crc_over_data(backend)]
NewBackend(j) == [type |-> j.type, size |-> 0, overlay |-> {}]
deserialize_backend(j) == IF crc_over_data(NewBackend(j)) # j.crc32 THEN "null" ELSE "endless"

\* Both end the emulator: a call through the null pointer, or the stack.
Crashes(j) == j \in {"null", "endless"}

-----------------------------------------------------------------------------
(***************************************************************************)
(* serialize() of each device.                                             *)
(***************************************************************************)
\* The array of the queue is built in a variant that belongs to no document,
\* so that the key queued_interrupts holds null.
serialize_cpu(c) ==
  [register |-> c.register, sp |-> c.sp, state |-> c.state, delayed_trap |-> c.delayed_trap,
   queued_interrupts |-> "null", any_queued_interrupts |-> c.any_queued_interrupts]

serialize_mmu(m) == m
serialize_tty(t) == [registers |-> t.registers]
serialize_kw11(k) == k
serialize_disk(d) == [backends |-> {serialize_backend(b) : b \in d.backends},
                      registers |-> d.registers, position |-> d.position]
serialize_rp06(d) == [is_rp07 |-> FALSE]

\* the PSTI line has no key comm-backend-type
serialize_comm(kind) == IF kind = "pst" THEN "" ELSE kind
serialize_comm_io(lines) == [i \in DOMAIN lines |-> serialize_comm(lines[i])]
serialize_dz11(d) == [interfaces |-> serialize_comm_io(d.channels), registers |-> d.registers]

serialize(b) ==
  [memory |-> b.memory, kw11 |-> serialize_kw11(b.kw11), tty |-> serialize_tty(b.tty),
   mmu |-> serialize_mmu(b.mmu), cpu |-> serialize_cpu(b.cpu), rl02 |-> serialize_disk(b.rl02),
   rk05 |-> serialize_disk(b.rk05), dz11 |-> serialize_dz11(b.dz11),
   rp06 |-> serialize_rp06(b.rp06)]

-----------------------------------------------------------------------------
(***************************************************************************)
(* deserialize() of each device.                                           *)
(***************************************************************************)
\* mutant: the four stack pointers all come from the first key
deserialize_cpuOneStack(j, object) ==
  [NewCpu(object) EXCEPT !.register = j.register, !.sp = [i \in DOMAIN j.sp |-> j.sp[0]],
                 !.state = j.state, !.delayed_trap = j.delayed_trap,
                 !.any_queued_interrupts = j.any_queued_interrupts]

deserialize_cpu(j, object) ==
  [NewCpu(object) EXCEPT !.register = j.register, !.sp = j.sp, !.state = j.state,
                 !.delayed_trap = j.delayed_trap,
                 !.any_queued_interrupts = j.any_queued_interrupts,
                 !.queued_interrupts = IF j.queued_interrupts = "null" THEN {}
                                       ELSE j.queued_interrupts]
deserialize_mmu(j) == j
deserialize_tty(j) == [NewTty EXCEPT !.registers = j.registers]
deserialize_kw11(j) == [NewKw11 EXCEPT !.lf_csr = j.lf_csr, !.wall_clock = j.wall_clock]
deserialize_disk(j) == [NewDisk EXCEPT !.registers = j.registers, !.position = j.position]

\* a kind that is not known, "none" and "" among them, is no channel
deserialize_comm(kind) == IF kind \in {"tcp-server", "tcp-client", "posix"} THEN kind ELSE "none"
deserialize_comm_io(j) == [i \in DOMAIN j |-> deserialize_comm(j[i])]
deserialize_dz11(j) == [NewDz11(deserialize_comm_io(j.interfaces))
                          EXCEPT !.registers = j.registers]

\* mmu::begin is a hard reset, also when only the memory or the CPU is new
begin_mmu(b) == [b EXCEPT !.mmu = NewMmu]
add_ram(b, memory) == begin_mmu([b EXCEPT !.memory = memory])
add_cpu(b, cpu) == begin_mmu([b EXCEPT !.cpu = cpu])

\* the MMU that the bus had is deleted
add_mmu(b, mmu) == begin_mmu([b EXCEPT !.mmu = mmu, !.mmu_object = @ + 1])

deserialize(j) ==
  IF \E backend \in j.rl02.backends \cup j.rk05.backends : Crashes(deserialize_backend(backend))
  THEN Crashed
  ELSE LET with_memory == add_ram(NewBus, j.memory)
           with_tty == [with_memory EXCEPT !.tty = deserialize_tty(j.tty)]
           with_cpu == add_cpu(with_tty, deserialize_cpu(j.cpu, with_tty.mmu_object))
           with_mmu == add_mmu(with_cpu, deserialize_mmu(j.mmu))
       IN  [with_mmu EXCEPT !.rl02 = deserialize_disk(j.rl02), !.rk05 = deserialize_disk(j.rk05),
                            !.kw11 = deserialize_kw11(j.kw11), !.dz11 = deserialize_dz11(j.dz11),
                            !.rp06 = NewDisk]

\* main() adds a DZ11, a DC11 and a tape of its own in either case
configure(b, lines) == [b EXCEPT !.dz11 = NewDz11(lines), !.dc11 = 0, !.tm11 = 0]

Resume(j, lines) == IF deserialize(j) = Crashed THEN Crashed ELSE configure(deserialize(j), lines)
=============================================================================
