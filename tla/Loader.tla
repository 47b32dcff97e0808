------------------------------- MODULE Loader -------------------------------
(***************************************************************************)
(* The loaders (loaders.cpp).  load_tape reads a paper tape in absolute    *)
(* format: a block is its load address p, its data bytes and its count,    *)
(* which is 6 more than the data unless the file is cut off in the middle. *)
(***************************************************************************)
EXTENDS Naturals, Sequences

NoStart == "none"

\* a block that starts with neither the six bytes nor a load ends the tape
EndsTape(block) == block.count = 0 \/ block.p = 1

\* mutant: the data of a block without its last byte
DataOfShort(block) == [i \in 1 .. Len(block.data) - 1 |-> block.data[i]]

DataOf(block) == block.data

\* the bytes that come from the file, at p and up
Stored(memory, block) ==
  LET data == DataOf(block)
  IN  [a \in DOMAIN memory |->
         IF a >= block.p /\ a < block.p + Len(data) THEN data[a - block.p + 1] ELSE memory[a]]

\* A sum that is wrong is logged: the bytes are in memory already, and stay.
LoadBlock(state, block) ==
  IF state.ended \/ EndsTape(block) THEN [state EXCEPT !.ended = TRUE]
  ELSE [state EXCEPT !.start = IF block.count = 6 THEN block.p ELSE @,
                     !.memory = Stored(@, block)]

load_tape(memory, tape) ==
  LET after[i \in 0 .. Len(tape)] ==
        IF i = 0 THEN [memory |-> memory, start |-> NoStart, ended |-> FALSE]
        ELSE LoadBlock(after[i - 1], tape[i])
  IN  after[Len(tape)]

\* loadbin: the byte that is stored before feof() holds is the EOF itself
Eof == 255
loadbin(memory, base, file) == Stored(memory, [p |-> base, data |-> Append(file, Eof)])

\* load_p11_x11: a line is an address and a number of bytes, or, while there
\* are bytes to come, one of them
TakeLine(state, line) ==
  IF state.n > 0
  THEN [state EXCEPT !.memory = Stored(@, [p |-> state.addr, data |-> <<line.byte>>]),
                     !.n = @ - 1, !.addr = @ + 1]
  ELSE [state EXCEPT !.addr = line.addr, !.n = line.n]

load_p11_x11(memory, lines) ==
  LET after[i \in 0 .. Len(lines)] ==
        IF i = 0 THEN [memory |-> memory, addr |-> 0, n |-> 0]
        ELSE TakeLine(after[i - 1], lines[i])
  IN  after[Len(lines)].memory
=============================================================================
