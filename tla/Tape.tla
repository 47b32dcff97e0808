-------------------------------- MODULE Tape --------------------------------
(***************************************************************************)
(* The tape drive TM-11 (tm-11.cpp) on a tape image.  An image is a        *)
(* sequence of 4-byte cells: a header, the data and a trailer for every    *)
(* record, one empty cell for a tape mark.  Any cell can be taken for a    *)
(* header: [length, meta], its length in cells.  A position is the number  *)
(* of cells before it, and can be behind the end.                          *)
(***************************************************************************)
EXTENDS Naturals, Sequences

Header(length, meta) == [length |-> length, meta |-> meta]

\* fseek with a negative offset that is an unsigned 32-bit number: a file is
\* never that long.
Far == 1000
BackBy(p, n) == p + Far - n

Loaded == [p |-> 0, ok |-> TRUE, got |-> << >>, hangs |-> FALSE]

Found(p, length) == [p |-> p, found |-> TRUE, length |-> length, hangs |-> FALSE]
NotFound(p) == [p |-> p, found |-> FALSE, length |-> 0, hangs |-> FALSE]

RECURSIVE find_data_record_forward(_, _)
find_data_record_forward(tape, p) ==
  IF p >= Len(tape) THEN NotFound(p)
  ELSE LET h == tape[p + 1]
       IN  IF h.length = 0 THEN find_data_record_forward(tape, p + 1)
           ELSE IF h.meta = 0 THEN Found(p + 1, h.length)
           ELSE find_data_record_forward(tape, p + 1 + h.length + 1)

\* A tape mark is read again and again: the position is behind it each time.
\* Behind a record, the way back leads far ahead.
find_data_record_backward(tape, p) ==
  IF p = 0 \/ p > Len(tape) THEN NotFound(IF p = 0 THEN 0 ELSE p - 1)
  ELSE LET h == tape[p]
       IN  IF h.length = 0 THEN [NotFound(p) EXCEPT !.hangs = TRUE]
           ELSE IF h.meta = 0 THEN Found(BackBy(p, h.length + 1), h.length)
           ELSE NotFound(BackBy(p, h.length + 1) - 2)

\* mutant: the record's trailer is left
StayAtTrailer(p) == p

skip_trailer_forward(p) == p + 1

SmallerOf(m, n) == IF m < n THEN m ELSE n

\* reclen cells are asked for, the buffer has BufferSize.
Read(tape, BufferSize, drive, reclen) ==
  LET r == find_data_record_forward(tape, drive.p)
      n == SmallerOf(reclen, r.length)
      behind == SmallerOf(r.p + n, Len(tape))
      whole == behind = r.p + n
      left == IF whole /\ reclen < r.length THEN r.length - n ELSE 0
  IN  IF ~r.found \/ reclen > BufferSize
      THEN [drive EXCEPT !.p = r.p, !.ok = FALSE, !.got = << >>]
      ELSE [drive EXCEPT !.p = skip_trailer_forward(behind + left), !.ok = whole,
                         !.got = IF whole THEN SubSeq(tape, r.p + 1, r.p + n) ELSE << >>]

\* The image is open for reading only: nothing is written.
Write(tape, BufferSize, drive, reclen) ==
  LET r == find_data_record_backward(tape, drive.p)
  IN  [drive EXCEPT !.ok = FALSE, !.got = << >>, !.hangs = r.hangs,
                    !.p = IF r.found /\ reclen <= BufferSize THEN skip_trailer_forward(r.p) ELSE r.p]

SpaceForward(tape, drive) ==
  LET r == find_data_record_forward(tape, drive.p)
  IN  [drive EXCEPT !.ok = r.found, !.got = << >>,
                    !.p = IF r.found THEN r.p + r.length + 1 ELSE r.p]

SpaceBackward(tape, drive) ==
  LET r == find_data_record_backward(tape, drive.p)
  IN  [drive EXCEPT !.ok = r.found, !.got = << >>, !.hangs = r.hangs,
                    !.p = IF r.found THEN BackBy(r.p, r.length + 1) ELSE r.p]

\* A command of MTC with GO; cmd.n is the record length asked for.
write_word(tape, BufferSize, drive, cmd) ==
  IF drive.hangs THEN drive
  ELSE CASE cmd.f = "read" -> Read(tape, BufferSize, drive, cmd.n)
         [] cmd.f = "write" -> Write(tape, BufferSize, drive, cmd.n)
         [] cmd.f = "forward" -> SpaceForward(tape, drive)
         [] cmd.f = "backward" -> SpaceBackward(tape, drive)
         [] cmd.f = "rewind" -> Loaded
         [] cmd.f \in {"off-line", "other"} -> [drive EXCEPT !.ok = TRUE, !.got = << >>]

=============================================================================
