--------------------------- MODULE FunctionChecks ---------------------------
(***************************************************************************)
(* The functions without state, applied to every input of a small size:    *)
(* those of MachineChecks, the parser of breakpoints, the tape and the     *)
(* loaders.                                                                *)
(***************************************************************************)
EXTENDS MachineChecks, Breakpoint

LOCAL T == INSTANCE Tape
LOCAL L == INSTANCE Loader

\* Expressions by their meaning: conditions, combined, and such combinations
\* combined again; and the words they are written with.
Leaf(k) == [kind |-> k]
Combined(parts) == [kind : Connectives, parts : parts]
Pairs(S) == S \X S
Leaves == {Leaf("hit"), Leaf("miss")}
Flat == Combined(Pairs(Leaves) \cup Leaves \X Leaves \X Leaves)
Small == Combined({<<Leaf("hit"), Leaf("miss")>>, <<Leaf("miss"), Leaf("miss")>>})
Nested == Combined(Pairs(Leaves \cup Flat))
Trees == Leaves \cup Flat \cup Nested
         \cup Combined({<<Leaf("hit"), t>> : t \in Combined(Pairs(Leaves \cup Small))}
                       \cup (Leaves \cup Small) \X (Leaves \cup Small) \X Small)

IsLeaf(t) == t \in Leaves

RECURSIVE Meaning(_)
Meaning(t) == CASE IsLeaf(t) -> t.kind = "hit"
                [] t.kind = "and" -> \A n \in DOMAIN t.parts : Meaning(t.parts[n])
                [] t.kind = "or" -> \E n \in DOMAIN t.parts : Meaning(t.parts[n])

\* In parentheses is what is combined within another combination.
RECURSIVE Text(_)
Text(t) ==
  IF IsLeaf(t) THEN <<Bare(t.kind)>>
  ELSE FlattenSeq([n \in DOMAIN t.parts |->
         LET part == Text(t.parts[n])
         IN  (IF n = 1 THEN <<>> ELSE <<Bare(t.kind)>>)
             \o (IF IsLeaf(t.parts[n]) THEN part ELSE Enclosed(part))])

ParseTree ==
  last = Idle /\ \E t \in Trees, enclosed \in BOOLEAN :
    LET e == IF enclosed THEN Enclosed(Text(t)) ELSE Text(t)
    IN  Answer([unit |-> "tree", t |-> t, e |-> e, b |-> parse_breakpoint(e)])

\* Any words in any order.
Words3 == {Bare("and"), Bare("or")}
          \cup {Written(o, c, k) : o \in 0..2, c \in {"hit", "miss"}, k \in 0..2}
          \cup {Bare("alien"), Bare("wrong"), Written(0, "and", 1)}
Words5 == {Bare("and"), Bare("or"), Bare("hit"), Written(1, "miss", 0), Written(0, "hit", 1)}
Expressions == UNION {[1..n -> Words3] : n \in 1..3} \cup UNION {[1..n -> Words5] : n \in 4..5}

ParseExpression ==
  last = Idle /\ \E e \in Expressions :
    Answer([unit |-> "parse", e |-> e, b |-> parse_breakpoint(e)])

\* Images of records of 1 or 2 cells, of records that are not data (meta), and
\* of tape marks; a data cell looks like a tape mark or like a header.
DataRecord(data) == <<T!Header(Len(data), 0)>> \o data \o <<T!Header(Len(data), 0)>>
Cells == {T!Header(0, 1), T!Header(1, 0)}
DataRecords == {DataRecord(d) : d \in [1..1 -> Cells] \cup [1..2 -> Cells]}
OtherRecords == {<<T!Header(1, 3), T!Header(1, 0), T!Header(1, 3)>>, <<T!Header(0, 0)>>}
Images == [1..3 -> DataRecords \cup OtherRecords]
TapeCommands == {[f |-> f, n |-> 1] : f \in {"forward", "backward", "rewind", "other", "write"}}
                \cup {[f |-> "read", n |-> n] : n \in 1..4}

BufferSize == 3
RECURSIVE Drive(_, _)
Drive(tape, cmds) ==
  IF cmds = << >> THEN T!Loaded
  ELSE T!write_word(tape, BufferSize, Drive(tape, Front(cmds)), Last(cmds))

RunTape ==
  last = Idle /\ \E image \in Images, cmds \in UNION {[1..n -> TapeCommands] : n \in 1..3} :
    Answer([unit |-> "tape", image |-> image, cmds |-> cmds,
            r |-> Drive(FlattenSeq(image), cmds)])

\* Tapes of up to three blocks: data, a start address, the end, a cut-off block
Memory == [a \in 0..4 |-> 0]
Block(count, p, data) == [count |-> count, p |-> p, data |-> data]
Blocks == {Block(7, p, <<v>>) : p \in 0..3, v \in {1, 2}}
          \cup {Block(8, p, <<v, 3>>) : p \in 0..3, v \in {1, 2}}
          \cup {Block(6, p, << >>) : p \in 0..3} \cup {Block(0, 0, << >>), Block(9, 2, <<4>>)}
HexLines == [addr : 0..2, n : 0..2, byte : {1, 2}]

LoadTape ==
  last = Idle /\ \E tape \in UNION {[1..n -> Blocks] : n \in 0..3} :
    Answer([unit |-> "load", tape |-> tape, r |-> L!load_tape(Memory, tape)])

LoadHex ==
  last = Idle /\ \E lines \in UNION {[1..n -> HexLines] : n \in 0..3} :
    Answer([unit |-> "hex", lines |-> lines, r |-> L!load_p11_x11(Memory, lines)])

LoadBinary ==
  last = Idle /\ \E base \in 0..2, file \in UNION {[1..n -> {1, 2}] : n \in 0..2} :
    Answer([unit |-> "binary", base |-> base, file |-> file, r |-> L!loadbin(Memory, base, file)])

Next == \/ CheckNext
        \/ ParseTree \/ ParseExpression
        \/ RunTape
        \/ LoadTape \/ LoadHex \/ LoadBinary

Spec == CheckInit /\ [][Next]_last

-----------------------------------------------------------------------------
\* A part in parentheses that begins with such a part: the two opening ones are
\* counted as one and each closing one by itself (breakpoint_parser.cpp:36).
BeginsTwice(e) == \E n \in DOMAIN e : e[n].open >= 2

\* e is understood as meaning, or refused for that reason.
Understood(e, b, meaning) ==
  IF BeginsTwice(e) THEN ~b.ok ELSE b.ok /\ is_triggered(b) = meaning

Total(e, f(_)) == FoldLeft(LAMBDA sum, w : sum + f(w), 0, e)
Opened(w) == w.open
Closed(w) == w.close

\* A well formed expression of any nesting stops the machine exactly when it is
\* true, and so does its listing when it is entered again; one that mixes the
\* connectives, or that leaves a parenthesis open, is refused (parse_breakpoint,
\* is_triggered and emit).  Refused is also, though it is well formed and even
\* what 'lbp' lists (breakpoint_and.cpp:36), a part in parentheses that begins
\* with another one, as in ((R0=1 or R1=2) and R2=3).
BreakpointMeansItsText ==
  /\ last.unit = "tree" =>
       /\ Understood(last.e, last.b, Meaning(last.t))
       /\ last.b.ok => LET listed == emit(last.b)
                       IN  Understood(listed, parse_breakpoint(listed), Meaning(last.t))
  /\ last.unit = "parse" =>
       /\ Total(last.e, Opened) = 0 /\ Connectives \subseteq {w.text : w \in Range(last.e)} => ~last.b.ok
       /\ Total(last.e, Opened) > Total(last.e, Closed) => ~last.b.ok

-----------------------------------------------------------------------------
\* The data records of an image, and the number of them that the commands
\* have passed since the last rewind: a read or a space forward passes one.
IsData(r) == Len(r) > 2 /\ r[1].meta = 0
RecordsOf(image) == SelectSeq(image, IsData)
Passed(cmds) ==
  LET from == Max({0} \cup {n \in DOMAIN cmds : cmds[n].f = "rewind"})
  IN  Cardinality({n \in DOMAIN cmds : n > from /\ cmds[n].f \in {"read", "forward"}})

\* A read that succeeds gives the first words of the next data record,
\* whatever was read in part or skipped before, and fails behind the last one.
\* It is not so after a read of more than the buffer holds, which leaves the
\* tape in the middle of the record (tm-11.cpp:205), and spacing backward does
\* not move the tape back: behind a record it fails every later read.
TapeInOrder ==
  last.unit = "tape" =>
    LET cmds == last.cmds
        c == Last(cmds)
        records == RecordsOf(last.image)
        n == Passed(cmds)
        lost == \E k \in DOMAIN cmds : cmds[k].f = "read" /\ cmds[k].n > BufferSize
        back == \E k \in DOMAIN cmds : cmds[k].f \in {"backward", "write"}
    IN  c.f = "read" /\ ~lost =>
          /\ last.r.ok =>
               /\ n <= Len(records)
               /\ last.r.got = SubSeq(records[n], 2, 1 + Min({c.n, Len(records[n]) - 2}))
          /\ ~back => last.r.ok = (n <= Len(records))

-----------------------------------------------------------------------------
\* After load_tape a byte of the memory is the one of the last block that covers
\* it before the tape ends, or what it was, and the start is the last that the
\* tape gave.  The sum of a block plays no part (loaders.cpp:203).  load_p11_x11
\* stores the bytes of each block, and loadbin one byte more than its file has.
LastOf(blocks, wanted(_)) == Max({0} \cup {i \in DOMAIN blocks : wanted(blocks[i])})
Read(tape) == SubSeq(tape, 1, Min({Len(tape)} \cup {i - 1 : i \in {i \in DOMAIN tape :
                                     tape[i].count = 0 \/ tape[i].p = 1}}))
Covers(block, a) == a \in block.p .. block.p + Len(block.data) - 1
MemoryAfter(blocks) ==
  [a \in DOMAIN Memory |->
     LET i == Max({0} \cup {i \in DOMAIN blocks : Covers(blocks[i], a)})
     IN  IF i = 0 THEN Memory[a] ELSE blocks[i].data[a - blocks[i].p + 1]]

HexCorrect(l) ==
  \E headers \in SUBSET DOMAIN l.lines :
    /\ \A i \in DOMAIN l.lines :
         i \in headers <=> i = 1 \/ \E j \in headers : i = j + l.lines[j].n + 1
    /\ l.r = MemoryAfter([i \in DOMAIN l.lines |->
                LET j == Max({h \in headers : h <= i})
                IN  IF i = j THEN [p |-> 0, data |-> << >>]
                    ELSE [p |-> l.lines[j].addr + i - j - 1, data |-> <<l.lines[i].byte>>]])

LoadersStoreTheFile ==
  /\ last.unit = "load" =>
       LET blocks == Read(last.tape)
           i == LastOf(blocks, LAMBDA block : block.count = 6)
       IN  /\ last.r.memory = MemoryAfter(blocks)
           /\ last.r.start = IF i = 0 THEN L!NoStart ELSE blocks[i].p
  /\ last.unit = "binary" =>
       last.r = MemoryAfter(<<[p |-> last.base, data |-> Append(last.file, L!Eof)]>>)
  /\ last.unit = "hex" => HexCorrect(last)

-----------------------------------------------------------------------------
\* A tape that a program reads, and a file that the debugger loads, arrive as
\* they are written, in order, with nothing skipped or stored elsewhere
\* (tm_11::write_word; load_tape, load_p11_x11 and loadbin).
MediaAreReadInOrder == TapeInOrder /\ LoadersStoreTheFile

=============================================================================
