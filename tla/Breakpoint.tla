----------------------------- MODULE Breakpoint -----------------------------
(***************************************************************************)
(* Breakpoints: the parser of the debugger's expressions and the meaning   *)
(* of what it builds (breakpoint_*.cpp).  An expression is a sequence of   *)
(* words, as the spaces part it: a condition or a connective, with the     *)
(* parentheses that it begins and ends with.  Conditions are of four kinds:*)
(*   "hit", "miss"  understood, and true or false of the machine now       *)
(*   "alien"        key=value, but no parser knows the key                 *)
(*   "wrong"        not key=value, or a register that does not exist       *)
(***************************************************************************)
EXTENDS Integers, Sequences, SequencesExt

Written(open, text, close) == [open |-> open, text |-> text, close |-> close]
Bare(text) == Written(0, text, 0)

Connectives == {"and", "or"}
\* With a parenthesis at it, "and" is a word like any other.
IsLink(w) == w.text \in Connectives /\ w.open = 0 /\ w.close = 0
Condition(w) == IF w.text \in Connectives THEN "wrong" ELSE w.text

Refused == [ok |-> FALSE]
Single(t) == [ok |-> TRUE, kind |-> t]
Node(c, parts) == [ok |-> TRUE, kind |-> c, parts |-> parts]

(***************************************************************************)
(* The end of the part in parentheses that begins at word n: the first     *)
(* word up to which as many are closed as words begin with one.  A word    *)
(* counts as one opening, however many it begins with, but every closing   *)
(* parenthesis counts.  0: there is no end.                                *)
(***************************************************************************)
Depth(e, n, j) == FoldLeft(LAMBDA d, w : d + (IF w.open > 0 THEN 1 ELSE 0) - w.close,
                           0, SubSeq(e, n, j))
EndOfGroup(e, n) ==
  LET ends == {j \in n .. Len(e) : Depth(e, n, j) = 0}
  IN  IF ends = {} THEN 0 ELSE Min(ends)

\* Without the first and the last character.  A last word that no parenthesis
\* ends loses one of its condition, here its only digit.
Peel(e) ==
  [n \in DOMAIN e |->
     LET w == e[n]
     IN  Written(IF n = 1 THEN w.open - 1 ELSE w.open,
              IF n = Len(e) /\ w.close = 0 THEN "wrong" ELSE w.text,
              IF n = Len(e) /\ w.close > 0 THEN w.close - 1 ELSE w.close)]

(***************************************************************************)
(* One word at a time, or one part in parentheses: combine is what         *)
(* connects the conditions so far, parsed what was understood of them, and *)
(* next the word to look at.  A condition that none of the three parsers   *)
(* (registers, memory, instructions) knows is left out, and what closes    *)
(* behind the digits of one plays no part.                                 *)
(***************************************************************************)
Begin == [combine |-> "not_set", parsed |-> <<>>, refused |-> FALSE, next |-> 1]
Refuse(s) == [s EXCEPT !.refused = TRUE]

TakeLinkAny(s, c) == [s EXCEPT !.combine = c]   \* the last connective counts

TakeLink(s, c) ==
  IF s.combine \in {"and", "or"} /\ s.combine # c THEN Refuse(s)
  ELSE [s EXCEPT !.combine = c]

TakeTerm(s, condition) ==
  IF s.combine = "single" THEN Refuse(s)
  ELSE LET t == [s EXCEPT !.combine = IF @ = "not_set" THEN "single" ELSE @]
       IN  CASE condition = "wrong" -> Refuse(t)
             [] condition = "alien" -> t
             [] OTHER -> [t EXCEPT !.parsed = Append(@, Single(condition))]

\* The end: one condition alone, or two or more combined.
Finish(s) ==
  IF s.refused THEN Refused
  ELSE IF s.combine \in {"and", "or"} THEN Node(s.combine, s.parsed)
  ELSE IF Len(s.parsed) = 1 THEN s.parsed[1]
  ELSE Refused

RECURSIVE parse_breakpoint(_)
parse_breakpoint(e) ==
  LET TakeGroup(s, n) ==
        LET end == EndOfGroup(e, n)
            inner == IF end = 0 THEN Refused ELSE parse_breakpoint(Peel(SubSeq(e, n, end)))
        IN  IF inner.ok THEN [s EXCEPT !.parsed = Append(@, inner), !.next = end + 1]
                        ELSE Refuse(s)
      Take(s, n) == IF s.refused \/ n < s.next THEN s
                    ELSE IF e[n].open > 0 THEN TakeGroup(s, n)
                    ELSE IF IsLink(e[n]) THEN TakeLink(s, e[n].text)
                    ELSE TakeTerm(s, Condition(e[n]))
  IN  Finish(FoldLeft(Take, Begin, [n \in DOMAIN e |-> n]))

\* Whether the breakpoint stops the machine.
RECURSIVE is_triggered(_)
is_triggered(b) ==
  CASE b.kind = "and" -> \A n \in DOMAIN b.parts : is_triggered(b.parts[n])
    [] b.kind = "or" -> \E n \in DOMAIN b.parts : is_triggered(b.parts[n])
    [] OTHER -> b.kind = "hit"

\* What 'lbp' lists: the expression with its parentheses; of nothing, a ")".
Enclosed(e) ==
  IF e = <<>> THEN <<Written(0, "wrong", 1)>>
  ELSE [n \in DOMAIN e |-> Written(IF n = 1 THEN e[n].open + 1 ELSE e[n].open, e[n].text,
                                IF n = Len(e) THEN e[n].close + 1 ELSE e[n].close)]

RECURSIVE emit(_)
emit(b) ==
  IF b.kind \in Connectives
  THEN Enclosed(FlattenSeq([n \in DOMAIN b.parts |->
                  (IF n = 1 THEN <<>> ELSE <<Bare(b.kind)>>) \o emit(b.parts[n])]))
  ELSE <<Bare(b.kind)>>

=============================================================================
