------------------------- MODULE MC_InterruptQueue -------------------------
(* Two device threads, three requests: two vectors of one level and one of *)
(* a higher level, as the TTY (4, 060/064) and the KW11-L (6, 0100) raise. *)
EXTENDS InterruptQueue

MCInterrupts == {<<4, 48>>, <<4, 52>>, <<6, 64>>}

MCInterruptsTwo == {<<4, 48>>, <<6, 64>>}
=============================================================================
