----------------------------- MODULE MCDisplay ------------------------------
(* Two CPUs and a screen of two rows of three: lines that end, return and  *)
(* run over, and the least and the greatest numbers of an int of 4 and a   *)
(* long of 5 bits, which fit a buffer of three characters exactly.  A byte *)
(* of a cursor register has 2 bits, so that the offset needs both.         *)
EXTENDS Display

Chars(s) == [n \in DOMAIN s |-> Chr(s[n])]
Long(conv, arg) == [conv |-> conv, long |-> TRUE, arg |-> arg]

MCFormats ==
  {Chars(<<"a", "\n", "b", "\r", "c">>),
   <<Num("d", 24), Long("d", -16), Num("x", -2), Long("X", -1), [conv |-> "%"],
     [conv |-> "c", chr |-> "u"]>>}

MCDump == <<Chars(<<"r">>)>>
=============================================================================
