------------------------------ MODULE MCTrace ------------------------------
(***************************************************************************)
(* Trace on small images: a ROM of three instructions chosen freely, one   *)
(* address of fill that decodes but is not mapped, a RAM with a function   *)
(* only a table or a header may know of, and six or eight halfwords of     *)
(* data.                                                                   *)
(***************************************************************************)
EXTENDS Trace, TLC

I(kind, len, target) == [kind |-> kind, len |-> len, target |-> target]

Free ==
  {I("seq", 1, Unknown), I("seq", 2, Unknown), I("jmp", 1, 0),
   I("jmp", 1, Unknown), I("jcc", 2, 4), I("call", 1, 6),
   I("call", 1, 4), I("ret", 1, Unknown)}

\* The ROM is 0, 1 and 2, with a vector table of two addresses; 3 is fill; 4
\* and 5 are RAM with another function; 6 is past the end.
Roms == {<<a, b, c>> : a \in Free, b \in Free, c \in Free}
Rams == {<<d, I("ret", 1, Unknown)>> :
           d \in {I("seq", 1, Unknown), I("jmp", 1, 4)}}
MCPadding == I("seq", 1, Unknown)

\* Pointers overlap: a word read at an odd halfword is the low half of one
\* entry and the high half of the next.
Data ==
  {<<0, 1, 0, 2, 0, 0>>, <<0, 0, 0, 0, 0, 1>>, <<1, 0, 0, 1, 1, 2>>,
   <<0, 0, 0, 1, 0, 2, 1, 1>>}

\* Recordings that begin at 0, an entry point of more than 24 bits, an
\* unfilled interrupt slot, unfilled and foreign vectors, a header whose
\* magic is wrong.
NoHeader == [magic |-> FALSE, entry |-> 4]
From(vector, handlers, recorded, prologues, header) ==
  [vector |-> vector, handlers |-> handlers, recorded |-> recorded,
   prologues |-> prologues, header |-> header]
Sources ==
  {From(<<1, 0, 9>>, << >>, {0, 2}, {}, NoHeader),
   From(<<0, 6>>, <<0, 3>>, {}, {}, [magic |-> TRUE, entry |-> 0]),
   From(<<9>>, << >>, {0, 1, 6}, {}, [magic |-> TRUE, entry |-> 12]),
   From(<<0>>, <<6>>, {}, {2}, NoHeader)}

MCImages ==
  {[rom |-> o, ram |-> a, halves |-> h] @@ s
   : o \in Roms, a \in Rams \cup {<<MCPadding>>}, h \in Data, s \in Sources}
=============================================================================
