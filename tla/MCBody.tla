------------------------------- MODULE MCBody -------------------------------
(***************************************************************************)
(* Images for Body: every first byte with a spread of second bytes, cut    *)
(* off at every length an instruction can be cut at; the groups that read  *)
(* further with a spread of third and fourth bytes; four-instruction       *)
(* prologues and epilogues; and the entries of functions with locals.      *)
(***************************************************************************)
EXTENDS Body

Second == {16 * h + l : h \in 0 .. 15, l \in {0, 5}}
Cut(w, sizes) == {SubSeq(w, 1, n) : n \in sizes}

Rows == UNION {Cut(<<b0, b1, 107, 32, 84, 112>>, {1, 2, 6})
               : b0 \in Byte, b1 \in Second}
CutRows == UNION {Cut(<<b0, b1, 107, 32, 84, 112>>, {3, 5})
               : b0 \in Byte, b1 \in {0, 16, 112, 160}}

Prefixed == UNION {Cut(<<b0, b1, b2, b3, 107, 165, 12, 0, 0, 1>>, {4, 6, 8, 10})
               : b0 \in {1, 106, 120, 124, 127},
                 b1 \in {0, 16, 32, 64, 128, 192, 240},
                 b2 \in {83, 96, 101, 103, 104, 106, 107, 109, 111, 114, 119,
                         120},
                 b3 \in {0, 32, 117, 160, 247}}

\* 01 00 78: ten bytes, with a long and a byte move behind it.
Displaced == UNION {Cut(<<1, 0, 120, 48, b4, b5, 0, 0, 1, 0>>, {8, 9, 10})
               : b4 \in {106, 107}, b5 \in {32, 165}}

Frames ==
  LET stm(n, r) == <<1, 16 * n, 109, 240 + r>>
      ldm(n, r) == <<1, 16 * n, 109, 112 + r>>
      push(r) == <<1, 0, 109, 240 + r>>
      pop(r) == <<1, 0, 109, 112 + r>>
      items == {stm(1, 4), stm(3, 0), push(4), push(7),
                ldm(1, 5), ldm(3, 3), pop(4), pop(7), <<12, 35>>}
  IN  {a \o b \o c \o d : a \in items, b \in items, c \in items, d \in items}

\* Function entries: code before or none, a frame of either kind, registers
\* saved or something like it, and the end of the image near or not.
Entries == {a \o b \o <<1, 16 * n, 109, b3>> \o c
              : a \in {<< >>, <<12, 35>>},
                b \in {<<27, 151>>, <<27, 144>>, <<122, 55, 0, 0, 1, 0>>,
                       <<122, 55, 0, 0, 27, 160>>, <<122, 55, 0, 0, 27, 148>>},
                n \in 0 .. 4, b3 \in {112, 151, 240, 246},
                c \in {<< >>, <<84, 112>>}}

MCImages ==
  Rows \cup CutRows \cup Prefixed \cup Displaced \cup Frames \cup Entries
=============================================================================
