----------------------------- MODULE MCMachine -----------------------------
(***************************************************************************)
(* Machine on a family of programs.  Each arms the tick at 0, enables it   *)
(* at 1, has three free instructions at 2, 3 and 4, and a tick handler at  *)
(* 5 that rearms and returns.  Init also picks every set of entry points,  *)
(* and so every way chunk_up can cut the image.                            *)
(***************************************************************************)
EXTENDS Machine, TLC

MCAddr == 0 .. 7

I(kind, op, len, target) ==
  [kind |-> kind, op |-> op, len |-> len, target |-> target]

Seq1(op) == I("seq", op, 1, Unknown)

Flow ==
  {Seq1("cmp"), Seq1("mask"), I("seq", "nop", 2, Unknown),
   I("jmp", "bra", 1, 2), I("jmp", "bra", 1, 4), I("jmp", "bra", 1, Outside),
   I("jcc", "beq", 1, 2), I("jcc", "beq", 1, 4),
   I("call", "jsr", 1, 2), I("call", "jsr", 1, 4), I("call", "jsr", 1, 5),
   I("ret", "rts", 1, Unknown), I("rte", "rte", 1, Unknown),
   I("jmp", "jmp", 1, Unknown), I("call", "jsr", 1, Unknown),
   Seq1("unimplemented"), I("trap", "trapa", 1, Unknown)}

Last ==
  {I("jmp", "bra", 1, 2), I("jcc", "bne", 1, 3), I("ret", "rts", 1, Unknown)}

MCPrograms ==
  {(0 :> Seq1("arm")) @@ (1 :> Seq1("ovie")) @@ (2 :> i2) @@ (3 :> i3)
     @@ (4 :> i4) @@ (5 :> Seq1("arm")) @@ (6 :> I("rte", "rte", 1, Unknown))
   : i2 \in Flow, i3 \in Flow, i4 \in Last}

\* A loop whose closing branch ends a chunk: 2 is an entry point.
GapPrograms ==
  {(0 :> Seq1("cmp")) @@ (1 :> I("jcc", "beq", 1, 0)) @@ (2 :> Seq1("nop"))
     @@ (3 :> I("jmp", "bra", 1, 2))}

MCSpec == InsideSpec /\ WF_allVars(MachineNext)
=============================================================================
