------------------------------- MODULE Guest -------------------------------
(***************************************************************************)
(* The two ways CyOS waits, run in the window (Sdl).  One program spins    *)
(* until its tick counter, which only the tick handler advances, reaches   *)
(* Wanted; the other preloads channel 1 and spins on its overflow flag,    *)
(* with ticks arriving meanwhile.  Both share the handler: advance the     *)
(* counter, acknowledge, rearm, return.  It lies behind the program, at an *)
(* address past 5.                                                         *)
(***************************************************************************)
EXTENDS Sdl

Ins(kind, op, target) ==
  [kind |-> kind, op |-> op, len |-> 1, target |-> target]
Op(op) == Ins("seq", op, Unknown)

Isr == <<Op("inc"), Op("ack"), Op("arm"), Ins("rte", "rte", Unknown)>>
With(wait) ==
  [a \in (0 .. 5) \cup (Handler .. (Handler + 3)) |->
     IF a <= 5 THEN wait[a + 1] ELSE Isr[a - Handler + 1]]

TickWait ==
  With(<<Op("arm"), Op("ovie"), Op("unmask"),
         Op("test"), Ins("jcc", "bne", 3), Ins("unk", "unk", Unknown)>>)
Delay ==
  With(<<Op("arm"), Op("ovie"), Op("arm1"),
         Op("ovf1"), Ins("jcc", "beq", 3), Ins("unk", "unk", Unknown)>>)

\* The loop's closing branch does not end a chunk (NotTakenGoesOn).
GuestInit == WindowInit /\ code \in {TickWait, Delay} /\ where[5] = where[4]
GuestSpec ==
  GuestInit /\ [][WindowNext]_windowVars /\ WF_windowVars(Slice)

-----------------------------------------------------------------------------
(* Properties. *)

\* Both waits end, unless the window is closed: the tick counter's loop gets
\* its ticks one after another, and the overflow flag's loop sees it, however
\* slices and chunks fall and whatever keys are pressed between them.
\* "An RTE that restores only the PC leaves interrupts masked forever after
\* the first one, so the second never arrives and every timeout hangs"
\* (emit.py:484-487).
BothWaitsEnd == WaitEnds(5) \/ <>~running

\* The busy-wait is never short: when it is left, channel 1 has run the
\* (TOP - Preload) counts asked for, ticks taken meanwhile included
\* (io.c:26-29).
DelayLasts ==
  code = Delay /\ trapped = 1 => cycles - tmr_at[1] >= (TOP - Preload) * DIV
=============================================================================
