------------------------------ MODULE MCGuest ------------------------------
(***************************************************************************)
(* Guest with both programs, chunks of two instructions, and a host with   *)
(* two shifts that share a key, Escape, and a key the matrix has not.      *)
(***************************************************************************)
EXTENDS Guest, TLC

MCAddr == 0 .. 11
GuestPrograms == {TickWait, Delay}

MCKeyOf == ("lshift" :> <<0, 7>>) @@ ("rshift" :> <<0, 7>>)
             @@ ("escape" :> <<0, 1>>) @@ ("f12" :> NoKey)
MCHost == DOMAIN MCKeyOf
=============================================================================
