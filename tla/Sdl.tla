--------------------------------- MODULE Sdl ---------------------------------
(***************************************************************************)
(* The window of sdl_main.c round a running image (Machine): between two   *)
(* slices it drains the host's events into the key matrix of keyboard.c    *)
(* and may be asked to close.                                              *)
(*                                                                         *)
(* The host is arbitrary: any key goes down, again, or up.  Several of its *)
(* keys are one key of the matrix: both shifts, both alts, both controls.  *)
(***************************************************************************)
EXTENDS Machine

CONSTANTS
  KEY_COLS,  \* columns of the matrix
  Host,      \* keys of the host
  Escape,    \* SDLK_ESCAPE
  key_of     \* [Host -> Columns \X Bits], or NoKey

NoKey == <<15, 15>>     \* 0xFF
Bits == 0 .. 7
Columns == 0 .. (KEY_COLS - 1)

ASSUME HostAssumption ==
  /\ KEY_COLS \in 1 .. 15
  /\ Escape \in Host
  /\ key_of \in [Host -> (Columns \X Bits) \cup {NoKey}]

VARIABLES
  col,      \* cy_keys_t: the bits set in each column
  running,  \* of main
  held      \* history: the host's keys down, of those the matrix has

sdlVars == <<col, running, held>>
windowVars == <<allVars, sdlVars>>

-----------------------------------------------------------------------------
(* keyboard.c *)

\* Variant: a key event toggles.
KeyToggles(k, down) ==
  IF k[1] \notin Columns \/ k[2] \notin Bits THEN col
  ELSE [col EXCEPT ![k[1]] = IF k[2] \in @ THEN @ \ {k[2]} ELSE @ \cup {k[2]}]

cy_key(k, down) ==
  IF k[1] \notin Columns \/ k[2] \notin Bits THEN col
  ELSE [col EXCEPT ![k[1]] = IF down THEN @ \cup {k[2]} ELSE @ \ {k[2]}]

\* The rows read with several columns driven are the union of theirs.
cy_key_rows(select) == UNION {col[c] : c \in Columns \cap select}
cy_key_any == cy_key_rows(Columns) # {}

-----------------------------------------------------------------------------
(* sdl_main.c *)

\* Events left in the queue are taken even after one that closes the window.
Draining == mode = "idle" /\ trapped = 0

\* SDL_KEYDOWN or SDL_KEYUP, shift being the event's own modifier.  Shift and
\* Escape close the window, and the Escape is passed on all the same.
KeyEvent == \E h \in Host, down, shift \in BOOLEAN :
  /\ Draining
  /\ running' = (running /\ ~(down /\ h = Escape /\ shift))
  /\ IF key_of[h] = NoKey THEN UNCHANGED <<col, held>>
     ELSE /\ col' = cy_key(key_of[h], down)
          /\ held' = IF down THEN held \cup {h} ELSE held \ {h}
  /\ UNCHANGED allVars

QuitEvent ==
  /\ Draining
  /\ running' = FALSE
  /\ UNCHANGED <<allVars, col, held>>

\* The slice runs even if the loop is to end after it.
Slice ==
  /\ mode = "returned" => running
  /\ MachineNext
  /\ UNCHANGED sdlVars

WindowInit ==
  /\ MachineInit
  /\ col = [c \in Columns |-> {}] /\ running = TRUE /\ held = {}
WindowNext == Slice \/ KeyEvent \/ QuitEvent

WindowSpec == WindowInit /\ [][WindowNext]_windowVars

-----------------------------------------------------------------------------
(* Properties. *)

\* The host's keys that are one key of the matrix.
Sharing(k) == {h \in Host : key_of[h] = k}

\* No key sticks and none is lost, whatever the order and repetition of
\* events: a row reads back only while one of the host's keys for it is held,
\* and always while all of them are.  (With two held, releasing either
\* clears it: sdl_main.c:197.)  Nothing held, nothing reads back.
KeysFollowTheHost ==
  /\ \A k \in Columns \X Bits :
       LET down == k[2] \in cy_key_rows({k[1]})
       IN  /\ down => Sharing(k) \cap held # {}
           /\ Sharing(k) # {} /\ Sharing(k) \subseteq held => down
  /\ held = {} => ~cy_key_any
=============================================================================
