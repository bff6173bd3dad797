----------------------------- MODULE AudioStream ----------------------------
(***************************************************************************)
(* What a transmission promises about its audio: samples are played in the *)
(* order they were produced, a frame at a time, none of them twice, only   *)
(* the last frame is filled up, and the transmission is complete when all  *)
(* is played that was produced before the end.  It may break off at any    *)
(* time: killed, or for want of an encoder or a server.                    *)
(***************************************************************************)
EXTENDS Naturals

CONSTANT Frame           \* samples in a frame, at least one

VARIABLES
  made,                  \* number of samples produced
  closed,                \* no more will come
  played,                \* number of samples played
  over                   \* "no", "complete" or "broken"

streamVars == <<made, closed, played, over>>

StreamInit ==
  /\ made = 0
  /\ closed = FALSE
  /\ played = 0
  /\ over = "no"

Produce ==
  /\ ~closed
  /\ made' > made
  /\ UNCHANGED <<closed, played, over>>

Close ==
  /\ ~closed
  /\ closed' = TRUE
  /\ UNCHANGED <<made, played, over>>

PlayFrame ==
  /\ over = "no"
  /\ played + Frame <= made
  /\ played' = played + Frame
  /\ UNCHANGED <<made, closed, over>>

\* The last frame, filled up with silence.
PlayRest ==
  /\ over = "no"
  /\ closed
  /\ played < made /\ made < played + Frame
  /\ played' = made
  /\ UNCHANGED <<made, closed, over>>

Complete ==
  /\ over = "no"
  /\ closed /\ played = made
  /\ over' = "complete"
  /\ UNCHANGED <<made, closed, played>>

Break ==
  /\ over = "no"
  /\ over' = "broken"
  /\ UNCHANGED <<made, closed, played>>

StreamNext == Produce \/ Close \/ PlayFrame \/ PlayRest \/ Complete \/ Break

StreamSpec == StreamInit /\ [][StreamNext]_streamVars

=============================================================================
