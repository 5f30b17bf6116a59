------------------------------ MODULE SoleWorker ------------------------------
(***************************************************************************)
(* What both programs promise of their cursor threads: at most one worker  *)
(* is at work at a time, the resource it works on is there all the while,  *)
(* and the resource changes hands only while none is.                      *)
(***************************************************************************)
CONSTANT Workers

VARIABLES working,  \* those at work
          held      \* is the resource there?

wvars == <<working, held>>

Idle == working = {}

WInit == /\ held \in BOOLEAN
         /\ Idle \/ (held /\ \E w \in Workers : working = {w})

Start == Idle /\ held /\ (\E w \in Workers : working' = {w}) /\ held' = held

Finish == working' = {} /\ held' = held

Acquire == Idle /\ ~held /\ held' = TRUE /\ working' = working

Release == Idle /\ held /\ held' = FALSE /\ working' = working

WNext == Start \/ Finish \/ Acquire \/ Release

WSpec == WInit /\ [][WNext]_wvars
===============================================================================
