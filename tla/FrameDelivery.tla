---------------------------- MODULE FrameDelivery ----------------------------
(***************************************************************************)
(* What the frame path promises the program that asks for frames: after    *)
(* one request there is exactly one write; the frame that is written is no *)
(* older than the newest the server knew of at the write before, and each  *)
(* write finds it knowing of a newer one; a request ends only after its    *)
(* write, unless the server is gone; and nothing is written while nothing  *)
(* is asked for.                                                           *)
(***************************************************************************)
EXTENDS Naturals

VARIABLES phase,    \* "idle", "asked", "written" or "closed"
          frame,    \* the frame written last
          base,     \* the newest frame the server knew of then
          gone      \* the server has ended

dvars == <<phase, frame, base, gone>>

DInit == phase = "idle" /\ frame = 0 /\ base = 1 /\ gone = FALSE

Ask == phase = "idle" /\ phase' = "asked" /\ UNCHANGED <<frame, base, gone>>

Write == /\ phase = "asked" /\ ~gone
         /\ phase' = "written"
         /\ frame' \in Nat /\ frame' >= base
         /\ base' \in Nat /\ base' > base
         /\ UNCHANGED gone

Finish == phase = "written" /\ phase' = "idle" /\ UNCHANGED <<frame, base, gone>>

ServerGone == ~gone /\ gone' = TRUE /\ UNCHANGED <<phase, frame, base>>

GiveUp == phase = "asked" /\ gone /\ phase' = "idle" /\ UNCHANGED <<frame, base, gone>>

Close == phase # "closed" /\ phase' = "closed" /\ UNCHANGED <<frame, base, gone>>

DNext == Ask \/ Write \/ Finish \/ ServerGone \/ GiveUp \/ Close

DSpec == DInit /\ [][DNext]_dvars
==============================================================================
