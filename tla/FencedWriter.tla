---------------------------- MODULE FencedWriter ----------------------------
(***************************************************************************)
(* What an owner registry promises to the storage it guards: writes come   *)
(* from the holder of the newest generation, and a generation is never     *)
(* granted twice.  An operator may hand a generation over; a request the   *)
(* old holder had already admitted may then still write under it.          *)
(***************************************************************************)
EXTENDS Naturals

VARIABLES
  holder,  \* generation that may write now, 0 if none
  top,     \* highest generation granted so far
  log,     \* generation of the last write
  handed   \* generations handed over

fencedVars == <<holder, top, log, handed>>

FencedInit == holder = 0 /\ top = 0 /\ log = 0 /\ handed = {}

HandOver == handed' = handed \/ handed' = handed \cup {holder}

Grant ==
  /\ holder' \in Nat
  /\ holder' > top
  /\ top' = holder'
  /\ HandOver
  /\ UNCHANGED log

Revoke ==
  /\ holder' = 0
  /\ HandOver
  /\ UNCHANGED <<top, log>>

Write ==
  /\ \E g \in handed \cup ({holder} \ {0}) : log' = g
  /\ UNCHANGED <<holder, top, handed>>

FencedNext == Grant \/ Revoke \/ Write

FencedSpec == FencedInit /\ [][FencedNext]_fencedVars

\* Successive writes never go back to an older generation, except writes
\* under a generation that was handed over.
WritesInGenerationOrder == [][log' >= log \/ log' \in handed]_log

=============================================================================
