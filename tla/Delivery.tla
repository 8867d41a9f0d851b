------------------------------ MODULE Delivery ------------------------------
(***************************************************************************)
(* What the outbox promises for every message handed to it, without rows,  *)
(* claims, workers or clocks:                                              *)
(*   - it is transmitted any number of times while it waits, and never     *)
(*     once its outcome is known;                                          *)
(*   - it is confirmed only after a transmission that reached Meta;        *)
(*   - it is given up at the MaxAttempts-th failure and never before;      *)
(*   - an outcome is final.                                                *)
(* At-least-once, therefore: a message given up may have arrived.          *)
(***************************************************************************)
EXTENDS Naturals

CONSTANTS Messages, MaxAttempts

VARIABLES phase, failures, copies

dvars == <<phase, failures, copies>>

DInit ==
  /\ phase = [m \in Messages |-> "unknown"]
  /\ failures = [m \in Messages |-> 0]
  /\ copies = [m \in Messages |-> 0]

HandOver(m) ==
  /\ phase[m] = "unknown"
  /\ phase' = [phase EXCEPT ![m] = "waiting"]
  /\ UNCHANGED <<failures, copies>>

Transmit(m) ==
  /\ phase[m] = "waiting"
  /\ copies' = [copies EXCEPT ![m] = @ + 1]
  /\ UNCHANGED <<phase, failures>>

Confirm(m) ==
  /\ phase[m] = "waiting"
  /\ copies[m] > 0
  /\ phase' = [phase EXCEPT ![m] = "sent"]
  /\ UNCHANGED <<failures, copies>>

Fail(m) ==
  /\ phase[m] = "waiting"
  /\ failures' = [failures EXCEPT ![m] = @ + 1]
  /\ phase' = [phase EXCEPT ![m] = IF failures[m] + 1 = MaxAttempts THEN "failed" ELSE "waiting"]
  /\ UNCHANGED copies

DNext == \E m \in Messages : HandOver(m) \/ Transmit(m) \/ Confirm(m) \/ Fail(m)

DSpec == DInit /\ [][DNext]_dvars

=============================================================================
