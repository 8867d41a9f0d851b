----------------------------- MODULE MCMessaging -----------------------------
(***************************************************************************)
(* Small instances of Messaging for TLC, with the scaled clock of          *)
(* MCOutboxWorker: one job whose reports arrive at one or two receivers.   *)
(***************************************************************************)
EXTENDS Messaging, TLC

CONSTANTS w1, w2, r1, r2

MCOneWorker  == {w1}
MCTwoWorkers == {w1, w2}
MCOneJob     == {1}
MCTwoJobs    == {1, 2}
MCBackoff    == <<1, 2, 2, 3>>

\* Workers and receivers are interchangeable: no definition names one.
MCSymmetry == Permutations({w1, w2}) \cup Permutations({r1, r2})

=============================================================================
