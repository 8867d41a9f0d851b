--------------------------- MODULE MCOutboxWorker ---------------------------
(***************************************************************************)
(* Small instances of OutboxWorker for TLC.  The clock is scaled: one tick *)
(* stands for the shortest back-off, and the table keeps its shape.        *)
(***************************************************************************)
EXTENDS OutboxInvariant, TLC

CONSTANTS w1, w2

MCOneWorker  == {w1}
MCTwoWorkers == {w1, w2}
MCOneJob     == {1}
MCTwoJobs    == {1, 2}
MCBackoff    == <<1, 2, 2, 3>>

\* Workers are interchangeable: no definition names one.
MCSymmetry == Permutations({w1, w2})

=============================================================================
