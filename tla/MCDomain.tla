------------------------------ MODULE MCDomain ------------------------------
(***************************************************************************)
(* Small instances of DomainOutbox for TLC: one message, two workers and a *)
(* receiver of reports, with the delays scaled down.                       *)
(***************************************************************************)
EXTENDS DomainOutbox, TLC

CONSTANTS d1, d2, rr

MCDelays == <<1, 2, 2, 3>>

\* Workers are interchangeable: no definition names one.
MCDomainSymmetry == Permutations({d1, d2})

=============================================================================
