------------------------------ MODULE MCInbound ------------------------------
(***************************************************************************)
(* Small instances of Inbound for TLC: one phone that writes two messages,  *)
(* one with media, in separate calls or in the same call of Meta.          *)
(***************************************************************************)
EXTENDS Inbound, TLC

CONSTANTS q1, m1, m2, h1, h2, h3

MCFrom     == (m1 :> q1) @@ (m2 :> q1)
MCSeparate == {{m1}, {m2}}
MCTogether == {{m1, m2}}

\* Tasks are interchangeable: no definition names one.
MCTasks == Permutations({h1, h2, h3})

=============================================================================
