---------------------------- MODULE MCZramSession ----------------------------
(***************************************************************************)
(* ZramSession for TLC: two zrams, and dumps with at most one corrupt list.*)
(***************************************************************************)
EXTENDS ZramSession, FiniteSets

CONSTANTS z1, z2

MCZrams == {z1, z2}
MCZramIdr == <<z1, z2>>

MCInit == Init /\ Cardinality(corrupt) <= 1
MCSpec == MCInit /\ [][Next]_vars /\ WF_vars(Step)

=============================================================================
