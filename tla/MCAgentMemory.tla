--------------------------- MODULE MCAgentMemory ---------------------------
(* The instance of AgentMemory for TLC. *)
EXTENDS AgentMemory

\* A cosine of at least 1/2.
MCMinScore == [num |-> 1, den |-> 4]

\* Two vectors at an angle of 45 degrees and one of another dimension.
MCVectors == {<<1, 0>>, <<1, 1>>, <<1>>}
=============================================================================
