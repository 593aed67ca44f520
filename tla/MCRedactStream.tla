--------------------------- MODULE MCRedactStream ---------------------------
(***************************************************************************)
(* Small instances of RedactStream for TLC.                                *)
(***************************************************************************)
EXTENDS RedactStream, SequencesExt

CONSTANT MaxLines   \* the longest file

L(names, secrets, long) ==
    [names |-> names \cap Positions, secrets |-> secrets \cap Positions, long |-> long]

MCLines == {L({}, {}, FALSE), L({2}, {1}, FALSE), L({3}, {2}, FALSE), L({}, {1, 2, 3}, FALSE)}

MCLongLines == MCLines \cup {L({}, {}, TRUE)}

MCInputs == SeqOf(MCLines, MaxLines)
MCLongInputs == SeqOf(MCLongLines, MaxLines)

\* Every file gets single line redactors and then redactors of two lines;
\* YAML redactors of some paths and those of the user come after them.
MCChains == {<<"line", "multi", "multi">>, <<"line", "multi", "yaml">>, <<"line", "multi", "line">>}
MCMultiChains == {<<"line", "multi", "multi">>}
=============================================================================
