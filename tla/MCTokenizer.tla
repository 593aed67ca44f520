----------------------------- MODULE MCTokenizer -----------------------------
(***************************************************************************)
(* A small instance of Tokenizer for TLC.  "x" is also found as "Bearer x" *)
(* and, quoted, as "'Bearer x'", which normalizes to "Bearer x"; the       *)
(* hashes of all secrets collide.                                          *)
(***************************************************************************)
EXTENDS Tokenizer

MCValues == {"x", "Bearer x", "'Bearer x'", "y", "z"}
MCNormal == [v \in MCValues |-> CASE v = "Bearer x" -> "x"
                                  [] v = "'Bearer x'" -> "Bearer x"
                                  [] OTHER -> v]
MCBase == [p \in MCValues \X {"c"} |-> "h"]
MCFiles == {"host", "f", "g"}
MCRound == [f \in MCFiles |-> IF f = "host" THEN 1 ELSE 2]

O(f, kind, value, covers) ==
    [value |-> value, covers |-> covers, context |-> "c", kind |-> kind, path |-> f]

\* Several secrets in a line, two groups in a match, one of them empty, a
\* literal that is not in the line, a YAML value that is no text, a pattern.
MCChoices == [f \in MCFiles |->
    CASE f = "host" -> {O(f, "line", "Bearer x", {"Bearer x"}), O("glob", "yaml", "x", {"x"})}
      [] f = "f" -> {O(f, "yaml", "'Bearer x'", {"'Bearer x'"}), O(f, "literal", "y", {}),
                     O(f, "yaml", NoValue, {})}
      [] f = "g" -> {O(f, "line", "z", {"z", "y"}), O(f, "group", "x", {"x"}),
                     O(f, "group", NoValue, {})}]
==============================================================================
