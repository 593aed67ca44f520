---------------------------- MODULE RedactStream ----------------------------
(***************************************************************************)
(* Redaction of one file (pkg/redact): Redact chains the redactors, each   *)
(* of them a goroutine that reads lines from the pipe before it and writes *)
(* lines to the pipe after it; the caller copies the last pipe to its end. *)
(*                                                                         *)
(* Of a line the model keeps which redactors' selectors it matches, which  *)
(* redactors find something to mask in it, and whether it is longer than   *)
(* SCANNER_MAX_SIZE.  A write to a pipe returns when the line is read.     *)
(***************************************************************************)
EXTENDS Naturals, Sequences, FiniteSets, Functions

CONSTANTS
    Chains,     \* the chains of redactors that files get, depending on their paths:
                \* "line" (single line and literal), "multi" (a selector and the
                \* line after it) or "yaml"
    Inputs,     \* contents of files, as sequences of lines
    ReadFails   \* reading the file may fail

Positions == UNION {DOMAIN c : c \in Chains}
Line == [names : SUBSET Positions, secrets : SUBSET Positions, long : BOOLEAN]
Blank == [names |-> {}, secrets |-> {}, long |-> FALSE]

ASSUME StreamAssumption ==
    /\ Chains \subseteq Seq({"line", "multi", "yaml"}) \ {<<>>}
    /\ Inputs \subseteq Seq(Line) /\ ReadFails \in BOOLEAN

VARIABLES
    chain,    \* the redactors of the file
    file,     \* the content of the file
    src,      \* what is left to read of it
    srcErr,   \* reading it has failed
    st,       \* st[i]: the state of redactor i
    result,   \* what the caller has copied
    status,   \* how the copy ended
    passed    \* history: how many lines of redactor i have been read

vars == <<chain, file, src, srcErr, st, result, status, passed>>

Stages == DOMAIN chain
N == Len(chain)

(***************************************************************************)
(* A redactor has lines it has read and not handled, its flushLastLine (or *)
(* "first" before the first two lines), lines it is writing, and how it    *)
(* closes its pipe once they are read.                                     *)
(***************************************************************************)
State(buf, flush, out, closed) ==
    [buf |-> buf, flush |-> flush, out |-> out, closed |-> closed]

Init ==
    /\ chain \in Chains
    /\ file \in Inputs /\ src = file /\ srcErr = FALSE
    /\ st = [i \in Stages |-> State(<<>>, "first", <<>>, "no")]
    /\ result = <<>> /\ status = "copying"
    /\ passed = [i \in Stages |-> 0]

-----------------------------------------------------------------------------
(***************************************************************************)
(* What redactor i in state s does with the next line, and at the end of   *)
(* its input, which is "eof" or "error".                                   *)
(***************************************************************************)
MaskNothing(i, line) == line   \* mutant of Mask: the replacement is not used

Mask(i, line) == [line EXCEPT !.secrets = @ \ {i}]

(***************************************************************************)
(* SingleLineRedactor and literalRedactor: a scanner with a limit on the   *)
(* length of a line; its error is passed on.                               *)
(***************************************************************************)
LineGets(i, s, line) ==
    IF line.long THEN State(<<>>, s.flush, <<>>, "error")
    ELSE State(<<>>, s.flush, <<Mask(i, line)>>, "no")

\* mutant of LineEnds: the pipe is always closed without an error
LineEndsQuietly(i, s, how) == {State(<<>>, s.flush, <<>>, "eof")}

\* mutant of LineEnds: the pipe is not closed
LineEndsOpen(i, s, how) == {State(<<>>, s.flush, <<>>, "no")}

LineEnds(i, s, how) == {State(<<>>, s.flush, <<>>, how)}

(***************************************************************************)
(* MultiLineRedactor: if the first of two lines matches the selector, the  *)
(* second is masked and both are written; otherwise the first is written   *)
(* and the second becomes the first.                                       *)
(***************************************************************************)
\* mutant of MultiGets: after a match the second line is not read past
MultiGetsAgain(i, s, line) ==
    IF s.buf = <<>> THEN State(<<line>>, s.flush, <<>>, "no")
    ELSE IF i \in s.buf[1].names
         THEN State(<<line>>, "no", <<s.buf[1], Mask(i, line)>>, "no")
         ELSE State(<<line>>, "yes", s.buf, "no")

\* mutant of MultiGets: the selector is looked for in the second line
MultiGetsLate(i, s, line) ==
    IF s.buf = <<>> THEN State(<<line>>, s.flush, <<>>, "no")
    ELSE IF i \in line.names
         THEN State(<<>>, "no", <<s.buf[1], Mask(i, line)>>, "no")
         ELSE State(<<line>>, "yes", s.buf, "no")

MultiGets(i, s, line) ==
    IF s.buf = <<>> THEN State(<<line>>, s.flush, <<>>, "no")
    ELSE IF i \in s.buf[1].names
         THEN State(<<>>, "no", <<s.buf[1], Mask(i, line)>>, "no")
         ELSE State(<<line>>, "yes", s.buf, "no")

(***************************************************************************)
(* At the end the write of what is left, if any, replaces the error that   *)
(* ended the input; the pipe is closed with what remains of it.  Fewer     *)
(* than two lines are written as two.                                      *)
(***************************************************************************)
\* mutant of MultiEnds: what is left is never written
MultiEndsNoFlush(i, s, how) ==
    {CASE s.flush = "first" -> State(<<>>, "first", s.buf, "eof")
       [] s.flush = "yes" -> State(<<>>, "yes", <<>>, how)
       [] s.flush = "no" -> State(<<>>, "no", <<>>, how)}

MultiEnds(i, s, how) ==
    {CASE s.flush = "first" ->
            State(<<>>, "first", IF s.buf = <<>> THEN <<Blank, Blank>>
                                 ELSE <<s.buf[1], Blank>>, "eof")
       [] s.flush = "yes" -> State(<<>>, "yes", s.buf, "eof")
       [] s.flush = "no" -> State(<<>>, "no", <<>>, how)}

(***************************************************************************)
(* YamlRedactor: everything is read, the error of that is overwritten by   *)
(* the parser's, and a document that does not parse, or has nothing at the *)
(* path, is written as it was read.  A document with a match (flush is     *)
(* then foundMatch) is marshalled anew: keys are sorted, comments dropped. *)
(***************************************************************************)
YamlGets(i, s, line) == State(Append(s.buf, line), s.flush, <<>>, "no")

Marshalled(doc) ==
    UNION {{[k \in 1..m |-> doc[p[k]]] : p \in Injection(1..m, DOMAIN doc)} :
             m \in 0..Len(doc)}

YamlEnds(i, s, how) ==
    LET masked == [k \in DOMAIN s.buf |-> Mask(i, s.buf[k])]
    IN  {State(<<>>, s.flush, s.buf, "eof")}
          \cup {State(<<>>, "yes", doc, "eof") : doc \in Marshalled(masked)}

Gets(i, s, line) ==
    CASE chain[i] = "line" -> LineGets(i, s, line)
      [] chain[i] = "multi" -> MultiGets(i, s, line)
      [] chain[i] = "yaml" -> YamlGets(i, s, line)

EndsWith(i, s, how) ==
    CASE chain[i] = "line" -> LineEnds(i, s, how)
      [] chain[i] = "multi" -> MultiEnds(i, s, how)
      [] chain[i] = "yaml" -> YamlEnds(i, s, how)

-----------------------------------------------------------------------------
Reads(i) == st[i].closed = "no" /\ st[i].out = <<>>

IsClosed(i) == st[i].closed # "no" /\ st[i].out = <<>>

Written(i) == [st[i] EXCEPT !.out = Tail(@)]

ReadFile ==
    /\ Reads(1) /\ src # <<>>
    /\ st' = [st EXCEPT ![1] = Gets(1, @, Head(src))]
    /\ src' = Tail(src)
    /\ UNCHANGED <<chain, file, srcErr, result, status, passed>>

FileEnds ==
    /\ Reads(1) /\ src = <<>>
    /\ \E s \in EndsWith(1, st[1], "eof") : st' = [st EXCEPT ![1] = s]
    /\ UNCHANGED <<chain, file, src, srcErr, result, status, passed>>

FileFails ==
    /\ ReadFails /\ Reads(1)
    /\ srcErr' = TRUE
    /\ \E s \in EndsWith(1, st[1], "error") : st' = [st EXCEPT ![1] = s]
    /\ UNCHANGED <<chain, file, src, result, status, passed>>

\* redactor i reads what redactor i - 1 writes
ReadPipe(i) ==
    /\ i - 1 \in Stages /\ Reads(i) /\ st[i - 1].out # <<>>
    /\ st' = [st EXCEPT ![i - 1] = Written(i - 1),
                        ![i] = Gets(i, @, Head(st[i - 1].out))]
    /\ passed' = [passed EXCEPT ![i - 1] = @ + 1]
    /\ UNCHANGED <<chain, file, src, srcErr, result, status>>

PipeEnds(i) ==
    /\ i - 1 \in Stages /\ Reads(i) /\ IsClosed(i - 1)
    /\ \E s \in EndsWith(i, st[i], st[i - 1].closed) : st' = [st EXCEPT ![i] = s]
    /\ UNCHANGED <<chain, file, src, srcErr, result, status, passed>>

\* RedactResult copies the last pipe into a buffer
Copy ==
    /\ status = "copying" /\ st[N].out # <<>>
    /\ result' = Append(result, Head(st[N].out))
    /\ st' = [st EXCEPT ![N] = Written(N)]
    /\ passed' = [passed EXCEPT ![N] = @ + 1]
    /\ UNCHANGED <<chain, file, src, srcErr, status>>

CopyEnds ==
    /\ status = "copying" /\ IsClosed(N)
    /\ status' = IF st[N].closed = "eof" THEN "ok" ELSE "error"
    /\ UNCHANGED <<chain, file, src, srcErr, st, result, passed>>

Stage(i) ==
    \/ i = 1 /\ (ReadFile \/ FileEnds \/ FileFails)
    \/ ReadPipe(i) \/ PipeEnds(i)

Caller == Copy \/ CopyEnds

Next == Caller \/ \E i \in Stages : Stage(i)

Spec == Init /\ [][Next]_vars

\* the goroutines and the caller are scheduled
FairSpec ==
    Spec /\ WF_vars(Caller) /\ \A i \in Positions : WF_vars(i \in Stages /\ Stage(i))

-----------------------------------------------------------------------------
\* The types of the variables.
TypeOK ==
    /\ chain \in Chains /\ file \in Inputs /\ src \in Seq(Line) /\ srcErr \in BOOLEAN
    /\ st \in [Stages -> [buf : Seq(Line), flush : {"first", "yes", "no"},
                          out : Seq(Line), closed : {"no", "eof", "error"}]]
    /\ result \in Seq(Line) /\ status \in {"copying", "ok", "error"}
    /\ passed \in [Stages -> Nat]

(***************************************************************************)
(* What a single line or literal redactor masks is masked in every line    *)
(* the caller ever sees, wherever the redactor is in the chain and however *)
(* the streams end.                                                        *)
(***************************************************************************)
LinesAreMasked ==
    \A k \in DOMAIN result :
      \A i \in result[k].secrets \cap Stages : chain[i] # "line"

\* the file was read without an error so far, and has no line that is too long
NoError == ~srcErr /\ \A i \in Stages : st[i].closed # "error"

IsOnly(kinds) == \A i \in Stages : chain[i] \in kinds

(***************************************************************************)
(* Redactors keep every line at its place and only take secrets out of it, *)
(* as long as there is no error and no YAML document is marshalled anew:   *)
(* nothing is reordered, duplicated or lost in the middle; blank lines are *)
(* added after the last one only.                                          *)
(***************************************************************************)
PlacesAreKept ==
    NoError /\ IsOnly({"line", "multi"}) => \A k \in DOMAIN result :
      IF k \in DOMAIN file
      THEN /\ result[k].names = file[k].names
           /\ result[k].secrets \subseteq file[k].secrets
      ELSE result[k] = Blank

(***************************************************************************)
(* The line after a selector is masked, if the selector does not itself    *)
(* follow a line that matches the selector (MultiLineRedactor, any number  *)
(* of them in the chain).                                                  *)
(***************************************************************************)
AfterSelectorMasked ==
    NoError /\ IsOnly({"line", "multi"}) => \A k \in DOMAIN result, i \in Stages :
      /\ chain[i] = "multi" /\ k > 1 /\ k \in DOMAIN file
      /\ i \in file[k - 1].names
      /\ k > 2 => i \notin file[k - 2].names
      => i \notin result[k].secrets

(***************************************************************************)
(* A copy that ends well has all lines but the last few: each redactor of  *)
(* two lines may lose one line, the last, which follows a masked one.      *)
(***************************************************************************)
MultiStages == {i \in Stages : chain[i] = "multi"}

OnlyTheTailIsLost ==
    status = "ok" /\ NoError /\ IsOnly({"line", "multi"}) =>
      /\ Len(result) + Cardinality(MultiStages) >= Len(file)
      /\ Len(result) < Len(file) =>
           \E i \in MultiStages, k \in DOMAIN file : i \in file[k].names

(***************************************************************************)
(* An error, of reading the file or of a redactor, reaches the caller      *)
(* through all the redactors after it, but for those that forget it: a     *)
(* redactor of two lines that still had a line to write when its input     *)
(* ended, and a YAML redactor.  Only past one of those RedactResult may    *)
(* take a part of a file for the whole.                                    *)
(***************************************************************************)
Forgets(i) == chain[i] = "yaml" \/ (chain[i] = "multi" /\ st[i].flush # "no")

ErrorsReachTheCaller ==
    status = "ok" =>
      /\ srcErr => \E j \in Stages : Forgets(j)
      /\ \A i \in Stages : st[i].closed = "error" => \E j \in Stages : j > i /\ Forgets(j)

\* The copy of RedactResult ends, whatever fails.
StreamEnds == <>(status # "copying")

(***************************************************************************)
(* No goroutine of a redactor is left behind, when no line is too long for *)
(* the scanners.                                                           *)
(***************************************************************************)
StagesEnd ==
    (\A k \in DOMAIN file : ~file[k].long) =>
      <>(\A i \in Stages : IsClosed(i))

(***************************************************************************)
(* What the redactors of the chain select is masked in what RedactResult   *)
(* gets, by each kind of redactor (SingleLineRedactor, literalRedactor,    *)
(* MultiLineRedactor).                                                     *)
(***************************************************************************)
SecretsAreMasked == TypeOK /\ LinesAreMasked /\ AfterSelectorMasked

(***************************************************************************)
(* The lines of a file come out in their places, and all of them but the   *)
(* last few (MultiLineRedactor, which holds two lines back).               *)
(***************************************************************************)
LinesKeepTheirPlaces == PlacesAreKept /\ OnlyTheTailIsLost

\* The copy of RedactResult and the goroutines of the redactors end.
ChainEnds == StreamEnds /\ StagesEnd

-----------------------------------------------------------------------------
(***************************************************************************)
(* "If line1 matches re1, then transform line2 using re2", says a comment  *)
(* of MultiLineRedactor, which the code does not do for any two lines.     *)
(***************************************************************************)
EverySelectorMasks ==
    NoError /\ IsOnly({"line", "multi"}) => \A k \in DOMAIN result, i \in Stages :
      /\ chain[i] = "multi" /\ k > 1 /\ k \in DOMAIN file
      /\ i \in file[k - 1].names
      => i \notin result[k].secrets
=============================================================================
