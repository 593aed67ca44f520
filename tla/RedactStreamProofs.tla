------------------------- MODULE RedactStreamProofs -------------------------
(***************************************************************************)
(* Theorems about RedactStream, for every chain of redactors, every file   *)
(* and every interleaving of the goroutines.                               *)
(*                                                                         *)
(* A redactor is described by what it holds, s, by how many of its lines   *)
(* have been read, p, and by how many it has read itself, n.  What it does *)
(* with a line then says nothing of the other redactors.                   *)
(***************************************************************************)
EXTENDS RedactStream, FiniteSetTheorems, TLAPS

StageState == [buf : Seq(Line), flush : {"first", "yes", "no"},
               out : Seq(Line), closed : {"no", "eof", "error"}]

\* how many lines redactor i has read
In(i) == IF i = 1 THEN Len(file) - Len(src) ELSE passed[i - 1]

\* the line redactors among the first j have taken their secrets out of the line
Masked(line, j) == \A i \in Stages : i <= j /\ chain[i] = "line" => i \notin line.secrets

\* the line after a selector that does not itself follow one
Selected(i, q) ==
    /\ chain[i] = "multi" /\ q > 1 /\ q \in DOMAIN file
    /\ i \in file[q - 1].names
    /\ q > 2 => i \notin file[q - 2].names

\* the line is the one at place q of the file, after the first j redactors
InPlace(line, q, j) ==
    /\ IF q \in DOMAIN file
       THEN line.names = file[q].names /\ line.secrets \subseteq file[q].secrets
       ELSE line = Blank
    /\ \A i \in Stages : i <= j /\ Selected(i, q) => i \notin line.secrets

\* lines are counted and masked, whatever happens
Good(i, s, p, n) ==
    /\ s \in StageState /\ p \in Nat /\ n \in Nat
    /\ \A k \in DOMAIN s.out : Masked(s.out[k], i)
    /\ \A k \in DOMAIN s.buf : Masked(s.buf[k], i - 1)
    /\ chain[i] = "line" => s.buf = <<>>
    /\ chain[i] = "multi" => Len(s.buf) <= 1
    /\ chain[i] \in {"line", "multi"} /\ s.closed = "no" => p + Len(s.out) + Len(s.buf) = n

(***************************************************************************)
(* MultiLineRedactor's flushLastLine f, when it has written q lines and    *)
(* holds h: it is in step with the selectors of the file.                  *)
(***************************************************************************)
Flushed(i, f, h, q) ==
    /\ f = "first" => q = 0
    /\ f = "yes" => q >= 1 /\ h = 1 /\ (q \in DOMAIN file => i \notin file[q].names)
    /\ f = "no" => q >= 2 /\ q - 1 \in DOMAIN file /\ i \in file[q - 1].names

\* the lines are in place
Placed(i, s, p) ==
    /\ \A k \in DOMAIN s.out : InPlace(s.out[k], p + k, i)
    /\ \A k \in DOMAIN s.buf : InPlace(s.buf[k], p + Len(s.out) + k, i - 1)
    /\ chain[i] = "multi" /\ s.closed = "no" => 
         Flushed(i, s.flush, Len(s.buf), p + Len(s.out))

MultiUpTo(i) == {j \in MultiStages : j <= i}

\* q lines are all there are, but for the last of a redactor of two lines
Enough(i, q) ==
    \/ q >= Len(file)
    \/ /\ q >= 2 /\ q + Cardinality(MultiUpTo(i)) >= Len(file)
       /\ \E m \in MultiStages, k \in DOMAIN file : m \in file[k].names

Plain == IsOnly({"line", "multi"})

SourceInv ==
    /\ Len(src) <= Len(file)
    /\ \A k \in DOMAIN src : src[k] = file[Len(file) - Len(src) + k]

ResultInv ==
    /\ Len(result) = passed[N]
    /\ \A k \in DOMAIN result : Masked(result[k], N)
    /\ NoError /\ Plain => \A k \in DOMAIN result : InPlace(result[k], k, N)
    /\ status = "ok" => st[N].closed = "eof" /\ st[N].out = <<>>

\* what holds of redactor i, by itself
StageOf(i, s, p, n) ==
    /\ Good(i, s, p, n)
    /\ NoError /\ Plain => /\ Placed(i, s, p)
                           /\ s.closed = "eof" => Enough(i, p + Len(s.out))

StageInv(i) == StageOf(i, st[i], passed[i], In(i))

\* a redactor that has ended well whatever ended its input
HasForgotten(j) == Forgets(j) /\ st[j].closed = "eof"

\* a redactor behind one that has not ended well ends well if one forgets
CloseInv ==
    /\ srcErr => st[1].closed # "no"
    /\ srcErr /\ st[1].closed = "eof" => Forgets(1)
    /\ \A i, k \in Stages : i < k /\ st[k].closed = "eof" /\ st[i].closed # "eof" =>
         \E j \in Stages : i < j /\ j <= k /\ HasForgotten(j)

StreamInv == TypeOK /\ SourceInv /\ ResultInv /\ CloseInv /\ \A i \in Stages : StageInv(i)

-----------------------------------------------------------------------------
\* the short sequences that redactors make
LEMMA OneLine ==
    ASSUME NEW x \in Line
    PROVE  \E q \in Seq(Line) : q = <<x>> /\ Len(q) = 1 /\ DOMAIN q = {1} /\ q[1] = x
<1>1. <<x>> \in Seq(Line) /\ Len(<<x>>) = 1 /\ DOMAIN <<x>> = {1} /\ <<x>>[1] = x
  OBVIOUS
<1> QED BY <1>1

LEMMA TwoLines ==
    ASSUME NEW x \in Line, NEW y \in Line
    PROVE  \E q \in Seq(Line) : /\ q = <<x, y>> /\ Len(q) = 2 /\ DOMAIN q = {1, 2}
                                /\ q[1] = x /\ q[2] = y
<1>1. /\ <<x, y>> \in Seq(Line) /\ Len(<<x, y>>) = 2 /\ DOMAIN <<x, y>> = {1, 2}
      /\ <<x, y>>[1] = x /\ <<x, y>>[2] = y
  OBVIOUS
<1> QED BY <1>1

LEMMA NoLine == \E q \in Seq(Line) : q = <<>> /\ Len(q) = 0 /\ DOMAIN q = {}
<1>1. <<>> \in Seq(Line) /\ Len(<<>>) = 0 /\ DOMAIN <<>> = {}
  OBVIOUS
<1> QED BY <1>1

LEMMA SeqFacts ==
    ASSUME NEW q \in Seq(Line)
    PROVE  /\ DOMAIN q = 1..Len(q) /\ Len(q) \in Nat /\ (q = <<>> <=> Len(q) = 0)
           /\ \A k \in DOMAIN q : q[k] \in Line
  OBVIOUS

LEMMA HeadAndTail ==
    ASSUME NEW S, NEW q \in Seq(S), q # <<>>
    PROVE  /\ Head(q) \in S /\ Head(q) = q[1] /\ 1 \in DOMAIN q
           /\ Tail(q) \in Seq(S) /\ Len(Tail(q)) = Len(q) - 1 /\ Len(q) >= 1
           /\ \A k \in DOMAIN Tail(q) : k \in Nat /\ k + 1 \in DOMAIN q /\ Tail(q)[k] = q[k + 1]
  OBVIOUS

LEMMA ChainFacts ==
    ASSUME chain \in Chains
    PROVE  /\ Stages = 1..N /\ N \in Nat /\ N >= 1 /\ 1 \in Stages /\ N \in Stages
           /\ \A i \in Stages : i \in Nat /\ i >= 1 /\ chain[i] \in {"line", "multi", "yaml"}
           /\ \A i \in Stages : i # 1 => i - 1 \in Stages
<1>1. chain \in Seq({"line", "multi", "yaml"}) /\ chain # <<>>
  BY StreamAssumption
<1> QED BY <1>1 DEF Stages, N

\* the parts of a redactor's state
LEMMA StateFields ==
    ASSUME NEW b \in Seq(Line), NEW f \in {"first", "yes", "no"}, NEW o \in Seq(Line),
           NEW c \in {"no", "eof", "error"}
    PROVE  /\ State(b, f, o, c) \in StageState
           /\ State(b, f, o, c).buf = b /\ State(b, f, o, c).flush = f
           /\ State(b, f, o, c).out = o /\ State(b, f, o, c).closed = c
  BY DEF State, StageState

\* what masking does to a line
LEMMA MaskFacts ==
    ASSUME NEW i, NEW line \in Line
    PROVE  /\ Mask(i, line) \in Line /\ Mask(i, line).names = line.names
           /\ Mask(i, line).secrets = line.secrets \ {i}
  BY DEF Mask, Line

LEMMA BlankFacts ==
    Blank \in Line /\ Blank.names = {} /\ Blank.secrets = {} /\ \A j : Masked(Blank, j)
<1>1. Blank \in Line /\ Blank.names = {} /\ Blank.secrets = {}
  BY DEF Blank, Line
<1> QED BY <1>1 DEF Masked

LEMMA MaskedByOneMore ==
    ASSUME chain \in Chains, NEW i \in Stages, NEW line \in Line, Masked(line, i - 1)
    PROVE  /\ Masked(Mask(i, line), i)
           /\ chain[i] # "line" => Masked(line, i)
<1>1. \A j \in Stages : j <= i => j <= i - 1 \/ j = i
  BY ChainFacts
<1> QED BY <1>1, MaskFacts DEF Masked

-----------------------------------------------------------------------------
\* A line is read, an input ends, a line is written: counts and masks.
LEMMA MakesGood ==
    ASSUME NEW i, NEW b \in Seq(Line), NEW f \in {"first", "yes", "no"}, NEW o \in Seq(Line),
           NEW c \in {"no", "eof", "error"}, NEW p \in Nat, NEW n \in Nat,
           \A k \in DOMAIN o : Masked(o[k], i), \A k \in DOMAIN b : Masked(b[k], i - 1),
           chain[i] = "line" => b = <<>>, chain[i] = "multi" => Len(b) <= 1,
           chain[i] \in {"line", "multi"} /\ c = "no" => p + Len(o) + Len(b) = n
    PROVE  Good(i, State(b, f, o, c), p, n)
<1>1. PICK t : t = State(b, f, o, c)
  OBVIOUS
<1>2. t \in StageState /\ t.buf = b /\ t.flush = f /\ t.out = o /\ t.closed = c
  BY <1>1, StateFields
<1>3. Good(i, t, p, n)
  BY <1>2 DEF Good
<1> QED BY <1>1, <1>3

LEMMA GetsGood ==
    ASSUME chain \in Chains, NEW i \in Stages, NEW s, NEW p, NEW n, Good(i, s, p, n),
           s.closed = "no", s.out = <<>>, NEW line \in Line, Masked(line, i - 1)
    PROVE  Good(i, Gets(i, s, line), p, n + 1)
<1>0. PICK none \in Seq(Line) : none = <<>> /\ Len(none) = 0 /\ DOMAIN none = {}
  BY NoLine
<1>1. p \in Nat /\ n \in Nat
  BY DEF Good
<1>f. PICK f \in {"first", "yes", "no"} : f = s.flush
  BY DEF Good, StageState
<1>k. PICK m \in Nat : m = n + 1
  BY <1>1
<1>e. /\ \A k \in DOMAIN none : Masked(none[k], i)
      /\ \A k \in DOMAIN none : Masked(none[k], i - 1)
      /\ Len(none) <= 1 /\ none = <<>> /\ Len(none) = 0
  BY <1>0
<1> SUFFICES Good(i, Gets(i, s, line), p, m)
  BY <1>k
<1>b. PICK b \in Seq(Line) : s.buf = b /\ DOMAIN b = 1..Len(b) /\ Len(b) \in Nat
  BY SeqFacts DEF Good, StageState
<1>m. \A k \in DOMAIN b : b[k] \in Line /\ Masked(b[k], i - 1)
  BY <1>b, SeqFacts DEF Good
<1>2. chain[i] \in {"line", "multi", "yaml"}
  BY ChainFacts
<1>n. chain[i] \in {"line", "multi"} => p + Len(b) = n
  BY <1>0, <1>1, <1>b DEF Good
<1>3. CASE chain[i] = "line"
  <2>1. b = <<>> /\ Len(b) = 0 /\ p = n
    BY <1>1, <1>3, <1>b, <1>n, SeqFacts DEF Good
  <2>2. CASE line.long
    <3>1. Gets(i, s, line) = State(none, f, none, "error")
      BY <1>0, <1>3, <1>f, <2>2 DEF Gets, LineGets
    <3>2. Good(i, State(none, f, none, "error"), p, m)
      BY <1>1, <1>3, <1>e, MakesGood
    <3> QED BY <3>1, <3>2
  <2>3. CASE ~line.long
    <3>1. PICK o \in Seq(Line) : /\ o = <<Mask(i, line)>> /\ Len(o) = 1
                                 /\ DOMAIN o = {1} /\ o[1] = Mask(i, line)
      BY MaskFacts, OneLine
    <3>2. \A k \in DOMAIN o : Masked(o[k], i)
      BY <3>1, MaskedByOneMore
    <3>3. Gets(i, s, line) = State(none, f, o, "no")
      BY <1>0, <1>3, <1>f, <2>3, <3>1 DEF Gets, LineGets
    <3>4. p + Len(o) + Len(none) = m
      BY <1>1, <1>e, <1>k, <2>1, <3>1
    <3>5. Good(i, State(none, f, o, "no"), p, m)
      BY <1>1, <1>3, <1>e, <3>2, <3>4, MakesGood
    <3> QED BY <3>3, <3>5
  <2> QED BY <2>2, <2>3
<1>4. CASE chain[i] = "multi"
  <2>1. PICK one \in Seq(Line) : one = <<line>> /\ Len(one) = 1 /\ DOMAIN one = {1} /\ one[1] = line
    BY OneLine
  <2>2. Len(one) <= 1 /\ \A k \in DOMAIN one : Masked(one[k], i - 1)
    BY <2>1
  <2>3. CASE b = <<>>
    <3>1. Gets(i, s, line) = State(one, f, none, "no")
      BY <1>0, <1>4, <1>b, <1>f, <2>1, <2>3 DEF Gets, MultiGets
    <3>2. p + Len(none) + Len(one) = m
      BY <1>0, <1>1, <1>4, <1>k, <1>n, <2>1, <2>3
    <3>3. Good(i, State(one, f, none, "no"), p, m)
      BY <1>1, <1>4, <1>e, <2>2, <3>2, MakesGood
    <3> QED BY <3>1, <3>3
  <2>4. CASE b # <<>>
    <3>1. Len(b) <= 1
      BY <1>4, <1>b DEF Good
    <3>2. Len(b) = 1 /\ DOMAIN b = {1} /\ 1 \in DOMAIN b
      BY <1>b, <2>4, <3>1, SeqFacts
    <3>3. \A k \in DOMAIN b : Masked(b[k], i)
      BY <1>4, <1>m, MaskedByOneMore
    <3>4. PICK two \in Seq(Line) : /\ two = <<b[1], Mask(i, line)>> /\ Len(two) = 2
                                   /\ DOMAIN two = {1, 2} /\ two[1] = b[1] /\ two[2] = Mask(i, line)
      <4>1. PICK x \in Line, y \in Line : x = b[1] /\ y = Mask(i, line)
        BY <1>m, <3>2, MaskFacts
      <4>2. \E q \in Seq(Line) : q = <<x, y>> /\ Len(q) = 2 /\ DOMAIN q = {1, 2}
                                 /\ q[1] = x /\ q[2] = y
        BY TwoLines
      <4> QED BY <4>1, <4>2
    <3>5. \A k \in DOMAIN two : Masked(two[k], i)
      BY <3>2, <3>3, <3>4, MaskedByOneMore
    <3>6. CASE i \in b[1].names
      <4>1. Gets(i, s, line) = State(none, "no", two, "no")
        BY <1>0, <1>4, <1>b, <2>4, <3>4, <3>6 DEF Gets, MultiGets
      <4>2. p + Len(two) + Len(none) = m
        BY <1>0, <1>1, <1>4, <1>k, <1>n, <3>2, <3>4
      <4>3. Good(i, State(none, "no", two, "no"), p, m)
        BY <1>1, <1>4, <1>e, <3>5, <4>2, MakesGood
      <4> QED BY <4>1, <4>3
    <3>7. CASE i \notin b[1].names
      <4>1. Gets(i, s, line) = State(one, "yes", b, "no")
        BY <1>4, <1>b, <2>1, <2>4, <3>7 DEF Gets, MultiGets
      <4>2. p + Len(b) + Len(one) = m
        BY <1>1, <1>4, <1>k, <1>n, <2>1, <3>2
      <4>3. Good(i, State(one, "yes", b, "no"), p, m)
        BY <1>1, <1>4, <2>2, <3>3, <4>2, MakesGood
      <4> QED BY <4>1, <4>3
    <3> QED BY <3>6, <3>7
  <2> QED BY <2>3, <2>4
<1>5. CASE chain[i] = "yaml"
  <2>1. PICK c \in Seq(Line) : c = Append(b, line) /\ \A k \in DOMAIN c : Masked(c[k], i - 1)
    <3>1. PICK c : c = Append(b, line)
      OBVIOUS
    <3>2. /\ c \in Seq(Line) /\ DOMAIN c = 1..(Len(b) + 1) /\ c[Len(b) + 1] = line
          /\ \A k \in 1..Len(b) : c[k] = b[k]
      BY <3>1
    <3>3. \A k \in 1..(Len(b) + 1) : k \in 1..Len(b) \/ k = Len(b) + 1
      BY <1>b
    <3> QED BY SMTT(30), <1>b, <1>m, <3>1, <3>2, <3>3
  <2>2. Gets(i, s, line) = State(c, f, none, "no")
    BY <1>0, <1>5, <1>b, <1>f, <2>1 DEF Gets, YamlGets
  <2>3. Good(i, State(c, f, none, "no"), p, m)
    BY <1>1, <1>5, <1>e, <2>1, MakesGood
  <2> QED BY <2>2, <2>3
<1> QED BY <1>2, <1>3, <1>4, <1>5

LEMMA EndsGood ==
    ASSUME chain \in Chains, NEW i \in Stages, NEW s, NEW p, NEW n, Good(i, s, p, n),
           s.closed = "no", s.out = <<>>, NEW how \in {"eof", "error"},
           NEW t \in EndsWith(i, s, how)
    PROVE  Good(i, t, p, n) /\ t.closed # "no"
<1>0. PICK none \in Seq(Line) : none = <<>> /\ Len(none) = 0 /\ DOMAIN none = {}
  BY NoLine
<1>1. s \in StageState /\ s.flush \in {"first", "yes", "no"} /\ p \in Nat /\ n \in Nat
  BY DEF Good, StageState
<1>b. PICK b \in Seq(Line) : s.buf = b /\ DOMAIN b = 1..Len(b) /\ Len(b) \in Nat
  BY SeqFacts DEF Good, StageState
<1>m. \A k \in DOMAIN b : b[k] \in Line /\ Masked(b[k], i - 1)
  BY <1>b, SeqFacts DEF Good
<1>2. chain[i] \in {"line", "multi", "yaml"}
  BY ChainFacts
<1>3. ASSUME NEW f \in {"first", "yes", "no"}, NEW o \in Seq(Line), NEW c \in {"eof", "error"},
             \A k \in DOMAIN o : Masked(o[k], i), t = State(none, f, o, c)
      PROVE  Good(i, t, p, n) /\ t.closed # "no"
  <2>1. Good(i, t, p, n)
    <3>1. /\ \A k \in DOMAIN none : Masked(none[k], i - 1)
          /\ Len(none) <= 1 /\ none = <<>> /\ c # "no"
      BY <1>0
    <3>2. Good(i, State(none, f, o, c), p, n)
      BY <1>1, <1>3, <3>1, MakesGood
    <3> QED BY <1>3, <3>2
  <2>2. t.closed = c
    BY <1>3 DEF State
  <2> QED BY <2>1, <2>2
<1>4. CASE chain[i] = "line"
  <2>1. t = State(none, s.flush, none, how)
    BY <1>0, <1>4 DEF EndsWith, LineEnds
  <2> QED BY <1>0, <1>1, <1>3, <2>1
<1>5. CASE chain[i] = "multi"
  <2>1. /\ s.flush = "first" /\ b = <<>> => t = State(none, "first", <<Blank, Blank>>, "eof")
        /\ s.flush = "first" /\ b # <<>> => t = State(none, "first", <<b[1], Blank>>, "eof")
        /\ s.flush = "yes" => t = State(none, "yes", b, "eof")
        /\ s.flush = "no" => t = State(none, "no", none, how)
    <3>1. t \in MultiEnds(i, s, how)
      BY <1>5 DEF EndsWith
    <3>2. /\ s.flush = "first" /\ s.buf = <<>> =>
               t = State(<<>>, "first", <<Blank, Blank>>, "eof")
          /\ s.flush = "first" /\ s.buf # <<>> =>
               t = State(<<>>, "first", <<s.buf[1], Blank>>, "eof")
          /\ s.flush = "yes" => t = State(<<>>, "yes", s.buf, "eof")
          /\ s.flush = "no" => t = State(<<>>, "no", <<>>, how)
      BY <3>1 DEF MultiEnds
    <3> QED BY <1>0, <1>b, <3>2
  <2>2. \A k \in DOMAIN b : Masked(b[k], i)
    BY <1>m, <1>5, MaskedByOneMore
  <2>3. ASSUME NEW x \in Line, Masked(x, i), t = State(none, "first", <<x, Blank>>, "eof")
        PROVE  Good(i, t, p, n) /\ t.closed # "no"
    <3>1. PICK o \in Seq(Line) : /\ o = <<x, Blank>> /\ Len(o) = 2 /\ DOMAIN o = {1, 2}
                                 /\ o[1] = x /\ o[2] = Blank
      BY TwoLines, BlankFacts
    <3>2. \A k \in DOMAIN o : Masked(o[k], i)
      BY <2>3, <3>1, BlankFacts
    <3> QED BY <1>3, <2>3, <3>1, <3>2
  <2>4. CASE s.flush = "first" /\ b = <<>>
    BY <2>1, <2>3, <2>4, BlankFacts
  <2>5. CASE s.flush = "first" /\ b # <<>>
    <3>1. 1 \in DOMAIN b
      BY <1>b, <2>5, SeqFacts
    <3> QED BY <1>m, <2>1, <2>2, <2>3, <2>5, <3>1
  <2>6. CASE s.flush = "yes"
    BY <1>3, <2>1, <2>2, <2>6
  <2>7. CASE s.flush = "no"
    BY <1>0, <1>3, <2>1, <2>7
  <2> QED BY <1>1, <2>4, <2>5, <2>6, <2>7
<1>6. CASE chain[i] = "yaml"
  <2> DEFINE masked == [k \in DOMAIN b |-> Mask(i, b[k])]
  <2>1. CASE t = State(none, s.flush, b, "eof")
    <3>1. \A k \in DOMAIN b : Masked(b[k], i)
      BY <1>m, <1>6, MaskedByOneMore
    <3> QED BY <1>1, <1>3, <2>1, <3>1
  <2>2. ASSUME NEW doc \in Marshalled(masked), t = State(none, "yes", doc, "eof")
        PROVE  Good(i, t, p, n) /\ t.closed # "no"
    <3>1. /\ DOMAIN masked = DOMAIN b
          /\ \A k \in DOMAIN b : masked[k] \in Line /\ Masked(masked[k], i)
      BY <1>m, MaskFacts, MaskedByOneMore
    <3>0. Len(masked) \in Nat
      BY <1>b
    <3> HIDE DEF masked
    <3>2. PICK m \in 0..Len(masked) : \E f \in Injection(1..m, DOMAIN masked) :
            doc = [k \in 1..m |-> masked[f[k]]]
      BY <2>2 DEF Marshalled
    <3>3. PICK f \in [1..m -> DOMAIN masked] : doc = [k \in 1..m |-> masked[f[k]]]
      BY <3>2 DEF Injection
    <3>4. m \in Nat /\ \A k \in 1..m : doc[k] \in Line /\ Masked(doc[k], i)
      <4>1. m \in Nat
        BY <3>0, <3>2
      <4>2. \A k \in 1..m : f[k] \in DOMAIN b /\ doc[k] = masked[f[k]]
        BY <3>1, <3>3
      <4> QED BY <3>1, <4>1, <4>2
    <3>5. doc \in Seq(Line) /\ DOMAIN doc = 1..m
      BY <3>3, <3>4
    <3> QED BY <1>3, <2>2, <3>4, <3>5
  <2>3. \/ t = State(none, s.flush, b, "eof")
        \/ \E doc \in Marshalled(masked) : t = State(none, "yes", doc, "eof")
    BY <1>0, <1>6, <1>b DEF EndsWith, YamlEnds
  <2> HIDE DEF masked
  <2> QED BY <2>1, <2>2, <2>3
<1> QED BY <1>2, <1>4, <1>5, <1>6

LEMMA WrittenGood ==
    ASSUME chain \in Chains, NEW i \in Stages, NEW s, NEW p, NEW n, Good(i, s, p, n),
           s.out # <<>>
    PROVE  /\ Good(i, [s EXCEPT !.out = Tail(@)], p + 1, n)
           /\ Head(s.out) \in Line /\ Masked(Head(s.out), i)
<1>1. s \in StageState /\ s.out \in Seq(Line) /\ s.buf \in Seq(Line) /\ p \in Nat /\ n \in Nat
  BY DEF Good, StageState
<1>2. PICK t : t = [s EXCEPT !.out = Tail(@)]
  OBVIOUS
<1>3. Tail(s.out) \in Seq(Line) /\ Len(Tail(s.out)) = Len(s.out) - 1 /\ Len(s.out) \in Nat
  BY <1>1, HeadAndTail
<1>4. /\ t \in StageState /\ t.out = Tail(s.out) /\ t.buf = s.buf /\ t.closed = s.closed
      /\ t.flush = s.flush
  BY <1>1, <1>2, <1>3 DEF StageState
<1>5. \A k \in DOMAIN t.out : Masked(t.out[k], i)
  BY <1>1, <1>4, HeadAndTail DEF Good
<1>6. Good(i, t, p + 1, n)
  <2>1. Len(s.buf) \in Nat /\ p + 1 \in Nat /\ p + 1 + Len(t.out) = p + Len(s.out)
    <3>1. Len(s.buf) \in Nat /\ Len(t.out) = Len(s.out) - 1
      BY <1>1, <1>3, <1>4
    <3>2. PICK a \in Nat : a = Len(s.out)
      BY <1>3
    <3>3. p \in Nat /\ Len(t.out) = a - 1
      BY <1>1, <3>1, <3>2
    <3>4. p + 1 + (a - 1) = p + a
      BY <3>3
    <3>5. p + 1 \in Nat
      BY <3>3
    <3>6. p + 1 + Len(t.out) = p + Len(s.out)
      BY <3>2, <3>3, <3>4
    <3> QED BY <3>1, <3>5, <3>6
  <2> QED BY <1>1, <1>4, <1>5, <2>1 DEF Good
<1> QED BY <1>1, <1>2, <1>6, HeadAndTail DEF Good

-----------------------------------------------------------------------------
\* The same three, for the places of the lines.
LEMMA InPlaceByOneMore ==
    ASSUME chain \in Chains, NEW i \in Stages, NEW line \in Line, NEW q,
           InPlace(line, q, i - 1)
    PROVE  /\ InPlace(Mask(i, line), q, i)
           /\ ~Selected(i, q) => InPlace(line, q, i)
<1>1. \A j \in Stages : j <= i => j <= i - 1 \/ j = i
  BY ChainFacts
<1>2. InPlace(Mask(i, line), q, i)
  <2>1. PICK m \in Line : /\ m = Mask(i, line) /\ m.names = line.names
                          /\ m.secrets = line.secrets \ {i}
    BY MaskFacts
  <2>2. line = Blank => m = Blank
    <3>1. Mask(i, Blank) = Blank
      BY DEF Mask, Blank
    <3> QED BY <2>1, <3>1
  <2>3. InPlace(m, q, i)
    BY <1>1, <2>1, <2>2 DEF InPlace
  <2> QED BY <2>1, <2>3
<1>3. ~Selected(i, q) => InPlace(line, q, i)
  BY <1>1 DEF InPlace
<1> QED BY <1>2, <1>3

LEMMA NotSelected ==
    ASSUME file \in Inputs, NEW i, NEW f \in {"first", "yes", "no"}, NEW h, NEW q \in Nat,
           Flushed(i, f, h, q)
    PROVE  ~Selected(i, q + 1)
<1>1. PICK l \in Nat : DOMAIN file = 1..l
  BY StreamAssumption
<1> QED BY <1>1 DEF Flushed, Selected

LEMMA BlankInPlace ==
    ASSUME NEW q, q \notin DOMAIN file, NEW j
    PROVE  InPlace(Blank, q, j)
  BY DEF InPlace, Selected

LEMMA MakesPlaced ==
    ASSUME NEW i, NEW b \in Seq(Line), NEW f \in {"first", "yes", "no"}, NEW o \in Seq(Line),
           NEW c \in {"no", "eof", "error"}, NEW p \in Nat,
           \A k \in DOMAIN o : InPlace(o[k], p + k, i),
           \A k \in DOMAIN b : InPlace(b[k], p + Len(o) + k, i - 1),
           chain[i] = "multi" /\ c = "no" => Flushed(i, f, Len(b), p + Len(o))
    PROVE  Placed(i, State(b, f, o, c), p)
<1>1. PICK t : t = State(b, f, o, c)
  OBVIOUS
<1>2. t \in StageState /\ t.buf = b /\ t.flush = f /\ t.out = o /\ t.closed = c
  BY <1>1, StateFields
<1>3. Placed(i, t, p)
  BY <1>2 DEF Placed
<1> QED BY <1>1, <1>3

LEMMA GetsPlaced ==
    ASSUME chain \in Chains, file \in Inputs, NEW i \in Stages, NEW s, NEW p, NEW n,
           Good(i, s, p, n), Placed(i, s, p), chain[i] \in {"line", "multi"},
           s.closed = "no", s.out = <<>>, NEW line \in Line, InPlace(line, n + 1, i - 1)
    PROVE  Gets(i, s, line).closed = "error" \/ Placed(i, Gets(i, s, line), p)
<1>0. PICK none \in Seq(Line) : none = <<>> /\ Len(none) = 0 /\ DOMAIN none = {}
  BY NoLine
<1>1. p \in Nat /\ n \in Nat
  BY DEF Good
<1>f. PICK f \in {"first", "yes", "no"} : f = s.flush
  BY DEF Good, StageState
<1>b. PICK b \in Seq(Line) : s.buf = b /\ DOMAIN b = 1..Len(b) /\ Len(b) \in Nat
  BY SeqFacts DEF Good, StageState
<1>m. \A k \in DOMAIN b : b[k] \in Line
  BY <1>b, SeqFacts
<1>n. p + Len(b) = n
  BY <1>0, <1>1, <1>b DEF Good
<1>e. /\ Len(none) = 0 /\ \A k \in DOMAIN none : InPlace(none[k], p + k, i)
      /\ \A o \in Seq(Line) : \A k \in DOMAIN none : InPlace(none[k], p + Len(o) + k, i - 1)
  BY <1>0
<1>3. CASE chain[i] = "line"
  <2>1. Len(b) = 0 /\ p = n
    BY <1>1, <1>3, <1>b, <1>n, SeqFacts DEF Good
  <2>2. CASE line.long
    <3>1. Gets(i, s, line) = State(none, f, none, "error")
      BY <1>0, <1>3, <1>f, <2>2 DEF Gets, LineGets
    <3> QED BY <3>1 DEF State
  <2>3. CASE ~line.long
    <3>1. PICK o \in Seq(Line) : /\ o = <<Mask(i, line)>> /\ Len(o) = 1
                                 /\ DOMAIN o = {1} /\ o[1] = Mask(i, line)
      BY MaskFacts, OneLine
    <3>2. InPlace(Mask(i, line), p + 1, i)
      BY <2>1, InPlaceByOneMore
    <3>3. \A k \in DOMAIN o : InPlace(o[k], p + k, i)
      BY <3>1, <3>2
    <3>4. Gets(i, s, line) = State(none, f, o, "no")
      BY <1>0, <1>3, <1>f, <2>3, <3>1 DEF Gets, LineGets
    <3>5. Placed(i, State(none, f, o, "no"), p)
      BY <1>1, <1>3, <1>e, <3>3, MakesPlaced
    <3> QED BY <3>4, <3>5
  <2> QED BY <2>2, <2>3
<1>4. CASE chain[i] = "multi"
  <2>1. PICK one \in Seq(Line) : one = <<line>> /\ Len(one) = 1 /\ DOMAIN one = {1} /\ one[1] = line
    BY OneLine
  <2>f. Flushed(i, f, Len(b), p)
    <3>1. p + Len(s.out) = p
      BY <1>0, <1>1
    <3> QED BY <1>4, <1>b, <1>f, <3>1 DEF Placed
  <2>s. ~Selected(i, p + 1)
    BY <1>1, <2>f, NotSelected
  <2>3. CASE b = <<>>
    <3>0. Len(b) = 0 /\ n = p /\ p + Len(none) = p
      BY <1>1, <1>e, <1>n, <2>3, SeqFacts
    <3>1. Gets(i, s, line) = State(one, f, none, "no")
      BY <1>0, <1>4, <1>b, <1>f, <2>1, <2>3 DEF Gets, MultiGets
    <3>2. \A k \in DOMAIN one : InPlace(one[k], p + Len(none) + k, i - 1)
      BY <2>1, <3>0
    <3>3. Flushed(i, f, Len(one), p + Len(none))
      BY <2>1, <2>f, <3>0 DEF Flushed
    <3>4. Placed(i, State(one, f, none, "no"), p)
      BY <1>1, <1>e, <3>2, <3>3, MakesPlaced
    <3> QED BY <3>1, <3>4
  <2>4. CASE b # <<>>
    <3>1. Len(b) <= 1
      BY <1>4, <1>b DEF Good
    <3>2. Len(b) = 1 /\ DOMAIN b = {1} /\ 1 \in DOMAIN b /\ n = p + 1
      BY <1>1, <1>b, <1>n, <2>4, <3>1, SeqFacts
    <3>x. PICK x \in Line : x = b[1]
      BY <1>m, <3>2
    <3>3. InPlace(x, p + 1, i - 1)
      <4>1. InPlace(b[1], p + Len(s.out) + 1, i - 1)
        BY <1>b, <3>2 DEF Placed
      <4>2. p + Len(s.out) + 1 = p + 1
        BY <1>0, <1>1
      <4> QED BY <3>x, <4>1, <4>2
    <3>4. InPlace(x, p + 1, i)
      BY <2>s, <3>3, InPlaceByOneMore
    <3>5. CASE i \in x.names
      <4>y. PICK y \in Line : y = Mask(i, line)
        BY MaskFacts
      <4>1. PICK two \in Seq(Line) : /\ two = <<x, y>> /\ Len(two) = 2
                                     /\ DOMAIN two = {1, 2} /\ two[1] = x /\ two[2] = y
        BY TwoLines
      <4>2. Gets(i, s, line) = State(none, "no", two, "no")
        BY <1>0, <1>4, <1>b, <2>4, <3>5, <3>x, <4>1, <4>y DEF Gets, MultiGets
      <4>3. InPlace(y, p + 2, i)
        <5>1. n + 1 = p + 2
          BY <1>1, <3>2
        <5> QED BY <4>y, <5>1, InPlaceByOneMore
      <4>4. \A k \in DOMAIN two : InPlace(two[k], p + k, i)
        BY <3>4, <4>1, <4>3
      <4>5. Flushed(i, "no", Len(none), p + Len(two))
        <5>1. p + 1 \in DOMAIN file /\ i \in file[p + 1].names
          BY <3>5, <3>4, BlankFacts DEF InPlace
        <5>2. PICK q \in Nat : q = p + Len(two) /\ q >= 2 /\ q - 1 = p + 1
          BY <1>1, <4>1
        <5>3. Flushed(i, "no", Len(none), q)
          BY <5>1, <5>2 DEF Flushed
        <5> QED BY <5>2, <5>3
      <4>6. Placed(i, State(none, "no", two, "no"), p)
        BY <1>1, <1>e, <4>4, <4>5, MakesPlaced
      <4> QED BY <4>2, <4>6
    <3>6. CASE i \notin x.names
      <4>1. Gets(i, s, line) = State(one, "yes", b, "no")
        BY <1>4, <1>b, <2>1, <2>4, <3>6, <3>x DEF Gets, MultiGets
      <4>2. \A k \in DOMAIN b : InPlace(b[k], p + k, i)
        BY <3>2, <3>4, <3>x
      <4>3. \A k \in DOMAIN one : InPlace(one[k], p + Len(b) + k, i - 1)
        BY <2>1, <3>2
      <4>4. Flushed(i, "yes", Len(one), p + Len(b))
        <5>1. p + 1 \in DOMAIN file => i \notin file[p + 1].names
          BY <3>4, <3>6 DEF InPlace
        <5>2. p + Len(b) = p + 1 /\ p + 1 >= 1
          BY <1>1, <3>2
        <5> QED BY <2>1, <5>1, <5>2 DEF Flushed
      <4>5. Placed(i, State(one, "yes", b, "no"), p)
        BY <1>1, <4>2, <4>3, <4>4, MakesPlaced
      <4> QED BY <4>1, <4>5
    <3> QED BY <3>5, <3>6
  <2> QED BY <2>3, <2>4
<1> QED BY <1>3, <1>4

LEMMA WrittenPlaced ==
    ASSUME NEW i, NEW s, NEW p, NEW n, Good(i, s, p, n), Placed(i, s, p), s.out # <<>>
    PROVE  /\ Placed(i, [s EXCEPT !.out = Tail(@)], p + 1)
           /\ InPlace(Head(s.out), p + 1, i)
<1>1. s \in StageState /\ s.out \in Seq(Line) /\ s.buf \in Seq(Line) /\ p \in Nat
  BY DEF Good, StageState
<1>2. PICK t : t = [s EXCEPT !.out = Tail(@)]
  OBVIOUS
<1>3. /\ t.out = Tail(s.out) /\ t.buf = s.buf /\ t.closed = s.closed /\ t.flush = s.flush
  BY <1>1, <1>2 DEF StageState
<1>4. PICK a \in Nat : a = Len(s.out) /\ Len(t.out) = a - 1
  BY <1>1, <1>3, HeadAndTail
<1>5. p + 1 + (a - 1) = p + a
  BY <1>1
<1>6. \A k \in DOMAIN t.out : InPlace(t.out[k], p + 1 + k, i)
  <2> SUFFICES ASSUME NEW k \in DOMAIN t.out PROVE InPlace(t.out[k], p + 1 + k, i)
    OBVIOUS
  <2>1. k \in Nat /\ k + 1 \in DOMAIN s.out /\ t.out[k] = s.out[k + 1]
    BY <1>1, <1>3, HeadAndTail
  <2>2. p + (k + 1) = p + 1 + k
    BY <1>1, <2>1
  <2>3. InPlace(s.out[k + 1], p + (k + 1), i)
    BY <2>1 DEF Placed
  <2> QED BY <2>1, <2>2, <2>3
<1>7. p + 1 + Len(t.out) = p + Len(s.out)
  BY <1>4, <1>5
<1>8. Placed(i, t, p + 1)
  BY <1>3, <1>6, <1>7 DEF Placed
<1>9. InPlace(Head(s.out), p + 1, i)
  BY <1>1, HeadAndTail DEF Placed
<1> QED BY <1>2, <1>8, <1>9

LEMMA MultiCount ==
    ASSUME chain \in Chains, NEW i \in Stages
    PROVE  /\ Cardinality(MultiUpTo(i)) \in Nat /\ Cardinality(MultiUpTo(i - 1)) \in Nat
           /\ Cardinality(MultiUpTo(i)) =
                Cardinality(MultiUpTo(i - 1)) + (IF chain[i] = "multi" THEN 1 ELSE 0)
<1>1. /\ Stages = 1..N /\ N \in Nat /\ \A j \in Stages : j \in Nat
      /\ i \in Nat
  BY ChainFacts
<1>2. IsFiniteSet(1..N)
  BY <1>1, FS_Interval
<1>3. \A j : IsFiniteSet(MultiUpTo(j)) /\ Cardinality(MultiUpTo(j)) \in Nat
  <2> TAKE j
  <2>1. MultiUpTo(j) \subseteq 1..N
    BY <1>1 DEF MultiUpTo, MultiStages
  <2> QED BY <1>2, <2>1, FS_Subset, FS_CardinalityType
<1>4. CASE chain[i] = "multi"
  <2>1. MultiUpTo(i) = MultiUpTo(i - 1) \union {i} /\ i \notin MultiUpTo(i - 1)
    BY <1>1, <1>4 DEF MultiUpTo, MultiStages
  <2> QED BY <1>3, <1>4, <2>1, FS_AddElement
<1>5. CASE chain[i] # "multi"
  <2>1. MultiUpTo(i) = MultiUpTo(i - 1)
    BY <1>1, <1>5 DEF MultiUpTo, MultiStages
  <2> QED BY <1>3, <1>5, <2>1
<1> QED BY <1>3, <1>4, <1>5

LEMMA EnoughForOneMore ==
    ASSUME chain \in Chains, file \in Inputs, NEW i \in Stages, NEW q \in Nat, Enough(i - 1, q)
    PROVE  Enough(i, q)
<1>1. PICK c \in Nat, d \in Nat : /\ c = Cardinality(MultiUpTo(i - 1))
                                  /\ d = Cardinality(MultiUpTo(i)) /\ c <= d
  BY MultiCount
<1>2. PICK l \in Nat : l = Len(file)
  BY StreamAssumption
<1>3. q + c >= l => q + d >= l
  BY <1>1, <1>2
<1> QED BY <1>1, <1>2, <1>3 DEF Enough

LEMMA EndsPlaced ==
    ASSUME chain \in Chains, file \in Inputs, NEW i \in Stages, NEW s, NEW p, NEW n,
           Good(i, s, p, n), Placed(i, s, p), chain[i] \in {"line", "multi"},
           s.closed = "no", s.out = <<>>, Enough(i - 1, n), NEW t \in EndsWith(i, s, "eof")
    PROVE  Placed(i, t, p) /\ Enough(i, p + Len(t.out))
<1>0. PICK none \in Seq(Line) : none = <<>> /\ Len(none) = 0 /\ DOMAIN none = {}
  BY NoLine
<1>1. p \in Nat /\ n \in Nat
  BY DEF Good
<1>2. PICK l \in Nat : l = Len(file) /\ DOMAIN file = 1..l
  BY StreamAssumption
<1>f. PICK f \in {"first", "yes", "no"} : f = s.flush
  BY DEF Good, StageState
<1>b. PICK b \in Seq(Line) : s.buf = b /\ DOMAIN b = 1..Len(b) /\ Len(b) \in Nat
  BY SeqFacts DEF Good, StageState
<1>m. \A k \in DOMAIN b : b[k] \in Line /\ InPlace(b[k], p + k, i - 1)
  <2> SUFFICES ASSUME NEW k \in DOMAIN b PROVE b[k] \in Line /\ InPlace(b[k], p + k, i - 1)
    OBVIOUS
  <2>1. InPlace(b[k], p + Len(s.out) + k, i - 1)
    BY <1>b DEF Placed
  <2>2. p + Len(s.out) + k = p + k
    BY <1>0, <1>1, <1>b
  <2> QED BY <1>b, <2>1, <2>2, SeqFacts
<1>n. p + Len(b) = n
  BY <1>0, <1>1, <1>b DEF Good
<1>3. ASSUME NEW g \in {"first", "yes", "no"}, NEW o \in Seq(Line), t = State(none, g, o, "eof"),
             \A k \in DOMAIN o : InPlace(o[k], p + k, i), NEW q \in Nat, q = p + Len(o),
             Enough(i, q)
      PROVE  Placed(i, t, p) /\ Enough(i, p + Len(t.out))
  <2>1. \A k \in DOMAIN none : InPlace(none[k], p + Len(o) + k, i - 1)
    BY <1>0
  <2>2. Placed(i, State(none, g, o, "eof"), p)
    BY <1>1, <1>3, <2>1, MakesPlaced
  <2>3. t.out = o
    BY <1>3 DEF State
  <2> QED BY <1>3, <2>2, <2>3
<1>4. CASE chain[i] = "line"
  <2>1. t = State(none, f, none, "eof")
    BY <1>0, <1>4, <1>f DEF EndsWith, LineEnds
  <2>2. Len(b) = 0
    BY <1>4, <1>b, SeqFacts DEF Good
  <2>3. n = p + Len(none)
    BY <1>0, <1>1, <1>n, <2>2
  <2>4. \A k \in DOMAIN none : InPlace(none[k], p + k, i)
    BY <1>0
  <2> QED BY <1>1, <1>3, <2>1, <2>3, <2>4, EnoughForOneMore
<1>5. CASE chain[i] = "multi"
  <2>f. Flushed(i, f, Len(b), p)
    <3>1. p + Len(s.out) = p
      BY <1>0, <1>1
    <3> QED BY <1>5, <1>b, <1>f, <3>1 DEF Placed
  <2>s. ~Selected(i, p + 1)
    BY <1>1, <2>f, NotSelected
  <2>1. Len(b) <= 1
    BY <1>5, <1>b DEF Good
  <2>2. /\ f = "first" /\ b = <<>> => t = State(none, "first", <<Blank, Blank>>, "eof")
        /\ f = "first" /\ b # <<>> => t = State(none, "first", <<b[1], Blank>>, "eof")
        /\ f = "yes" => t = State(none, "yes", b, "eof")
        /\ f = "no" => t = State(none, "no", none, "eof")
    <3>1. t \in MultiEnds(i, s, "eof")
      BY <1>5 DEF EndsWith
    <3>2. /\ s.flush = "first" /\ s.buf = <<>> =>
               t = State(<<>>, "first", <<Blank, Blank>>, "eof")
          /\ s.flush = "first" /\ s.buf # <<>> =>
               t = State(<<>>, "first", <<s.buf[1], Blank>>, "eof")
          /\ s.flush = "yes" => t = State(<<>>, "yes", s.buf, "eof")
          /\ s.flush = "no" => t = State(<<>>, "no", <<>>, "eof")
      BY <3>1 DEF MultiEnds
    <3> QED BY <1>0, <1>b, <1>f, <3>2
  <2>3. CASE f = "first"
    <3>1. p = 0 /\ n = Len(b)
      BY <1>1, <1>n, <2>3, <2>f DEF Flushed
    <3>2. n <= 1 /\ l <= n
      BY <1>2, <2>1, <3>1 DEF Enough
    <3>3. ASSUME NEW x \in Line, InPlace(x, 1, i), t = State(none, "first", <<x, Blank>>, "eof")
          PROVE  Placed(i, t, p) /\ Enough(i, p + Len(t.out))
      <4>1. PICK o \in Seq(Line) : /\ o = <<x, Blank>> /\ Len(o) = 2 /\ DOMAIN o = {1, 2}
                                   /\ o[1] = x /\ o[2] = Blank
        BY TwoLines, BlankFacts
      <4>2. InPlace(Blank, 2, i)
        <5>1. 2 \notin DOMAIN file
          BY <1>1, <1>2, <3>2
        <5> QED BY <5>1, BlankInPlace
      <4>3. \A k \in DOMAIN o : InPlace(o[k], p + k, i)
        BY <3>1, <3>3, <4>1, <4>2
      <4>4. Enough(i, 2) /\ 2 = p + Len(o)
        BY <1>1, <1>2, <3>1, <3>2, <4>1 DEF Enough
      <4> QED BY <1>3, <3>3, <4>1, <4>3, <4>4
    <3>4. CASE b = <<>>
      <4>1. n = 0
        BY <1>0, <3>1, <3>4
      <4>2. InPlace(Blank, 1, i)
        <5>1. 1 \notin DOMAIN file
          BY <1>2, <3>2, <4>1
        <5> QED BY <5>1, BlankInPlace
      <4> QED BY <2>2, <2>3, <3>3, <3>4, <4>2, BlankFacts
    <3>5. CASE b # <<>>
      <4>1. 1 \in DOMAIN b
        BY <1>b, <3>5, SeqFacts
      <4>2. PICK x \in Line : x = b[1] /\ InPlace(x, p + 1, i - 1)
        BY <1>m, <4>1
      <4>3. InPlace(x, p + 1, i) /\ p + 1 = 1
        BY <2>s, <3>1, <4>2, InPlaceByOneMore
      <4> QED BY <2>2, <2>3, <3>3, <3>5, <4>2, <4>3
    <3> QED BY <3>4, <3>5
  <2>4. CASE f = "yes"
    <3>0. Len(b) = 1
      BY <2>4, <2>f DEF Flushed
    <3>1. Len(b) = 1 /\ DOMAIN b = {1} /\ n = p + Len(b)
      BY <1>b, <1>n, <3>0
    <3>2. PICK x \in Line : x = b[1] /\ InPlace(x, p + 1, i - 1)
      BY <1>m, <3>1
    <3>3. InPlace(x, p + 1, i)
      BY <2>s, <3>2, InPlaceByOneMore
    <3>4. \A k \in DOMAIN b : InPlace(b[k], p + k, i)
      BY <3>1, <3>2, <3>3
    <3> QED BY <1>1, <1>3, <2>2, <2>4, <3>1, <3>4, EnoughForOneMore
  <2>5. CASE f = "no"
    <3>1. p >= 2 /\ p - 1 \in DOMAIN file /\ i \in file[p - 1].names
      BY <2>5, <2>f DEF Flushed
    <3>2. i \in MultiStages
      BY <1>5 DEF MultiStages
    <3>3. PICK c \in Nat, d \in Nat : /\ c = Cardinality(MultiUpTo(i - 1))
                                      /\ d = Cardinality(MultiUpTo(i)) /\ d = c + 1
      BY <1>5, MultiCount
    <3>4. n <= p + 1
      BY <1>1, <1>b, <1>n, <2>1
    <3>5. n >= l \/ n + c >= l
      BY <1>2, <3>3 DEF Enough
    <3>6. p + d >= l
      BY <1>1, <1>2, <3>3, <3>4, <3>5
    <3>7. Enough(i, p)
      BY <1>2, <3>1, <3>2, <3>3, <3>6 DEF Enough
    <3>8. p = p + Len(none) /\ \A k \in DOMAIN none : InPlace(none[k], p + k, i)
      BY <1>0, <1>1
    <3> QED BY <1>1, <1>3, <2>2, <2>5, <3>7, <3>8
  <2> QED BY <2>3, <2>4, <2>5
<1> QED BY <1>4, <1>5

-----------------------------------------------------------------------------
(***************************************************************************)
(* Steps.  What holds of a redactor's values before a step holds of them   *)
(* after it: the chain and the file do not change.                         *)
(***************************************************************************)
LEMMA Frame ==
    ASSUME UNCHANGED <<chain, file>>, NEW i, NEW s, NEW p, NEW n, NEW line, NEW q
    PROVE  /\ Good(i, s, p, n) => Good(i, s, p, n)'
           /\ Placed(i, s, p) => Placed(i, s, p)'
           /\ Enough(i, q) => Enough(i, q)'
           /\ Masked(line, i) => Masked(line, i)'
           /\ InPlace(line, q, i) => InPlace(line, q, i)'
           /\ Plain' = Plain /\ Stages' = Stages /\ N' = N
<1>1. Stages' = Stages /\ N' = N
  BY DEF Stages, N
<1>2. Plain' = Plain
  BY <1>1 DEF Plain, IsOnly
<1>3. Good(i, s, p, n) => Good(i, s, p, n)'
  BY <1>1 DEF Good, Masked
<1>4. Placed(i, s, p) => Placed(i, s, p)'
  BY <1>1 DEF Placed, InPlace, Selected, Flushed
<1>5. Enough(i, q) => Enough(i, q)'
  <2>1. MultiStages' = MultiStages
    BY <1>1 DEF MultiStages
  <2>2. MultiUpTo(i)' = MultiUpTo(i)
    BY <2>1 DEF MultiUpTo
  <2> QED BY <2>1, <2>2 DEF Enough
<1>6. Masked(line, i) => Masked(line, i)'
  BY <1>1 DEF Masked
<1>7. InPlace(line, q, i) => InPlace(line, q, i)'
  BY <1>1 DEF InPlace, Selected
<1> QED BY <1>1, <1>2, <1>3, <1>4, <1>5, <1>6, <1>7

LEMMA StageAfter ==
    ASSUME NEW i, NEW s, NEW p, NEW n, s = st'[i], p = passed'[i], n = In(i)',
           Good(i, s, p, n)',
           NoError' /\ Plain' =>
             Placed(i, s, p)' /\ (s.closed = "eof" => Enough(i, p + Len(s.out))')
    PROVE  StageInv(i)'
<1>1. StageOf(i, s, p, n)'
  BY DEF StageOf
<1> QED BY <1>1 DEF StageInv, StageOf, Good, Placed, Enough, Masked, InPlace, Selected, Flushed

LEMMA StageNow ==
    ASSUME StreamInv, NEW i \in Stages
    PROVE  /\ chain \in Chains /\ file \in Inputs /\ DOMAIN st = Stages /\ DOMAIN passed = Stages
           /\ Good(i, st[i], passed[i], In(i))
           /\ st[i] \in StageState /\ passed[i] \in Nat /\ In(i) \in Nat
           /\ NoError /\ Plain =>
                /\ Placed(i, st[i], passed[i])
                /\ st[i].closed = "eof" => Enough(i, passed[i] + Len(st[i].out))
<1>1. Good(i, st[i], passed[i], In(i))
  BY DEF StreamInv, StageInv, StageOf
<1>2. NoError /\ Plain =>
        /\ Placed(i, st[i], passed[i])
        /\ st[i].closed = "eof" => Enough(i, passed[i] + Len(st[i].out))
  BY DEF StreamInv, StageInv, StageOf
<1>3. st[i] \in StageState /\ passed[i] \in Nat /\ In(i) \in Nat
  BY <1>1 DEF Good
<1> QED BY <1>1, <1>2, <1>3 DEF StreamInv, TypeOK

\* what a step may do to redactor i: nothing, or one of the three
LEMMA StageStays ==
    ASSUME StreamInv, UNCHANGED <<chain, file>>, NoError' => NoError, NEW i \in Stages,
           st'[i] = st[i], passed'[i] = passed[i], In(i)' = In(i)
    PROVE  StageInv(i)' /\ st'[i] \in StageState
<1>1. PICK s, p, n : s = st[i] /\ p = passed[i] /\ n = In(i)
  OBVIOUS
<1>2. /\ Good(i, s, p, n) /\ s \in StageState
      /\ NoError /\ Plain =>
           Placed(i, s, p) /\ (s.closed = "eof" => Enough(i, p + Len(s.out)))
  BY <1>1, StageNow
<1>3. Good(i, s, p, n)'
  BY <1>2, Frame
<1>4. PICK q : q = p + Len(s.out)
  OBVIOUS
<1>5. ASSUME NoError', Plain'
      PROVE  Placed(i, s, p)' /\ (s.closed = "eof" => Enough(i, q)')
  BY <1>2, <1>4, <1>5, Frame
<1>6. NoError' /\ Plain' =>
        Placed(i, s, p)' /\ (s.closed = "eof" => Enough(i, p + Len(s.out))')
  BY <1>4, <1>5 DEF Enough
<1>7. s = st'[i] /\ p = passed'[i] /\ n = In(i)'
  BY <1>1
<1>8. StageInv(i)'
  BY <1>3, <1>6, <1>7, StageAfter
<1> QED BY <1>1, <1>2, <1>8

LEMMA GetsOpen ==
    ASSUME chain \in Chains, NEW i \in Stages, NEW s, NEW line
    PROVE  Gets(i, s, line).closed # "eof"
<1>1. chain[i] \in {"line", "multi", "yaml"}
  BY ChainFacts
<1> QED BY <1>1 DEF Gets, LineGets, MultiGets, YamlGets, State

LEMMA StageGets ==
    ASSUME StreamInv, UNCHANGED <<chain, file>>, NoError' => NoError, NEW i \in Stages,
           Reads(i), NEW line \in Line, Masked(line, i - 1),
           NoError /\ Plain => InPlace(line, In(i) + 1, i - 1),
           st'[i] = Gets(i, st[i], line), passed'[i] = passed[i], In(i)' = In(i) + 1
    PROVE  StageInv(i)' /\ st'[i] \in StageState /\ st'[i].closed # "eof"
<1>1. PICK s, p, n : s = st[i] /\ p = passed[i] /\ n = In(i)
  OBVIOUS
<1>2. /\ Good(i, s, p, n) /\ n \in Nat /\ s.closed = "no" /\ s.out = <<>>
      /\ NoError /\ Plain => Placed(i, s, p)
      /\ chain \in Chains /\ file \in Inputs
  BY <1>1, StageNow DEF Reads
<1>3. PICK m \in Nat : m = n + 1
  BY <1>2
<1>4. PICK t : t = Gets(i, s, line)
  OBVIOUS
<1>5. Good(i, t, p, m)
  <2>1. Good(i, Gets(i, s, line), p, n + 1)
    BY <1>2, GetsGood
  <2> QED BY <1>3, <1>4, <2>1
<1>6. t \in StageState /\ t.closed # "eof"
  BY <1>2, <1>4, <1>5, GetsOpen DEF Good
<1>7. t = st'[i] /\ p = passed'[i] /\ m = In(i)'
  BY <1>1, <1>3, <1>4
<1>8. ASSUME NoError', Plain' PROVE Placed(i, t, p)'
  <2>1. Plain /\ NoError
    BY <1>8, Frame
  <2>2. chain[i] \in {"line", "multi"}
    BY <2>1 DEF Plain, IsOnly
  <2>3. st'[i].closed # "error"
    BY <1>8 DEF NoError, Stages
  <2>4. t.closed # "error"
    BY <1>7, <2>3
  <2>5. InPlace(line, n + 1, i - 1)
    BY <1>1, <2>1
  <2>6. Placed(i, t, p)
    BY <1>2, <1>4, <2>1, <2>2, <2>4, <2>5, GetsPlaced
  <2> QED BY <2>6, Frame
<1>9. StageInv(i)'
  <2>1. Good(i, t, p, m)'
    BY <1>5, Frame
  <2>2. NoError' /\ Plain' =>
          Placed(i, t, p)' /\ (t.closed = "eof" => Enough(i, p + Len(t.out))')
    BY <1>6, <1>8
  <2> QED BY <1>7, <2>1, <2>2, StageAfter
<1> QED BY <1>6, <1>7, <1>9

LEMMA StageEnds ==
    ASSUME StreamInv, UNCHANGED <<chain, file>>, NoError' => NoError, NEW i \in Stages,
           Reads(i), NEW how \in {"eof", "error"}, NEW t \in EndsWith(i, st[i], how),
           NoError' /\ Plain => how = "eof" /\ Enough(i - 1, In(i)),
           st'[i] = t, passed'[i] = passed[i], In(i)' = In(i)
    PROVE  StageInv(i)' /\ st'[i] \in StageState /\ st'[i].closed # "no"
<1>1. PICK s, p, n : s = st[i] /\ p = passed[i] /\ n = In(i)
  OBVIOUS
<1>2. /\ Good(i, s, p, n) /\ s.closed = "no" /\ s.out = <<>>
      /\ NoError /\ Plain => Placed(i, s, p)
      /\ chain \in Chains /\ file \in Inputs /\ t \in EndsWith(i, s, how)
  BY <1>1, StageNow DEF Reads
<1>3. Good(i, t, p, n) /\ t.closed # "no"
  BY <1>2, EndsGood
<1>4. t = st'[i] /\ p = passed'[i] /\ n = In(i)'
  BY <1>1
<1>5. PICK q : q = p + Len(t.out)
  OBVIOUS
<1>6. ASSUME NoError', Plain' PROVE Placed(i, t, p)' /\ Enough(i, q)'
  <2>1. Plain /\ NoError
    BY <1>6, Frame
  <2>2. chain[i] \in {"line", "multi"}
    BY <2>1 DEF Plain, IsOnly
  <2>3. how = "eof" /\ Enough(i - 1, n)
    BY <1>1, <1>6, <2>1
  <2>4. Placed(i, t, p) /\ Enough(i, p + Len(t.out))
    BY <1>2, <2>1, <2>2, <2>3, EndsPlaced
  <2>5. Enough(i, q)
    BY <1>5, <2>4
  <2> QED BY <2>4, <2>5, Frame
<1>7. NoError' /\ Plain' =>
        Placed(i, t, p)' /\ (t.closed = "eof" => Enough(i, p + Len(t.out))')
  BY <1>5, <1>6 DEF Enough
<1>8. Good(i, t, p, n)'
  BY <1>3, Frame
<1>9. StageInv(i)'
  BY <1>4, <1>7, <1>8, StageAfter
<1> QED BY <1>3, <1>4, <1>9 DEF Good

LEMMA StageWrites ==
    ASSUME StreamInv, UNCHANGED <<chain, file>>, NoError' => NoError, NEW i \in Stages,
           st[i].out # <<>>, st'[i] = Written(i), passed'[i] = passed[i] + 1, In(i)' = In(i)
    PROVE  /\ StageInv(i)' /\ st'[i] \in StageState /\ st'[i].closed = st[i].closed
           /\ passed'[i] + Len(st'[i].out) = passed[i] + Len(st[i].out)
           /\ Head(st[i].out) \in Line /\ Masked(Head(st[i].out), i)
           /\ NoError /\ Plain => InPlace(Head(st[i].out), passed[i] + 1, i)
<1>1. PICK s, p, n : s = st[i] /\ p = passed[i] /\ n = In(i)
  OBVIOUS
<1>2. /\ Good(i, s, p, n) /\ s \in StageState /\ p \in Nat /\ s.out # <<>>
      /\ NoError /\ Plain => 
           Placed(i, s, p) /\ (s.closed = "eof" => Enough(i, p + Len(s.out)))
      /\ chain \in Chains /\ file \in Inputs
  BY <1>1, StageNow
<1>3. PICK t : t = [s EXCEPT !.out = Tail(@)]
  OBVIOUS
<1>4. t.closed = s.closed /\ t.out = Tail(s.out)
  BY <1>2, <1>3 DEF StageState
<1>5. PICK m \in Nat : m = p + 1
  BY <1>2
<1>6. /\ Good(i, t, m, n) /\ Head(s.out) \in Line /\ Masked(Head(s.out), i)
      /\ NoError /\ Plain => Placed(i, t, m) /\ InPlace(Head(s.out), p + 1, i)
  BY <1>2, <1>3, <1>5, WrittenGood, WrittenPlaced
<1>7. t = st'[i] /\ m = passed'[i] /\ n = In(i)'
  BY <1>1, <1>3, <1>5 DEF Written
<1>8. PICK q \in Nat : q = p + Len(s.out) /\ q = m + Len(t.out)
  <2>1. s.out \in Seq(Line)
    BY <1>2 DEF StageState
  <2>2. PICK a \in Nat : a = Len(s.out) /\ Len(Tail(s.out)) = a - 1
    BY <1>2, <2>1, HeadAndTail
  <2>3. p + a = m + (a - 1) /\ p + a \in Nat
    BY <1>2, <1>5
  <2> QED BY <1>4, <2>2, <2>3
<1>9. ASSUME NoError', Plain' PROVE Placed(i, t, m)' /\ (t.closed = "eof" => Enough(i, q)')
  <2>1. Plain /\ NoError
    BY <1>9, Frame
  <2>2. Placed(i, t, m) /\ (t.closed = "eof" => Enough(i, q))
    BY <1>2, <1>4, <1>6, <1>8, <2>1
  <2> QED BY <2>2, Frame
<1>10. NoError' /\ Plain' =>
         Placed(i, t, m)' /\ (t.closed = "eof" => Enough(i, m + Len(t.out))')
  BY <1>8, <1>9 DEF Enough
<1>11. Good(i, t, m, n)'
  BY <1>6, Frame
<1>12. StageInv(i)'
  BY <1>7, <1>10, <1>11, StageAfter
<1>13. t \in StageState
  BY <1>6 DEF Good
<1> QED BY <1>1, <1>4, <1>6, <1>7, <1>8, <1>12, <1>13

LEMMA ResultStays ==
    ASSUME StreamInv, UNCHANGED <<chain, file, result, status>>, NoError' => NoError,
           passed'[N] = passed[N], status = "ok" => st'[N] = st[N]
    PROVE  ResultInv'
<1>1. Stages' = Stages /\ N' = N /\ Plain' = Plain
  BY Frame
<1>2. ResultInv
  BY DEF StreamInv
<1>3. Len(result') = passed'[N'] /\ \A k \in DOMAIN result' : Masked(result[k], N)'
  BY <1>1, <1>2 DEF ResultInv, Masked
<1>4. NoError' /\ Plain' => \A k \in DOMAIN result' : InPlace(result[k], k, N)'
  BY <1>1, <1>2 DEF ResultInv, InPlace, Selected
<1>5. status' = "ok" => st'[N'].closed = "eof" /\ st'[N'].out = <<>>
  BY <1>1, <1>2 DEF ResultInv
<1> QED BY <1>3, <1>4, <1>5 DEF ResultInv

LEMMA SourceStays ==
    ASSUME StreamInv, UNCHANGED <<file, src>>
    PROVE  SourceInv'
  BY DEF StreamInv, SourceInv

\* the types follow from those of the redactors
LEMMA TypesStay ==
    ASSUME StreamInv, UNCHANGED <<chain, file>>, src' \in Seq(Line), srcErr' \in BOOLEAN,
           result' \in Seq(Line), status' \in {"copying", "ok", "error"},
           st' = [j \in Stages |-> st'[j]], passed' = [j \in Stages |-> passed'[j]],
           \A j \in Stages : st'[j] \in StageState /\ passed'[j] \in Nat
    PROVE  TypeOK'
<1>1. Stages' = Stages
  BY DEF Stages
<1>2. st' \in [Stages -> StageState] /\ passed' \in [Stages -> Nat]
  OBVIOUS
<1> QED BY <1>1, <1>2 DEF StreamInv, TypeOK, StageState

LEMMA InvFacts ==
    ASSUME StreamInv
    PROVE  /\ chain \in Chains /\ file \in Inputs /\ src \in Seq(Line) /\ srcErr \in BOOLEAN
           /\ result \in Seq(Line) /\ status \in {"copying", "ok", "error"}
           /\ st = [j \in Stages |-> st[j]] /\ passed = [j \in Stages |-> passed[j]]
           /\ DOMAIN st = Stages /\ DOMAIN passed = Stages
           /\ \A j \in Stages : st[j] \in StageState /\ passed[j] \in Nat
           /\ file \in Seq(Line) /\ Len(file) \in Nat /\ Len(src) \in Nat
           /\ Len(src) <= Len(file)
<1>1. /\ chain \in Chains /\ file \in Inputs /\ src \in Seq(Line) /\ srcErr \in BOOLEAN
      /\ result \in Seq(Line) /\ status \in {"copying", "ok", "error"}
      /\ st \in [Stages -> StageState] /\ passed \in [Stages -> Nat]
  BY DEF StreamInv, TypeOK, StageState
<1>2. file \in Seq(Line) /\ Len(src) <= Len(file)
  BY <1>1, StreamAssumption DEF StreamInv, SourceInv
<1> QED BY <1>1, <1>2

-----------------------------------------------------------------------------
\* One step of each process.
\* A step in which no pipe is newly closed without an error.
LEMMA CloseStays ==
    ASSUME CloseInv, Stages' = Stages, UNCHANGED <<chain, srcErr>>, 1 \in Stages,
           \A j \in Stages : st'[j].closed = "eof" <=> st[j].closed = "eof",
           \A j \in Stages : st[j].closed = "eof" => st'[j].flush = st[j].flush,
           st[1].closed # "no" => st'[1].closed # "no"
    PROVE  CloseInv'
<1>1. \A j \in Stages : st[j].closed = "eof" /\ Forgets(j) => Forgets(j)'
  BY DEF Forgets
<1>2. \A j \in Stages : HasForgotten(j) => HasForgotten(j)'
  BY <1>1 DEF HasForgotten
<1>3. \A i, k \in Stages : i < k /\ st'[k].closed = "eof" /\ st'[i].closed # "eof" =>
        \E j \in Stages : i < j /\ j <= k /\ HasForgotten(j)'
  BY <1>2 DEF CloseInv
<1>4. srcErr' => st'[1].closed # "no"
  BY DEF CloseInv
<1>5. srcErr' /\ st'[1].closed = "eof" => Forgets(1)'
  BY <1>1 DEF CloseInv
<1> QED BY <1>3, <1>4, <1>5 DEF CloseInv

\* Only some redactors end well after an error.
LEMMA EndsForget ==
    ASSUME NEW i, NEW s, NEW t \in EndsWith(i, s, "error"), t.closed = "eof",
           chain[i] \in {"line", "multi", "yaml"}, s.flush \in {"first", "yes", "no"}
    PROVE  chain[i] = "yaml" \/ (chain[i] = "multi" /\ t.flush # "no")
<1>1. CASE chain[i] = "line"
  BY <1>1 DEF EndsWith, LineEnds, State
<1>2. CASE chain[i] = "multi"
  BY <1>2 DEF EndsWith, MultiEnds, State
<1> QED BY <1>1, <1>2

\* Redactor i ends as how its input did, or forgets it.
LEMMA CloseEnds ==
    ASSUME CloseInv, Stages' = Stages, chain' = chain, chain \in Chains, NEW i \in Stages,
           st[i].closed = "no", NEW t, st'[i] = t, t.closed \in {"eof", "error"},
           \A j \in Stages : j # i => st'[j] = st[j],
           NEW how \in {"eof", "error"}, how = "error" /\ t.closed = "eof" => Forgets(i)',
           i # 1 => srcErr' = srcErr /\ i - 1 \in Stages /\ how = st[i - 1].closed,
           i = 1 => (srcErr' <=> how = "error")
    PROVE  CloseInv'
<1>1. 1 \in Stages /\ \A j \in Stages : j \in Nat
  BY ChainFacts
<1>2. \A j \in Stages : j # i => (Forgets(j)' <=> Forgets(j))
  BY DEF Forgets
<1>3. \A j \in Stages : HasForgotten(j) => HasForgotten(j)'
  BY <1>2 DEF HasForgotten
<1>4. ASSUME NEW a \in Stages, NEW k \in Stages, a < k, st'[k].closed = "eof", st'[a].closed # "eof"
      PROVE  \E j \in Stages : a < j /\ j <= k /\ HasForgotten(j)'
  <2>1. CASE k # i
    <3>1. st[k].closed = "eof" /\ st[a].closed # "eof"
      BY <1>4, <2>1
    <3> QED BY <1>3, <1>4, <3>1 DEF CloseInv
  <2>2. CASE k = i /\ how = "error"
    <3>1. HasForgotten(i)'
      BY <1>4, <2>2 DEF HasForgotten
    <3> QED BY <1>1, <1>4, <2>2, <3>1
  <2>3. CASE k = i /\ how = "eof"
    <3>1. i # 1 /\ a # i
      BY <1>1, <1>4, <2>3, ChainFacts
    <3>2. st[a].closed # "eof" /\ a # i - 1 /\ a < i - 1 /\ st[i - 1].closed = "eof"
      BY <1>1, <1>4, <2>3, <3>1
    <3>3. PICK j \in Stages : a < j /\ j <= i - 1 /\ HasForgotten(j)
      BY <3>1, <3>2 DEF CloseInv
    <3>4. j <= k
      BY <1>1, <2>3, <3>3
    <3> QED BY <1>3, <3>3, <3>4
  <2> QED BY <2>1, <2>2, <2>3
<1>5. CASE i = 1
  <2>1. srcErr' => st'[1].closed # "no"
    BY <1>5
  <2>2. srcErr' /\ st'[1].closed = "eof" => Forgets(1)'
    BY <1>5
  <2> QED BY <1>4, <2>1, <2>2 DEF CloseInv
<1>6. CASE i # 1
  <2>1. st'[1] = st[1] /\ srcErr' = srcErr
    BY <1>1, <1>6
  <2>2. srcErr' /\ st'[1].closed = "eof" => Forgets(1)'
    BY <1>1, <1>2, <1>6, <2>1 DEF CloseInv
  <2> QED BY <1>4, <2>1, <2>2 DEF CloseInv
<1> QED BY <1>5, <1>6

LEMMA ReadFileStep ==
    ASSUME StreamInv, ReadFile
    PROVE  StreamInv'
<1>0. UNCHANGED <<chain, file, srcErr, result, status, passed>> /\ src' = Tail(src) /\ src # <<>>
  BY DEF ReadFile
<1>1. Stages' = Stages /\ N' = N /\ 1 \in Stages /\ N \in Stages
  BY <1>0, InvFacts, Frame, ChainFacts
<1>2. PICK line : line = Head(src)
  OBVIOUS
<1>3. /\ Reads(1) /\ st' = [st EXCEPT ![1] = Gets(1, st[1], line)]
  BY <1>2 DEF ReadFile
<1>4. /\ st' = [j \in Stages |-> st'[j]] /\ st'[1] = Gets(1, st[1], line)
      /\ \A j \in Stages : j # 1 => st'[j] = st[j]
  BY <1>1, <1>3, InvFacts
<1>5. NoError' => NoError
  BY <1>0, <1>1, <1>3, <1>4 DEF NoError, Reads
<1>6. PICK l \in Nat, a \in Nat : /\ l = Len(file) /\ a = Len(src) /\ a <= l /\ a >= 1
                                  /\ Len(src') = a - 1
  BY <1>0, InvFacts, HeadAndTail
<1>7. /\ line \in Line /\ line = file[l - a + 1] /\ l - a + 1 \in DOMAIN file
      /\ l - a + 1 \in Nat
  <2>1. line \in Line /\ 1 \in DOMAIN src /\ line = src[1]
    BY <1>0, <1>2, InvFacts, HeadAndTail
  <2>2. src[1] = file[l - a + 1]
    BY <1>6, <2>1 DEF StreamInv, SourceInv
  <2>3. l - a + 1 \in 1..l
    BY <1>6
  <2>4. DOMAIN file = 1..l
    BY <1>6, InvFacts
  <2> QED BY <2>1, <2>2, <2>3, <2>4
<1>8. In(1) = l - a /\ In(1)' = l - (a - 1)
  BY <1>0, <1>6 DEF In
<1>9. SourceInv'
  <2>1. ASSUME NEW k \in DOMAIN Tail(src) PROVE Tail(src)[k] = file[l - (a - 1) + k]
    <3>1. k \in Nat /\ k + 1 \in DOMAIN src /\ Tail(src)[k] = src[k + 1]
      BY <1>0, InvFacts, HeadAndTail
    <3>2. src[k + 1] = file[l - a + (k + 1)]
      BY <1>6, <3>1 DEF StreamInv, SourceInv
    <3>3. l - a + (k + 1) = l - (a - 1) + k
      BY <1>6, <3>1
    <3> QED BY <3>1, <3>2, <3>3
  <2>2. a - 1 <= l
    BY <1>6
  <2> QED BY <1>0, <1>6, <2>1, <2>2 DEF SourceInv
<1>10. StageInv(1)' /\ st'[1] \in StageState /\ st'[1].closed # "eof"
  <2>1. Masked(line, 1 - 1)
    BY InvFacts, ChainFacts DEF Masked
  <2>2. PICK q \in Nat : q = l - a + 1
    BY <1>7
  <2>3. q = In(1) + 1 /\ In(1)' = In(1) + 1
    BY <1>6, <1>8, <2>2
  <2>4. InPlace(line, q, 1 - 1)
    <3>1. \A j \in Stages : ~(j <= 1 - 1)
      BY InvFacts, ChainFacts
    <3> QED BY <1>7, <2>2, <3>1 DEF InPlace
  <2> QED BY <1>0, <1>1, <1>3, <1>4, <1>5, <1>7, <2>1, <2>3, <2>4, StageGets
<1>11. \A j \in Stages : StageInv(j)' /\ st'[j] \in StageState
  <2> SUFFICES ASSUME NEW j \in Stages, j # 1 PROVE StageInv(j)' /\ st'[j] \in StageState
    BY <1>10
  <2>1. In(j)' = In(j)
    BY <1>0 DEF In
  <2> QED BY <1>0, <1>4, <1>5, <2>1, StageStays
<1>12. TypeOK'
  <2>1. src' \in Seq(Line)
    BY <1>0, InvFacts, HeadAndTail
  <2> QED BY <1>0, <1>4, <1>11, <2>1, InvFacts, TypesStay
<1>13. ResultInv'
  <2>1. status = "ok" => st'[N] = st[N]
    <3>1. status = "ok" => st[N].closed = "eof"
      BY DEF StreamInv, ResultInv
    <3> QED BY <1>1, <1>3, <1>4, <3>1 DEF Reads
  <2> QED BY <1>0, <1>5, <2>1, ResultStays
<1>14. CloseInv'
  <2>1. CloseInv /\ st[1].closed = "no"
    BY <1>3 DEF StreamInv, Reads
  <2>2. \A j \in Stages : /\ st'[j].closed = "eof" <=> st[j].closed = "eof"
                          /\ st[j].closed = "eof" => st'[j].flush = st[j].flush
    BY <1>4, <1>10, <2>1
  <2> QED BY <1>0, <1>1, <2>1, <2>2, CloseStays, InvFacts, ChainFacts
<1> QED BY <1>9, <1>11, <1>12, <1>13, <1>14, <1>1 DEF StreamInv

LEMMA EndsStep ==
    ASSUME StreamInv, NEW i \in Stages, Reads(i), NEW how \in {"eof", "error"},
           NEW t \in EndsWith(i, st[i], how), st' = [st EXCEPT ![i] = t],
           UNCHANGED <<chain, file, src, result, status, passed>>,
           srcErr' \in BOOLEAN, srcErr => srcErr', CloseInv',
           NoError' /\ Plain => how = "eof" /\ Enough(i - 1, In(i))
    PROVE  StreamInv'
<1>1. Stages' = Stages /\ N' = N /\ N \in Stages /\ Plain' = Plain
  BY InvFacts, Frame, ChainFacts
<1>2. /\ st' = [j \in Stages |-> st'[j]] /\ st'[i] = t
      /\ \A j \in Stages : j # i => st'[j] = st[j]
  BY InvFacts
<1>3. NoError' => NoError
  BY <1>1, <1>2 DEF NoError, Reads
<1>4. \A j \in Stages : In(j)' = In(j)
  BY DEF In
<1>5. StageInv(i)' /\ st'[i] \in StageState
  BY <1>1, <1>2, <1>3, <1>4, StageEnds
<1>6. \A j \in Stages : StageInv(j)' /\ st'[j] \in StageState
  <2> SUFFICES ASSUME NEW j \in Stages, j # i PROVE StageInv(j)' /\ st'[j] \in StageState
    BY <1>5
  <2> QED BY <1>2, <1>3, <1>4, StageStays
<1>7. TypeOK'
  BY <1>2, <1>6, InvFacts, TypesStay
<1>8. ResultInv'
  <2>1. status = "ok" => st[N].closed = "eof"
    BY DEF StreamInv, ResultInv
  <2>2. status = "ok" => st'[N] = st[N]
    BY <1>1, <1>2, <2>1 DEF Reads
  <2> QED BY <1>3, <2>2, ResultStays
<1> QED BY <1>1, <1>6, <1>7, <1>8, SourceStays DEF StreamInv

LEMMA EndsClose ==
    ASSUME StreamInv, NEW i \in Stages, Reads(i), NEW how \in {"eof", "error"},
           NEW t \in EndsWith(i, st[i], how)
    PROVE  t.closed \in {"eof", "error"}
<1>1. chain[i] \in {"line", "multi", "yaml"} /\ st[i].flush \in {"first", "yes", "no"}
  BY InvFacts, ChainFacts DEF StageState
<1>2. CASE chain[i] = "line"
  BY <1>2 DEF EndsWith, LineEnds, State
<1>3. CASE chain[i] = "multi"
  BY <1>1, <1>3 DEF EndsWith, MultiEnds, State
<1>4. CASE chain[i] = "yaml"
  <2>1. t \in YamlEnds(i, st[i], how)
    BY <1>4 DEF EndsWith
  <2>2. \/ t = State(<<>>, st[i].flush, st[i].buf, "eof")
        \/ \E doc : t = State(<<>>, "yes", doc, "eof")
    BY <2>1 DEF YamlEnds
  <2> QED BY <2>2 DEF State
<1> QED BY <1>1, <1>2, <1>3, <1>4

LEMMA FileEndsStep ==
    ASSUME StreamInv, FileEnds
    PROVE  StreamInv'
<1>1. /\ 1 \in Stages /\ Reads(1) /\ src = <<>>
      /\ UNCHANGED <<chain, file, src, srcErr, result, status, passed>>
  BY InvFacts, ChainFacts DEF FileEnds
<1>2. PICK t \in EndsWith(1, st[1], "eof") : st' = [st EXCEPT ![1] = t]
  BY DEF FileEnds
<1>3. In(1) = Len(file) /\ ~srcErr
  BY <1>1, InvFacts DEF In, Reads, StreamInv, CloseInv
<1>4. Enough(1 - 1, In(1))
  BY <1>3, InvFacts DEF Enough
<1>5. CloseInv'
  <2>1. Stages' = Stages /\ chain \in Chains /\ CloseInv /\ st[1].closed = "no"
    BY <1>1, InvFacts DEF Stages, StreamInv, Reads
  <2>2. st'[1] = t /\ t.closed \in {"eof", "error"} /\ \A j \in Stages : j # 1 => st'[j] = st[j]
    BY <1>1, <1>2, EndsClose, InvFacts
  <2> QED BY <1>1, <1>3, <2>1, <2>2, CloseEnds
<1> QED BY <1>1, <1>2, <1>4, <1>5, InvFacts, EndsStep

LEMMA FileFailsStep ==
    ASSUME StreamInv, FileFails
    PROVE  StreamInv'
<1>1. /\ 1 \in Stages /\ Reads(1) /\ srcErr' = TRUE
      /\ UNCHANGED <<chain, file, src, result, status, passed>>
  BY InvFacts, ChainFacts DEF FileFails
<1>2. PICK t \in EndsWith(1, st[1], "error") : st' = [st EXCEPT ![1] = t]
  BY DEF FileFails
<1>3. ~NoError'
  BY <1>1 DEF NoError
<1>4. CloseInv'
  <2>1. Stages' = Stages /\ chain \in Chains /\ CloseInv /\ st[1].closed = "no"
    BY <1>1, InvFacts DEF Stages, StreamInv, Reads
  <2>2. st'[1] = t /\ t.closed \in {"eof", "error"} /\ \A j \in Stages : j # 1 => st'[j] = st[j]
    BY <1>1, <1>2, EndsClose, InvFacts
  <2>3. ASSUME t.closed = "eof" PROVE Forgets(1)'
    <3>1. chain[1] \in {"line", "multi", "yaml"} /\ st[1].flush \in {"first", "yes", "no"}
      BY <1>1, <2>1, InvFacts, ChainFacts DEF StageState
    <3>2. chain[1] = "yaml" \/ (chain[1] = "multi" /\ t.flush # "no")
      BY <1>2, <2>3, <3>1, EndsForget
    <3> QED BY <1>1, <2>2, <3>2 DEF Forgets
  <2> QED BY <1>1, <2>1, <2>2, <2>3, CloseEnds
<1> QED BY <1>1, <1>2, <1>3, <1>4, EndsStep

LEMMA PipeEndsStep ==
    ASSUME StreamInv, NEW i \in Stages, PipeEnds(i)
    PROVE  StreamInv'
<1>1. /\ i - 1 \in Stages /\ i # 1 /\ i # i - 1 /\ Reads(i) /\ IsClosed(i - 1)
      /\ UNCHANGED <<chain, file, src, srcErr, result, status, passed>>
  BY InvFacts, ChainFacts DEF PipeEnds
<1>2. PICK how \in {"eof", "error"} : how = st[i - 1].closed
  BY <1>1, InvFacts DEF IsClosed, StageState
<1>3. PICK t \in EndsWith(i, st[i], how) : st' = [st EXCEPT ![i] = t]
  BY <1>2 DEF PipeEnds
<1>4. In(i) = passed[i - 1] /\ passed[i - 1] \in Nat /\ st[i - 1].out = <<>>
  BY <1>1, InvFacts DEF In, IsClosed
<1>5. PICK n \in Nat : n = passed[i - 1] /\ n = passed[i - 1] + Len(st[i - 1].out)
  BY <1>4
<1>6. /\ Stages' = Stages /\ 1 \in Stages /\ st'[i] = t
      /\ \A j \in Stages : j # i => st'[j] = st[j]
  BY <1>1, <1>3, InvFacts, ChainFacts DEF Stages
<1>7. NoError' /\ Plain => how = "eof" /\ Enough(i - 1, In(i))
  <2> SUFFICES ASSUME NoError', Plain PROVE how = "eof" /\ Enough(i - 1, In(i))
    OBVIOUS
  <2>1. NoError
    BY <1>1, <1>6 DEF NoError, Reads
  <2>2. how = "eof"
    BY <1>1, <1>2, <2>1 DEF NoError
  <2>3. Enough(i - 1, n)
    BY <1>1, <1>2, <1>5, <2>1, <2>2, StageNow
  <2> QED BY <1>4, <1>5, <2>2, <2>3
<1>8. CloseInv'
  <2>1. chain \in Chains /\ CloseInv /\ st[i].closed = "no" /\ t.closed \in {"eof", "error"}
    BY <1>1, <1>3, EndsClose, InvFacts DEF StreamInv, Reads
  <2>2. ASSUME how = "error", t.closed = "eof" PROVE Forgets(i)'
    <3>1. chain[i] \in {"line", "multi", "yaml"} /\ st[i].flush \in {"first", "yes", "no"}
      BY <2>1, InvFacts, ChainFacts DEF StageState
    <3>2. chain[i] = "yaml" \/ (chain[i] = "multi" /\ t.flush # "no")
      BY <1>3, <2>2, <3>1, EndsForget
    <3> QED BY <1>1, <1>6, <3>2 DEF Forgets
  <2> QED BY <1>1, <1>2, <1>6, <2>1, <2>2, CloseEnds
<1> QED BY <1>1, <1>3, <1>7, <1>8, InvFacts, EndsStep

LEMMA ReadPipeStep ==
    ASSUME StreamInv, NEW i \in Stages, ReadPipe(i)
    PROVE  StreamInv'
<1>1. /\ i - 1 \in Stages /\ i # 1 /\ i # i - 1 /\ i - 1 # N /\ Reads(i)
      /\ st[i - 1].out # <<>>
      /\ UNCHANGED <<chain, file, src, srcErr, result, status>>
  BY InvFacts, ChainFacts DEF ReadPipe
<1>2. PICK h \in Stages : h = i - 1
  BY <1>1
<1>3. PICK line : line = Head(st[h].out)
  OBVIOUS
<1>4. /\ Stages' = Stages /\ N' = N /\ 1 \in Stages /\ N \in Stages
  BY <1>1, InvFacts, Frame, ChainFacts
<1>5. /\ st' = [j \in Stages |-> st'[j]] /\ passed' = [j \in Stages |-> passed'[j]]
      /\ st'[h] = Written(h) /\ st'[i] = Gets(i, st[i], line)
      /\ passed'[h] = passed[h] + 1
      /\ \A j \in Stages : j # i /\ j # h => st'[j] = st[j]
      /\ \A j \in Stages : j # h => passed'[j] = passed[j]
  <2>1. /\ st' = [st EXCEPT ![h] = Written(h), ![i] = Gets(i, @, line)]
        /\ passed' = [passed EXCEPT ![h] = @ + 1]
    BY <1>2, <1>3 DEF ReadPipe
  <2> QED BY <1>1, <1>2, <2>1, InvFacts
<1>6. Written(h).closed = st[h].closed
  BY InvFacts DEF Written, StageState
<1>7. NoError' => NoError
  BY <1>1, <1>2, <1>4, <1>5, <1>6 DEF NoError, Reads
<1>8. /\ In(i)' = In(i) + 1 /\ In(i) = passed[h]
      /\ \A j \in Stages : j # i => In(j)' = In(j)
  <2>1. \A j \in Stages : j # 1 /\ j # i => j - 1 # h /\ j - 1 \in Stages
    BY <1>2, InvFacts, ChainFacts
  <2> QED BY <1>1, <1>2, <1>5, <2>1 DEF In
<1>9. /\ StageInv(h)' /\ st'[h] \in StageState
      /\ passed'[h] + Len(st'[h].out) = passed[h] + Len(st[h].out)
      /\ line \in Line /\ Masked(line, h)
      /\ NoError /\ Plain => InPlace(line, passed[h] + 1, h)
  BY <1>1, <1>2, <1>3, <1>5, <1>7, <1>8, StageWrites
<1>10. StageInv(i)' /\ st'[i] \in StageState /\ st'[i].closed # "eof"
  <2>1. Masked(line, i - 1)
    BY <1>2, <1>9
  <2>2. NoError /\ Plain => InPlace(line, In(i) + 1, i - 1)
    BY <1>2, <1>8, <1>9
  <2>3. passed'[i] = passed[i]
    BY <1>1, <1>2, <1>5
  <2> QED BY <1>1, <1>5, <1>7, <1>8, <1>9, <2>1, <2>2, <2>3, StageGets
<1>11. \A j \in Stages : StageInv(j)' /\ st'[j] \in StageState
  <2> SUFFICES ASSUME NEW j \in Stages, j # i, j # h PROVE StageInv(j)' /\ st'[j] \in StageState
    BY <1>9, <1>10
  <2> QED BY <1>1, <1>5, <1>7, <1>8, StageStays
<1>12. TypeOK'
  <2>1. ASSUME NEW j \in Stages PROVE passed'[j] \in Nat
    <3>1. passed[j] \in Nat /\ passed[h] \in Nat
      BY InvFacts
    <3> QED BY <1>5, <3>1
  <2> QED BY <1>1, <1>5, <1>11, <2>1, InvFacts, TypesStay
<1>13. ResultInv'
  <2>1. status = "ok" => st[N].closed = "eof"
    BY DEF StreamInv, ResultInv
  <2>2. (status = "ok" => st'[N] = st[N]) /\ passed'[N] = passed[N]
    BY <1>1, <1>2, <1>4, <1>5, <2>1 DEF Reads
  <2> QED BY <1>1, <1>7, <2>2, ResultStays
<1>14. CloseInv'
  <2>1. CloseInv /\ st[i].closed = "no" /\ Written(h).flush = st[h].flush
    BY <1>1, InvFacts DEF StreamInv, Reads, Written, StageState
  <2>2. \A j \in Stages : /\ st'[j].closed = "eof" <=> st[j].closed = "eof"
                          /\ st[j].closed = "eof" => st'[j].flush = st[j].flush
    BY <1>1, <1>2, <1>5, <1>6, <1>10, <2>1
  <2>3. st[1].closed # "no" => st'[1].closed # "no"
    BY <1>1, <1>2, <1>4, <1>5, <1>6, <2>1
  <2> QED BY <1>1, <1>4, <2>1, <2>2, <2>3, CloseStays
<1> QED BY <1>1, <1>4, <1>11, <1>12, <1>13, <1>14, SourceStays DEF StreamInv

LEMMA CopyStep ==
    ASSUME StreamInv, Copy
    PROVE  StreamInv'
<1>1. /\ status = "copying" /\ st[N].out # <<>>
      /\ UNCHANGED <<chain, file, src, srcErr, status>>
  BY DEF Copy
<1>2. PICK h \in Stages : h = N
  BY InvFacts, ChainFacts
<1>3. PICK line : line = Head(st[h].out)
  OBVIOUS
<1>4. /\ Stages' = Stages /\ N' = N /\ 1 \in Stages /\ Plain' = Plain
  BY <1>1, InvFacts, Frame, ChainFacts
<1>5. /\ st' = [j \in Stages |-> st'[j]] /\ passed' = [j \in Stages |-> passed'[j]]
      /\ st'[h] = Written(h) /\ passed'[h] = passed[h] + 1
      /\ \A j \in Stages : j # h => st'[j] = st[j] /\ passed'[j] = passed[j]
      /\ result' = Append(result, line)
  <2>1. /\ st' = [st EXCEPT ![h] = Written(h)] /\ passed' = [passed EXCEPT ![h] = @ + 1]
        /\ result' = Append(result, line)
    BY <1>2, <1>3 DEF Copy
  <2> QED BY <2>1, InvFacts
<1>6. Written(h).closed = st[h].closed
  BY InvFacts DEF Written, StageState
<1>7. NoError' => NoError
  BY <1>1, <1>4, <1>5, <1>6 DEF NoError
<1>8. \A j \in Stages : In(j)' = In(j)
  <2>1. \A j \in Stages : j # 1 => j - 1 # h /\ j - 1 \in Stages
    BY <1>2, InvFacts, ChainFacts
  <2> QED BY <1>1, <1>5, <2>1 DEF In
<1>9. /\ StageInv(h)' /\ st'[h] \in StageState
      /\ passed'[h] + Len(st'[h].out) = passed[h] + Len(st[h].out)
      /\ line \in Line /\ Masked(line, h)
      /\ NoError /\ Plain => InPlace(line, passed[h] + 1, h)
  BY <1>1, <1>2, <1>3, <1>5, <1>7, <1>8, StageWrites
<1>10. \A j \in Stages : StageInv(j)' /\ st'[j] \in StageState
  <2> SUFFICES ASSUME NEW j \in Stages, j # h PROVE StageInv(j)' /\ st'[j] \in StageState
    BY <1>9
  <2> QED BY <1>1, <1>5, <1>7, <1>8, StageStays
<1>11. TypeOK'
  <2>1. ASSUME NEW j \in Stages PROVE passed'[j] \in Nat
    <3>1. passed[j] \in Nat /\ passed[h] \in Nat
      BY InvFacts
    <3> QED BY <1>5, <3>1
  <2>2. result' \in Seq(Line)
    BY <1>5, <1>9, InvFacts
  <2> QED BY <1>1, <1>5, <1>10, <2>1, <2>2, InvFacts, TypesStay
<1>12. ResultInv'
  <2>1. PICK l \in Nat : /\ l = Len(result) /\ l = passed[h] /\ DOMAIN result = 1..l
    BY <1>2, InvFacts DEF StreamInv, ResultInv
  <2>2. /\ DOMAIN result' = 1..(l + 1) /\ Len(result') = l + 1 /\ result'[l + 1] = line
        /\ \A k \in 1..l : result'[k] = result[k]
    BY <1>5, <1>9, <2>1, InvFacts
  <2>3. \A k \in 1..(l + 1) : k \in 1..l \/ k = l + 1
    BY <2>1
  <2>4. ASSUME NEW k \in DOMAIN result', NEW x, x = result'[k]
        PROVE  Masked(x, h)' /\ (NoError' /\ Plain' => InPlace(x, k, h)')
    <3>1. Masked(x, h) /\ (NoError /\ Plain => InPlace(x, k, h))
      <4>1. CASE k = l + 1
        BY <1>9, <2>1, <2>2, <2>4, <4>1
      <4>2. CASE k \in 1..l
        BY <1>2, <2>1, <2>2, <2>4, <4>2 DEF StreamInv, ResultInv
      <4> QED BY <2>2, <2>3, <4>1, <4>2
    <3> QED BY <1>1, <1>4, <1>7, <3>1, Frame
  <2>5. \A k \in DOMAIN result' : Masked(result[k], N)'
    BY <1>2, <1>4, <2>4 DEF Masked
  <2>6. NoError' /\ Plain' => \A k \in DOMAIN result' : InPlace(result[k], k, N)'
    BY <1>2, <1>4, <2>4 DEF InPlace, Selected
  <2>7. Len(result') = passed'[N']
    BY <1>2, <1>4, <1>5, <2>1, <2>2
  <2> QED BY <1>1, <2>5, <2>6, <2>7 DEF ResultInv
<1>13. CloseInv'
  <2>1. CloseInv /\ Written(h).flush = st[h].flush
    BY <1>1, InvFacts DEF StreamInv, Written, StageState
  <2>2. \A j \in Stages : st'[j].closed = st[j].closed /\ st'[j].flush = st[j].flush
    BY <1>5, <1>6, <2>1
  <2> QED BY <1>1, <1>4, <2>1, <2>2, CloseStays
<1> QED BY <1>1, <1>4, <1>10, <1>11, <1>12, <1>13, SourceStays DEF StreamInv

\* the end of the copy, and steps of other things
LEMMA NothingMoves ==
    ASSUME StreamInv, UNCHANGED <<chain, file, src, srcErr, st, result, passed>>,
           status' \in {"copying", "ok", "error"},
           status' = "ok" => st[N].closed = "eof" /\ st[N].out = <<>>
    PROVE  StreamInv'
<1>1. Stages' = Stages /\ N' = N /\ Plain' = Plain
  BY Frame
<1>2. NoError' = NoError
  BY <1>1 DEF NoError
<1>3. \A j \in Stages : StageInv(j)' /\ st'[j] \in StageState
  <2> SUFFICES ASSUME NEW j \in Stages PROVE StageInv(j)' /\ st'[j] \in StageState
    OBVIOUS
  <2>1. In(j)' = In(j)
    BY DEF In
  <2> QED BY <1>2, <2>1, StageStays
<1>4. TypeOK'
  BY InvFacts, <1>1 DEF TypeOK, StreamInv
<1>5. ResultInv'
  <2>1. ResultInv
    BY DEF StreamInv
  <2>2. \A k \in DOMAIN result' : Masked(result[k], N)'
    BY <1>1, <2>1 DEF ResultInv, Masked
  <2>3. NoError' /\ Plain' => \A k \in DOMAIN result' : InPlace(result[k], k, N)'
    BY <1>1, <1>2, <2>1 DEF ResultInv, InPlace, Selected
  <2>4. Len(result') = passed'[N']
    BY <1>1, <2>1 DEF ResultInv
  <2> QED BY <1>1, <2>2, <2>3, <2>4 DEF ResultInv
<1>6. CloseInv'
  BY <1>1, CloseStays, InvFacts, ChainFacts DEF StreamInv
<1> QED BY <1>1, <1>3, <1>4, <1>5, <1>6, SourceStays DEF StreamInv

LEMMA StreamStep ==
    ASSUME StreamInv, [Next]_vars
    PROVE  StreamInv'
<1>1. CASE Copy
  BY <1>1, CopyStep
<1>2. CASE CopyEnds
  BY <1>2, NothingMoves, InvFacts DEF CopyEnds, IsClosed
<1>3. ASSUME NEW i \in Stages, Stage(i) PROVE StreamInv'
  <2>1. CASE ReadFile
    BY <2>1, ReadFileStep
  <2>2. CASE FileEnds
    BY <2>2, FileEndsStep
  <2>3. CASE FileFails
    BY <2>3, FileFailsStep
  <2>4. CASE ReadPipe(i)
    BY <2>4, ReadPipeStep
  <2>5. CASE PipeEnds(i)
    BY <2>5, PipeEndsStep
  <2> QED BY <1>3, <2>1, <2>2, <2>3, <2>4, <2>5 DEF Stage
<1>4. CASE UNCHANGED vars
  <2>1. status = "ok" => st[N].closed = "eof" /\ st[N].out = <<>>
    BY DEF StreamInv, ResultInv
  <2> QED BY <1>4, <2>1, NothingMoves, InvFacts DEF vars
<1> QED BY <1>1, <1>2, <1>3, <1>4 DEF Next, Caller

LEMMA StreamInit ==
    ASSUME Init
    PROVE  StreamInv
<1>1. PICK none \in Seq(Line) : none = <<>> /\ Len(none) = 0 /\ DOMAIN none = {}
  BY NoLine
<1>2. /\ chain \in Chains /\ file \in Inputs /\ src = file /\ srcErr = FALSE
      /\ result = none /\ status = "copying" /\ file \in Seq(Line)
      /\ 1 \in Stages /\ N \in Stages /\ Len(file) \in Nat
  BY <1>1, StreamAssumption, ChainFacts DEF Init
<1>3. PICK s : s = State(none, "first", none, "no")
  OBVIOUS
<1>4. \A i \in Stages : st[i] = s /\ passed[i] = 0
  BY <1>1, <1>3 DEF Init
<1>5. /\ s \in StageState /\ s.buf = none /\ s.out = none /\ s.closed = "no"
      /\ s.flush = "first"
  BY <1>3, StateFields
<1>6. \A i \in Stages : In(i) = 0
  BY <1>2, <1>4, ChainFacts DEF In
<1>7. ASSUME NEW i \in Stages PROVE StageInv(i)
  <2>1. Good(i, s, 0, 0)
    BY <1>1, <1>5 DEF Good
  <2>2. Placed(i, s, 0)
    BY <1>1, <1>5 DEF Placed, Flushed
  <2>3. StageOf(i, s, 0, 0)
    BY <1>5, <2>1, <2>2 DEF StageOf
  <2> QED BY <1>4, <1>6, <2>3 DEF StageInv
<1>8. TypeOK
  <2>1. st \in [Stages -> StageState] /\ passed \in [Stages -> Nat]
    BY <1>4, <1>5 DEF Init
  <2> QED BY <1>2, <2>1 DEF TypeOK, StageState
<1>9. SourceInv
  BY <1>2 DEF SourceInv
<1>10. ResultInv
  BY <1>1, <1>2, <1>4 DEF ResultInv
<1>11. CloseInv
  BY <1>2, <1>4, <1>5 DEF CloseInv
<1> QED BY <1>7, <1>8, <1>9, <1>10, <1>11 DEF StreamInv

LEMMA StreamAlways == Spec => []StreamInv
<1> QED BY StreamInit, StreamStep, PTL DEF Spec

-----------------------------------------------------------------------------
(***************************************************************************)
(* What the redactors of the chain select is masked in what RedactResult   *)
(* gets: by single line and literal redactors (SingleLineRedactor,         *)
(* literalRedactor) in every line, however the streams end; after a        *)
(* selector (MultiLineRedactor) as long as there is no error.              *)
(***************************************************************************)
THEOREM RedactorsMask == Spec => []SecretsAreMasked
<1>1. StreamInv => SecretsAreMasked
  <2> SUFFICES ASSUME StreamInv PROVE SecretsAreMasked
    OBVIOUS
  <2>1. \A i \in Stages : i <= N
    BY InvFacts, ChainFacts
  <2>2. LinesAreMasked
    BY <2>1 DEF StreamInv, ResultInv, LinesAreMasked, Masked
  <2>3. AfterSelectorMasked
    BY <2>1 DEF StreamInv, ResultInv, AfterSelectorMasked, InPlace, Selected, Plain
  <2> QED BY <2>2, <2>3 DEF SecretsAreMasked, StreamInv
<1> QED BY <1>1, StreamAlways, PTL

(***************************************************************************)
(* The lines of a file come out in their places, and all of them but the   *)
(* last few, however many redactors of two lines are in the chain          *)
(* (MultiLineRedactor, whose flushLastLine decides about the last line).   *)
(***************************************************************************)
THEOREM PlacesAreAlwaysKept == Spec => []LinesKeepTheirPlaces
<1>1. StreamInv => LinesKeepTheirPlaces
  <2> SUFFICES ASSUME StreamInv PROVE LinesKeepTheirPlaces
    OBVIOUS
  <2>1. PlacesAreKept
    BY DEF StreamInv, ResultInv, PlacesAreKept, InPlace, Plain
  <2>2. OnlyTheTailIsLost
    <3> SUFFICES ASSUME status = "ok", NoError, Plain
                 PROVE  /\ Len(result) + Cardinality(MultiStages) >= Len(file)
                        /\ Len(result) < Len(file) =>
                             \E i \in MultiStages, k \in DOMAIN file : i \in file[k].names
      BY DEF OnlyTheTailIsLost, Plain
    <3>1. PICK q \in Nat : q = passed[N] /\ q = Len(result)
      BY InvFacts, ChainFacts DEF StreamInv, ResultInv
    <3>2. st[N].closed = "eof" /\ st[N].out = <<>> /\ N \in Stages
      BY InvFacts, ChainFacts DEF StreamInv, ResultInv
    <3>3. q = passed[N] + Len(st[N].out)
      BY <3>1, <3>2
    <3>4. Enough(N, q)
      BY <3>2, <3>3, StageNow
    <3>5. \A i \in Stages : i <= N
      BY InvFacts, ChainFacts
    <3>6. MultiUpTo(N) = MultiStages
      BY <3>5 DEF MultiUpTo, MultiStages
    <3>7. PICK c \in Nat : c = Cardinality(MultiStages)
      BY <3>2, <3>6, InvFacts, MultiCount
    <3>8. PICK l \in Nat : l = Len(file)
      BY InvFacts
    <3> QED BY <3>1, <3>4, <3>6, <3>7, <3>8 DEF Enough
  <2> QED BY <2>1, <2>2 DEF LinesKeepTheirPlaces
<1> QED BY <1>1, StreamAlways, PTL

(***************************************************************************)
(* An error of reading the file or of any redactor reaches RedactResult    *)
(* (CloseWithError), in every chain, unless a redactor of two lines with a *)
(* line left to write, or a YAML redactor, comes after it: nothing else    *)
(* makes RedactResult replace a file by a part of it.                      *)
(***************************************************************************)
THEOREM ErrorsAreNotLost == Spec => []ErrorsReachTheCaller
<1>1. StreamInv => ErrorsReachTheCaller
  <2> SUFFICES ASSUME StreamInv, status = "ok"
               PROVE  /\ srcErr => \E j \in Stages : Forgets(j)
                      /\ \A i \in Stages : st[i].closed = "error" =>
                           \E j \in Stages : j > i /\ Forgets(j)
    BY DEF ErrorsReachTheCaller
  <2>1. N \in Stages /\ st[N].closed = "eof" /\ 1 \in Stages /\ Stages = 1..N /\ N \in Nat
    BY InvFacts, ChainFacts DEF StreamInv, ResultInv
  <2>2. ASSUME NEW i \in Stages, st[i].closed = "error"
        PROVE  \E j \in Stages : j > i /\ Forgets(j)
    <3>1. i < N
      BY <2>1, <2>2
    <3>2. PICK j \in Stages : i < j /\ HasForgotten(j)
      BY <2>1, <2>2, <3>1 DEF StreamInv, CloseInv
    <3> QED BY <2>1, <3>2 DEF HasForgotten
  <2>3. ASSUME srcErr PROVE \E j \in Stages : Forgets(j)
    <3>1. st[1].closed \in {"eof", "error"}
      BY <2>1, <2>3, InvFacts DEF StreamInv, CloseInv, StageState
    <3>2. CASE st[1].closed = "eof"
      BY <2>1, <2>3, <3>2 DEF StreamInv, CloseInv
    <3>3. CASE st[1].closed = "error"
      BY <2>1, <2>2, <3>3
    <3> QED BY <3>1, <3>2, <3>3
  <2> QED BY <2>2, <2>3
<1> QED BY <1>1, StreamAlways, PTL
=============================================================================
