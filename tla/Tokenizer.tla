------------------------------ MODULE Tokenizer ------------------------------
(***************************************************************************)
(* The tokenizer of pkg/redact/tokenizer.go at work: one process-wide      *)
(* table of secrets and tokens, the goroutines of RedactResult that look   *)
(* secrets up in it (one per file), and the bundle run that switches       *)
(* tokenization on and off around each redaction of results and writes the *)
(* redaction map from the table.                                           *)
(*                                                                         *)
(* A secret is a member of Values; what normalizeSecret makes of it is     *)
(* Normal[v], which need not be a fixed point: "'Bearer x'" becomes        *)
(* "Bearer x", and that becomes "x".  The prefix and the truncated keyed   *)
(* hash of a token are one value, Base[v, context].                        *)
(***************************************************************************)
EXTENDS Integers, Sequences, FiniteSets

CONSTANTS
    Values,         \* the secrets, as found and as normalized
    Contexts,       \* the names of the redactors
    Bases,          \* prefix and hash of a token
    Normal,         \* normalizeSecret
    Base,           \* classifySecret and the keyed hash
    Variations,     \* how many suffixes resolveCollision tries; 100 in the code
    Stamps,         \* the clock modulo 10000 of the last resort
    Files,          \* the results to redact
    Glob,           \* the pattern that default YAML redactors have for a path
    Round,          \* which redaction a file belongs to: 1 host, 2 in-cluster
    Choices,        \* Choices[f] are the secrets that redactors find next in file f
    MaxSecrets,     \* bound on the secrets of a file
    RedactFails     \* whether the redaction of a file may fail

NoToken == [base |-> "none", n |-> 0, stamped |-> FALSE]
NoValue == "no value"
Mask == [base |-> "mask", n |-> 0, stamped |-> FALSE]     \* MASK_TEXT
Lost == [base |-> "lost", n |-> 0, stamped |-> FALSE]     \* the line became its own pattern

Suffixes == 0 .. Variations
Token == [base : Bases, n : Suffixes, stamped : {FALSE}]
         \cup [base : Bases, n : Stamps, stamped : {TRUE}]

(***************************************************************************)
(* What a redactor asks a token for.  A "line" redactor takes the secret   *)
(* of its first match in a line, then that of each further "group" of the  *)
(* same match, and puts the token over that group of all the matches:      *)
(* covers are the secrets that disappear under it.  A "literal" redactor   *)
(* asks for its secret on every line, whether the line has it or not.  A   *)
(* "yaml" redactor asks for a text at its path; what it finds is no secret *)
(* to the tokenizer if it is another value, nor is a group that is empty.  *)
(***************************************************************************)
Kinds == {"line", "group", "literal", "yaml"}
Paths == Files \cup {Glob}
Occurrence == [value : Values \cup {NoValue}, covers : SUBSET Values, context : Contexts,
               kind : Kinds, path : Paths]
NoOccurrence == [value |-> NoValue, covers |-> {}, context |-> "none", kind |-> "none",
                 path |-> "none"]

ASSUME TokenizerAssumption ==
    /\ IsFiniteSet(Values)
    /\ Normal \in [Values -> Values]
    /\ Base \in [Values \X Contexts -> Bases]
    /\ "none" \notin Bases /\ "mask" \notin Bases /\ "lost" \notin Bases
    /\ NoValue \notin Values
    /\ Variations \in Nat /\ MaxSecrets \in Nat
    /\ Stamps \subseteq Nat /\ Stamps # {}
    /\ Round \in [Files -> 1 .. 2]
    /\ Glob \notin Files
    /\ Choices \in [Files -> SUBSET Occurrence]
    /\ \A f \in Files : \A o \in Choices[f] :
         /\ o.path = f \/ (o.kind = "yaml" /\ o.path = Glob)
         /\ o.kind = "literal" => o.value # NoValue /\ o.covers \subseteq {o.value}
    /\ RedactFails \in BOOLEAN

VARIABLES
    enabled,        \* config.Enabled, read and written without the lock
    tokenMap,       \* normalized secret -> token
    reverseMap,     \* token -> the secret as first found
    refs,           \* secretRefs: token -> paths
    groups,         \* duplicateGroups: lookups of each normalized secret
    found,          \* fileStats: lookups for each path
    cache,          \* cacheStats
    work,           \* work[f]: the goroutine that redacts file f
    out,            \* out[f]: what it wrote, with the secrets it stands for
    main,           \* where the bundle run is
    round,          \* which results it redacts
    failed,         \* whether RedactResult returned an error
    mapFile,        \* the redaction map on disk
    crashed         \* a map was iterated while it was written

tables == <<tokenMap, reverseMap, refs, groups, found, cache>>
vars == <<enabled, tables, work, out, main, round, failed, mapFile, crashed>>

NoMap == [tokens |-> {}, secrets |-> -1]

Init ==
    /\ enabled = FALSE
    /\ tokenMap = [v \in Values |-> NoToken]
    /\ reverseMap = [t \in Token |-> NoValue]
    /\ refs = [t \in Token |-> {}]
    /\ groups = [v \in Values |-> 0]
    /\ found = [p \in Paths |-> 0]
    /\ cache = [hits |-> 0, misses |-> 0, total |-> 0]
    /\ work = [f \in Files |-> [pc |-> "waiting", at |-> NoOccurrence]]
    /\ out = [f \in Files |-> <<>>]
    /\ main = "collected"
    /\ round = 0
    /\ failed = FALSE
    /\ mapFile = NoMap
    /\ crashed = FALSE

(***************************************************************************)
(* The table, under its lock.                                              *)
(***************************************************************************)
BaseToken(base, n) == [base |-> base, n |-> n, stamped |-> FALSE]
Stamped(base, s) == [base |-> base, n |-> s, stamped |-> TRUE]

\* The suffixes that are free, or taken by a secret found as the new one is.
Free(base, value) == {n \in Suffixes : reverseMap[BaseToken(base, n)] \in {NoValue, value}}

\* Without the last resort: the last suffix is taken, free or not.
resolveWithoutClock(base, value) ==
    IF Free(base, value) # {}
    THEN {BaseToken(base, n) : n \in {m \in Free(base, value) :
                                        \A k \in Free(base, value) : m <= k}}
    ELSE {BaseToken(base, Variations)}

\* Every token resolveCollision may return; only the clock is a choice.
resolveCollision(base, value) ==
    IF Free(base, value) # {}
    THEN {BaseToken(base, n) : n \in {m \in Free(base, value) :
                                        \A k \in Free(base, value) : m <= k}}
    ELSE {Stamped(base, s) : s \in Stamps}

generateToken(value, context) == resolveCollision(Base[<<value, context>>], value)

\* A new path replaces the others of the token.
TrackLast(path, key, token) ==
    /\ refs' = [refs EXCEPT ![token] = {path}]
    /\ found' = [found EXCEPT ![path] = @ + 1]
    /\ groups' = [groups EXCEPT ![key] = @ + 1]

\* addSecretReference, updateFileStats and trackDuplicateSecret.
Track(path, key, token) ==
    /\ refs' = [refs EXCEPT ![token] = @ \cup {path}]
    /\ found' = [found EXCEPT ![path] = @ + 1]
    /\ groups' = [groups EXCEPT ![key] = @ + 1]

\* normalizeSecret counts a lookup of its own when it changed the value.
Looked(value, hit) ==
    cache' = [hits   |-> cache.hits + (IF hit THEN 1 ELSE 0),
              misses |-> cache.misses + (IF hit THEN 0 ELSE 1),
              total  |-> cache.total + (IF Normal[value] = value THEN 1 ELSE 2)]

\* The token is generated again.
KnownAnew(o, token) ==
    /\ tokenMap[Normal[o.value]] # NoToken
    /\ token \in generateToken(Normal[o.value], o.context)
    /\ Looked(o.value, TRUE)
    /\ Track(o.path, Normal[o.value], token)
    /\ UNCHANGED <<tokenMap, reverseMap>>

Known(o, token) ==
    /\ tokenMap[Normal[o.value]] = token
    /\ token # NoToken
    /\ Looked(o.value, TRUE)
    /\ Track(o.path, Normal[o.value], token)
    /\ UNCHANGED <<tokenMap, reverseMap>>

\* Stored under the secret as found.
FreshAsFound(o, token) ==
    /\ tokenMap[Normal[o.value]] = NoToken
    /\ token \in generateToken(Normal[o.value], o.context)
    /\ tokenMap' = [tokenMap EXCEPT ![o.value] = token]
    /\ reverseMap' = [reverseMap EXCEPT ![token] = o.value]
    /\ Looked(o.value, FALSE)
    /\ Track(o.path, Normal[o.value], token)

Fresh(o, token) ==
    /\ tokenMap[Normal[o.value]] = NoToken
    /\ token \in generateToken(Normal[o.value], o.context)
    /\ tokenMap' = [tokenMap EXCEPT ![Normal[o.value]] = token]
    /\ reverseMap' = [reverseMap EXCEPT ![token] = o.value]
    /\ Looked(o.value, FALSE)
    /\ Track(o.path, Normal[o.value], token)

(***************************************************************************)
(* The goroutine of one file.                                              *)
(***************************************************************************)
Goto(f, pc) == work' = [work EXCEPT ![f].pc = pc]

\* The redactor is between two lines, or between two groups of a match.
Between == {"reading", "matched"}

AfterPut(f) ==
    IF work[f].pc \in {"value", "lock"} /\ work[f].at.kind \in {"line", "group"}
    THEN "matched" ELSE "reading"

Put(f, token) ==
    /\ out' = [out EXCEPT ![f] = Append(@, [secret |-> work[f].at, token |-> token])]
    /\ work' = [work EXCEPT ![f] = [pc |-> AfterPut(f), at |-> NoOccurrence]]

bundleVars == <<enabled, main, round, failed, mapFile, crashed>>

\* RedactResult starts the goroutine.
Start(f) ==
    /\ main = "redacting" /\ Round[f] = round
    /\ work[f].pc = "waiting"
    /\ Goto(f, "reading")
    /\ UNCHANGED <<bundleVars, tables, out>>

\* A redactor finds something to mask, or goes on with the next group.
Match(f, o) ==
    /\ work[f].pc \in Between
    /\ o.kind = "group" => work[f].pc = "matched"
    /\ Len(out[f]) < MaxSecrets
    /\ work' = [work EXCEPT ![f] = [pc |-> IF o.kind = "group" THEN "value" ELSE "look", at |-> o]]
    /\ UNCHANGED <<bundleVars, tables, out>>

\* The redactor asks IsEnabled and masks the old way when it is off.
Look(f) ==
    /\ work[f].pc = "look"
    /\ \/ enabled /\ Goto(f, IF work[f].at.kind = "line" THEN "pattern" ELSE "value")
          /\ UNCHANGED out
       \/ ~enabled /\ Put(f, Mask)
    /\ UNCHANGED <<bundleVars, tables>>

\* getTokenizedReplacementPatternWithPath asks again; its fallback returns
\* the replacement pattern where its caller expects the replaced line.
Pattern(f) ==
    /\ work[f].pc = "pattern"
    /\ \/ enabled /\ Goto(f, "value") /\ UNCHANGED out
       \/ ~enabled /\ Put(f, Lost)
    /\ UNCHANGED <<bundleVars, tables>>

\* What is not a text, or is an empty one, is masked; TokenizeValueWithPath
\* asks once more before it takes the lock.
Enter(f) ==
    /\ work[f].pc = "value"
    /\ \/ enabled /\ work[f].at.value # NoValue /\ Goto(f, "lock") /\ UNCHANGED out
       \/ (~enabled \/ work[f].at.value = NoValue) /\ Put(f, Mask)
    /\ UNCHANGED <<bundleVars, tables>>

\* A Go map that is written while it is iterated may stop the program.
MayCrash ==
    \/ crashed' = FALSE
    \/ /\ main \in {"correlating", "marshalling"}
       /\ <<refs', reverseMap'>> # <<refs, reverseMap>>
       /\ crashed' = TRUE

Tokenize(f) ==
    /\ work[f].pc = "lock"
    /\ \E token \in Token :
         /\ Known(work[f].at, token) \/ Fresh(work[f].at, token)
         /\ Put(f, token)
    /\ MayCrash
    /\ UNCHANGED <<enabled, main, round, failed, mapFile>>

\* ReplaceResult: the redacted contents become those of the result.
Replace(f) ==
    /\ work[f].pc \in Between
    /\ Goto(f, "done")
    /\ UNCHANGED <<bundleVars, tables, out>>

Fail(f) ==
    /\ RedactFails
    /\ work[f].pc \in Between
    /\ Goto(f, "failed")
    /\ UNCHANGED <<bundleVars, tables, out>>

(***************************************************************************)
(* The bundle run.                                                         *)
(***************************************************************************)
OfRound(r) == {f \in Files : Round[f] = r}

\* The results are redacted once more after the last time.
RedactAgain ==
    /\ main = "collected"
    /\ round' = round + 1
    /\ enabled' = TRUE
    /\ main' = "redacting"
    /\ UNCHANGED <<tables, work, out, failed, mapFile, crashed>>

\* EnableTokenization and RedactResult of the next results.
RedactResult ==
    /\ main = "collected" /\ round < 2
    /\ round' = round + 1
    /\ enabled' = TRUE
    /\ main' = "redacting"
    /\ UNCHANGED <<tables, work, out, failed, mapFile, crashed>>

\* The goroutines are not waited for.
RedactedEarly ==
    /\ main = "redacting"
    /\ \A f \in OfRound(round) : work[f].pc # "waiting"
    /\ failed' = (failed \/ \E f \in OfRound(round) : work[f].pc = "failed")
    /\ enabled' = FALSE
    /\ main' = "collected"
    /\ UNCHANGED <<tables, work, out, round, mapFile, crashed>>

\* RedactResult returns when all goroutines have ended, or on the first
\* error once all were started; DisableTokenization is deferred.
Redacted ==
    /\ main = "redacting"
    /\ \A f \in OfRound(round) : work[f].pc # "waiting"
    /\ \/ \E f \in OfRound(round) : work[f].pc = "failed"
       \/ \A f \in OfRound(round) : work[f].pc = "done"
    /\ failed' = (failed \/ \E f \in OfRound(round) : work[f].pc = "failed")
    /\ enabled' = FALSE
    /\ main' = "collected"
    /\ UNCHANGED <<tables, work, out, round, mapFile, crashed>>

\* processTokenizationFeatures enables tokenization and
\* GenerateRedactionMapFile analyses correlations without the lock.
processTokenizationFeatures ==
    /\ main = "collected" /\ round = 2
    /\ enabled' = TRUE
    /\ main' = "correlating"
    /\ UNCHANGED <<tables, work, out, round, failed, mapFile, crashed>>

Bound(map, none) == {x \in DOMAIN map : map[x] # none}

\* The secrets are counted as often as they were looked up.
GetRedactionMapLookups ==
    /\ main = "correlating"
    /\ mapFile' = [tokens |-> {}, secrets |-> cache.hits + cache.misses]
    /\ main' = "marshalling"
    /\ UNCHANGED <<enabled, tables, work, out, round, failed, crashed>>

\* The statistics are those of now; the maps are the live ones.
GetRedactionMap ==
    /\ main = "correlating"
    /\ mapFile' = [tokens |-> {}, secrets |-> Cardinality(Bound(tokenMap, NoToken))]
    /\ main' = "marshalling"
    /\ UNCHANGED <<enabled, tables, work, out, round, failed, crashed>>

\* GenerateRedactionMapFile marshals the map as it is by then.
GenerateRedactionMapFile ==
    /\ main = "marshalling"
    /\ mapFile' = [mapFile EXCEPT !.tokens = Bound(reverseMap, NoValue)]
    /\ enabled' = FALSE
    /\ main' = "mapped"
    /\ UNCHANGED <<tables, work, out, round, failed, crashed>>

Next ==
    /\ ~crashed
    /\ \/ RedactResult \/ Redacted
       \/ processTokenizationFeatures \/ GetRedactionMap \/ GenerateRedactionMapFile
       \/ \E f \in Files :
            \/ Start(f) \/ Look(f) \/ Pattern(f) \/ Enter(f) \/ Tokenize(f)
            \/ Replace(f) \/ Fail(f)
            \/ \E o \in Choices[f] : Match(f, o)

Spec == Init /\ [][Next]_vars

-----------------------------------------------------------------------------
(***************************************************************************)
(* Properties.                                                             *)
(***************************************************************************)
Asking == {"look", "pattern", "value", "lock"}
WorkState == [pc : {"waiting", "done", "failed"} \cup Between \cup Asking,
              at : Occurrence \cup {NoOccurrence}]
Entry == [secret : Occurrence, token : Token \cup {Mask, Lost}]

(***************************************************************************)
(* Types of the tables of Tokenizer, of the goroutines of RedactResult and *)
(* of the bundle run (pkg/redact/tokenizer.go, pkg/collect/redact.go).     *)
(***************************************************************************)
TypeOK ==
    /\ enabled \in BOOLEAN /\ failed \in BOOLEAN /\ crashed \in BOOLEAN
    /\ tokenMap \in [Values -> Token \cup {NoToken}]
    /\ reverseMap \in [Token -> Values \cup {NoValue}]
    /\ refs \in [Token -> SUBSET Paths]
    /\ groups \in [Values -> Nat] /\ found \in [Paths -> Nat]
    /\ cache \in [hits : Nat, misses : Nat, total : Nat]
    /\ work \in [Files -> WorkState]
    /\ \A f \in Files : /\ work[f].pc \in Asking => work[f].at \in Occurrence
                        /\ work[f].pc = "lock" => work[f].at.value \in Values
    /\ out \in [Files -> Seq(Entry)]
    /\ main \in {"collected", "redacting", "correlating", "marshalling", "mapped"}
    /\ round \in 0 .. 2
    /\ mapFile \in [tokens : SUBSET Token, secrets : Int]

(***************************************************************************)
(* The two maps of the table agree (TokenizeValueWithPath): a token that   *)
(* stands for a secret is in the reverse map, and the secret that the      *)
(* reverse map has for a token is one whose normalized form has that       *)
(* token, also after resolveCollision reused or overwrote an entry.        *)
(***************************************************************************)
MapsAgree ==
    /\ \A v \in Values : tokenMap[v] # NoToken => reverseMap[tokenMap[v]] # NoValue
    /\ \A t \in Token : reverseMap[t] # NoValue => tokenMap[Normal[reverseMap[t]]] = t

\* Normalizing the secret again leaves it alone.
Stable(v) == Normal[v] = v

(***************************************************************************)
(* Two different secrets never share a token (resolveCollision), whatever  *)
(* the hashes: unless the token carries a clock reading, which is not      *)
(* looked up in the reverse map, or normalization would change one of the  *)
(* two again, so that it is confused with a secret found as it is.         *)
(***************************************************************************)
SecretsKeepApart ==
    \A v, w \in Values :
        /\ Stable(v) /\ Stable(w) /\ v # w
        /\ tokenMap[v] # NoToken /\ ~tokenMap[v].stamped
        => tokenMap[w] # tokenMap[v]

\* An entry that agrees with the table.
Agrees(e) ==
    \/ e.token \in {Mask, Lost}
    \/ e.secret.value \in Values /\ e.token = tokenMap[Normal[e.secret.value]]

(***************************************************************************)
(* Whenever a redactor has asked for the token of a secret, whichever      *)
(* goroutine in whichever file, it has written the one token that the      *)
(* table has for it (TokenizeValueWithPath).  The secrets that are under   *)
(* the token without having been asked for are another matter: see         *)
(* EverySecretHasItsToken.                                                 *)
(***************************************************************************)
SameSecretSameToken == \A f \in Files : \A i \in DOMAIN out[f] : Agrees(out[f][i])

(***************************************************************************)
(* The token that covers a secret is its own, so that the map can take it  *)
(* back and equal secrets look equal: what docs/Person-2-PRD.md says       *)
(* ("Reversible mapping", "Consistent token generation for same values")   *)
(* and redact.go breaks, where the token of the first match of a line      *)
(* replaces the other matches.                                             *)
(***************************************************************************)
EverySecretHasItsToken ==
    \A f \in Files : \A i \in DOMAIN out[f] :
        out[f][i].token \in {Mask, Lost} \/
        \A v \in out[f][i].secret.covers : out[f][i].token = tokenMap[Normal[v]]

Tokenized(f) == {i \in DOMAIN out[f] : out[f][i].token \notin {Mask, Lost}}
AllTokenized == UNION {{<<f, i>> : i \in Tokenized(f)} : f \in Files}
At(q) == out[q[1]][q[2]]

(***************************************************************************)
(* The statistics of the table add up to the lookups of the redactors      *)
(* (TokenizeValueWithPath, normalizeSecret, addSecretReference,            *)
(* updateFileStats, trackDuplicateSecret): those for each path, those of   *)
(* each secret, the paths of each token, and those of the cache.  A lookup *)
(* is not always a secret of a file: literal redactors make one for every  *)
(* line, and default YAML redactors give a pattern for the path.           *)
(***************************************************************************)
StatsAddUp ==
    /\ \A p \in Paths : found[p] = Cardinality({q \in AllTokenized : At(q).secret.path = p})
    /\ \A v \in Values :
         groups[v] = Cardinality({q \in AllTokenized : Normal[At(q).secret.value] = v})
    /\ \A t \in Token :
         refs[t] = {At(q).secret.path : q \in {q \in AllTokenized : At(q).token = t}}
    /\ cache.misses = Cardinality(Bound(tokenMap, NoToken))
    /\ cache.hits + cache.misses = Cardinality(AllTokenized)
    /\ cache.total = Cardinality(AllTokenized)
         + Cardinality({q \in AllTokenized : ~Stable(At(q).secret.value)})

(***************************************************************************)
(* While every redaction of results has succeeded, nothing is masked the   *)
(* old way but what is no text or an empty one, no line is lost, the       *)
(* program does not stop on its own maps, and the redaction map has every  *)
(* token of every file (runCollectors, runHostCollectors,                  *)
(* processTokenizationFeatures).  After a failed redaction the goroutines  *)
(* that are still at work race with DisableTokenization and with           *)
(* GenerateRedactionMapFile.                                               *)
(***************************************************************************)
MapCoversFiles ==
    ~failed =>
        /\ ~crashed
        /\ \A f \in Files : \A i \in DOMAIN out[f] :
             /\ out[f][i].token # Lost
             /\ out[f][i].token = Mask => out[f][i].secret.value = NoValue
             /\ main = "mapped" /\ out[f][i].token # Mask => out[f][i].token \in mapFile.tokens

(***************************************************************************)
(* The count of secrets that GetRedactionMap took with the lock is at      *)
(* least that of the tokens GenerateRedactionMapFile wrote later, and      *)
(* equal to it while no token is shared: what ValidateRedactionMapFile     *)
(* compares.                                                               *)
(***************************************************************************)
MapFileAddsUp ==
    main = "mapped" /\ ~failed =>
        /\ mapFile.secrets >= Cardinality(mapFile.tokens)
        /\ \/ mapFile.secrets = Cardinality(mapFile.tokens)
           \/ \E v, w \in Values : v # w /\ tokenMap[v] = tokenMap[w] /\ tokenMap[v] # NoToken

(***************************************************************************)
(* The redaction map tells what the redactors did: its statistics, its     *)
(* tokens and its count of secrets (GetRedactionMap,                       *)
(* GenerateRedactionMapFile).                                              *)
(***************************************************************************)
RedactionMapIsRight == StatsAddUp /\ MapCoversFiles /\ MapFileAddsUp

=============================================================================
