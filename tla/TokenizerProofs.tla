--------------------------- MODULE TokenizerProofs ---------------------------
(***************************************************************************)
(* Theorems about Tokenizer, for any secrets, hashes, files and bounds.    *)
(***************************************************************************)
EXTENDS Tokenizer, FiniteSetTheorems, TLAPS

LEMMA NoTokenIsNone == NoToken \notin Token
BY TokenizerAssumption DEF NoToken, Token

LEMMA CountIsNat ==
    ASSUME TypeOK
    PROVE  Cardinality(Bound(tokenMap, NoToken)) \in Nat
<1>1. Bound(tokenMap, NoToken) \subseteq Values
  BY DEF Bound, TypeOK
<1>2. IsFiniteSet(Bound(tokenMap, NoToken))
  BY <1>1, TokenizerAssumption, FS_Subset
<1> QED
  BY <1>2, FS_CardinalityType

\* The goroutines are typed, and know what they ask for.
WorkTyped ==
    /\ work \in [Files -> WorkState]
    /\ \A f \in Files : /\ work[f].pc \in Asking => work[f].at \in Occurrence
                        /\ work[f].pc = "lock" => work[f].at.value \in Values

\* What a lookup does to the tables keeps their types.
LEMMA TrackType ==
    ASSUME TypeOK, NEW p \in Paths, NEW key \in Values, NEW token \in Token, Track(p, key, token)
    PROVE  /\ refs' \in [Token -> SUBSET Paths]
           /\ groups' \in [Values -> Nat] /\ found' \in [Paths -> Nat]
BY DEF Track, TypeOK

LEMMA LookedType ==
    ASSUME TypeOK, NEW v \in Values, NEW hit \in BOOLEAN, Looked(v, hit)
    PROVE  cache' \in [hits : Nat, misses : Nat, total : Nat]
BY DEF Looked, TypeOK

\* A goroutine that writes an entry goes on with the match or reads on.
LEMMA PutType ==
    ASSUME TypeOK, NEW f \in Files, NEW token \in Token \cup {Mask, Lost},
           work[f].at \in Occurrence, Put(f, token)
    PROVE  out' \in [Files -> Seq(Entry)] /\ WorkTyped'
<1>1. [secret |-> work[f].at, token |-> token] \in Entry
  BY DEF Entry
<1>2. out' \in [Files -> Seq(Entry)]
  BY <1>1 DEF Put, TypeOK
<1>3. AfterPut(f) \in Between /\ AfterPut(f) \notin Asking
  BY DEF AfterPut, Between, Asking
<1>4. [pc |-> AfterPut(f), at |-> NoOccurrence] \in WorkState
  BY <1>3 DEF WorkState
<1>5. work' \in [Files -> WorkState]
  BY <1>4 DEF Put, TypeOK
<1>6. "lock" \in Asking
  BY DEF Asking
<1>7. \A g \in Files : /\ work'[g].pc \in Asking => work'[g].at \in Occurrence
                       /\ work'[g].pc = "lock" => work'[g].at.value \in Values
  BY <1>3, <1>6 DEF Put, TypeOK
<1> QED
  BY <1>2, <1>5, <1>7 DEF WorkTyped

LEMMA GotoType ==
    ASSUME TypeOK, NEW f \in Files, work[f].at \in Occurrence,
           NEW pc \in {"pattern", "value", "lock"}, Goto(f, pc),
           pc = "lock" => work[f].at.value \in Values
    PROVE  WorkTyped'
<1>1. PICK x : x = [work[f] EXCEPT !.pc = pc]
  OBVIOUS
<1>2. work' = [work EXCEPT ![f] = x]
  BY <1>1 DEF Goto
<1>3. x = [pc |-> pc, at |-> work[f].at]
  BY <1>1 DEF TypeOK, WorkState
<1>4. x \in WorkState
  BY <1>3 DEF WorkState, Asking
<1>5. work' \in [Files -> WorkState]
  BY <1>2, <1>4 DEF TypeOK
<1>6. \A g \in Files : /\ work'[g].pc \in Asking => work'[g].at \in Occurrence
                       /\ work'[g].pc = "lock" => work'[g].at.value \in Values
  BY <1>2, <1>3 DEF TypeOK
<1> QED
  BY <1>5, <1>6 DEF WorkTyped

LEMMA RestType ==
    ASSUME TypeOK, NEW f \in Files, NEW pc \in {"reading", "done", "failed"}, Goto(f, pc)
    PROVE  WorkTyped'
BY DEF Goto, TypeOK, WorkState, WorkTyped, Between, Asking

\* The lookup of TokenizeValueWithPath: the table has the secret or gets it.
LEMMA LookupType ==
    ASSUME TypeOK, NEW o \in Occurrence, o.value \in Values, NEW token \in Token,
           Known(o, token) \/ Fresh(o, token)
    PROVE  /\ tokenMap' \in [Values -> Token \cup {NoToken}]
           /\ reverseMap' \in [Token -> Values \cup {NoValue}]
           /\ refs' \in [Token -> SUBSET Paths]
           /\ groups' \in [Values -> Nat] /\ found' \in [Paths -> Nat]
           /\ cache' \in [hits : Nat, misses : Nat, total : Nat]
<1>1. o.path \in Paths /\ Normal[o.value] \in Values
  BY TokenizerAssumption DEF Occurrence
<1>2. CASE Known(o, token)
  BY <1>1, <1>2, TrackType, LookedType DEF Known, TypeOK
<1>3. CASE Fresh(o, token)
  BY <1>1, <1>3, TrackType, LookedType DEF Fresh, TypeOK
<1> QED
  BY <1>2, <1>3

(***************************************************************************)
(* Every step of the goroutines and of the bundle run keeps the types of   *)
(* the tables, of the goroutines and of the redaction map (TypeOK).        *)
(***************************************************************************)
THEOREM TypeCorrect == Spec => []TypeOK
<1>1. Init => TypeOK
  <2> SUFFICES ASSUME Init PROVE TypeOK
    OBVIOUS
  <2>1. [pc |-> "waiting", at |-> NoOccurrence] \in WorkState
    BY DEF WorkState
  <2>2. WorkTyped
    BY <2>1 DEF Init, WorkTyped, Asking
  <2>3. out \in [Files -> Seq(Entry)]
    BY DEF Init
  <2>4. /\ tokenMap \in [Values -> Token \cup {NoToken}]
        /\ reverseMap \in [Token -> Values \cup {NoValue}]
        /\ refs \in [Token -> SUBSET Paths]
        /\ groups \in [Values -> Nat] /\ found \in [Paths -> Nat]
        /\ cache \in [hits : Nat, misses : Nat, total : Nat]
    BY DEF Init
  <2>5. mapFile \in [tokens : SUBSET Token, secrets : Int]
    BY DEF Init, NoMap
  <2> QED
    <3>1. main \in {"collected", "redacting", "correlating", "marshalling", "mapped"}
      BY DEF Init
    <3>2. round \in 0 .. 2
      BY DEF Init
    <3>3. enabled \in BOOLEAN /\ failed \in BOOLEAN /\ crashed \in BOOLEAN
      BY DEF Init
    <3> QED
      BY <2>2, <2>3, <2>4, <2>5, <3>1, <3>2, <3>3 DEF TypeOK, WorkTyped
<1>2. TypeOK /\ [Next]_vars => TypeOK'
  <2> SUFFICES ASSUME TypeOK, [Next]_vars PROVE TypeOK'
    OBVIOUS
  <2>1. ASSUME NEW f \in Files, Start(f) PROVE TypeOK'
    BY <2>1, RestType DEF Start, bundleVars, tables, TypeOK, WorkTyped
  <2>2. ASSUME NEW f \in Files, NEW o \in Choices[f], Match(f, o) PROVE TypeOK'
    <3>1. o \in Occurrence
      BY TokenizerAssumption
    <3>2. PICK pc \in {"value", "look"} : work' = [work EXCEPT ![f] = [pc |-> pc, at |-> o]]
      BY <2>2 DEF Match
    <3>3. [pc |-> pc, at |-> o] \in WorkState
      BY <3>1 DEF WorkState, Asking
    <3>4. WorkTyped'
      BY <3>1, <3>2, <3>3 DEF TypeOK, WorkTyped
    <3> QED
      BY <2>2, <3>4 DEF Match, bundleVars, tables, TypeOK, WorkTyped
  <2>3. ASSUME NEW f \in Files, Look(f) PROVE TypeOK'
    <3>1. work[f].at \in Occurrence
      BY <2>3 DEF Look, TypeOK, Asking
    <3>2. CASE Put(f, Mask)
      BY <2>3, <3>1, <3>2, PutType DEF Look, bundleVars, tables, TypeOK, WorkTyped
    <3>3. CASE Goto(f, IF work[f].at.kind = "line" THEN "pattern" ELSE "value") /\ UNCHANGED out
      BY <2>3, <3>1, <3>3, GotoType DEF Look, bundleVars, tables, TypeOK, WorkTyped
    <3> QED
      BY <2>3, <3>2, <3>3 DEF Look
  <2>4. ASSUME NEW f \in Files, Pattern(f) PROVE TypeOK'
    <3>1. work[f].at \in Occurrence
      BY <2>4 DEF Pattern, TypeOK, Asking
    <3>2. CASE Put(f, Lost)
      BY <2>4, <3>1, <3>2, PutType DEF Pattern, bundleVars, tables, TypeOK, WorkTyped
    <3>3. CASE Goto(f, "value") /\ UNCHANGED out
      BY <2>4, <3>1, <3>3, GotoType DEF Pattern, bundleVars, tables, TypeOK, WorkTyped
    <3> QED
      BY <2>4, <3>2, <3>3 DEF Pattern
  <2>5. ASSUME NEW f \in Files, Enter(f) PROVE TypeOK'
    <3>1. work[f].at \in Occurrence
      BY <2>5 DEF Enter, TypeOK, Asking
    <3>2. CASE Put(f, Mask)
      BY <2>5, <3>1, <3>2, PutType DEF Enter, bundleVars, tables, TypeOK, WorkTyped
    <3>3. CASE work[f].at.value # NoValue /\ Goto(f, "lock") /\ UNCHANGED out
      <4>1. work[f].at.value \in Values
        BY <3>1, <3>3 DEF Occurrence
      <4> QED
        BY <2>5, <3>1, <3>3, <4>1, GotoType DEF Enter, bundleVars, tables, TypeOK, WorkTyped
    <3> QED
      BY <2>5, <3>2, <3>3 DEF Enter
  <2>6. ASSUME NEW f \in Files, Tokenize(f) PROVE TypeOK'
    <3>1. work[f].at \in Occurrence /\ work[f].at.value \in Values
      BY <2>6 DEF Tokenize, TypeOK, Asking
    <3>2. PICK token \in Token :
            /\ Known(work[f].at, token) \/ Fresh(work[f].at, token)
            /\ Put(f, token)
      BY <2>6 DEF Tokenize
    <3>3. crashed' \in BOOLEAN
      BY <2>6 DEF Tokenize, MayCrash
    <3> QED
      BY <2>6, <3>1, <3>2, <3>3, PutType, LookupType DEF Tokenize, TypeOK, WorkTyped
  <2>7. ASSUME NEW f \in Files, Replace(f) \/ Fail(f) PROVE TypeOK'
    BY <2>7, RestType DEF Replace, Fail, bundleVars, tables, TypeOK, WorkTyped
  <2>8. CASE RedactResult
    BY <2>8 DEF RedactResult, tables, TypeOK
  <2>9. CASE Redacted
    BY <2>9 DEF Redacted, tables, TypeOK
  <2>10. CASE processTokenizationFeatures
    BY <2>10 DEF processTokenizationFeatures, tables, TypeOK
  <2>11. CASE GetRedactionMap
    <3>1. mapFile' \in [tokens : SUBSET Token, secrets : Int]
      BY <2>11, CountIsNat DEF GetRedactionMap
    <3> QED
      BY <2>11, <3>1 DEF GetRedactionMap, tables, TypeOK
  <2>12. CASE GenerateRedactionMapFile
    <3>1. Bound(reverseMap, NoValue) \subseteq Token
      BY DEF Bound, TypeOK
    <3>2. mapFile' \in [tokens : SUBSET Token, secrets : Int]
      BY <2>12, <3>1 DEF GenerateRedactionMapFile, TypeOK
    <3> QED
      BY <2>12, <3>2 DEF GenerateRedactionMapFile, tables, TypeOK
  <2>13. CASE UNCHANGED vars
    BY <2>13 DEF vars, tables, TypeOK
  <2> QED
    BY <2>1, <2>2, <2>3, <2>4, <2>5, <2>6, <2>7, <2>8, <2>9, <2>10, <2>11, <2>12, <2>13 DEF Next
<1> QED
  BY <1>1, <1>2, PTL DEF Spec

\* Only a lookup that misses changes the two maps.
LEMMA OnlyFreshWrites ==
    ASSUME TypeOK, [Next]_vars, <<tokenMap, reverseMap>>' # <<tokenMap, reverseMap>>
    PROVE  \E o \in Occurrence, token \in Token : o.value \in Values /\ Fresh(o, token)
<1>1. CASE UNCHANGED vars
  BY <1>1 DEF vars, tables
<1>2. CASE \E f \in Files : Tokenize(f)
  <2>1. PICK f \in Files : Tokenize(f)
    BY <1>2
  <2>2. work[f].at \in Occurrence /\ work[f].at.value \in Values
    BY <2>1 DEF Tokenize, TypeOK, Asking
  <2>3. PICK token \in Token : Known(work[f].at, token) \/ Fresh(work[f].at, token)
    BY <2>1 DEF Tokenize
  <2> QED
    BY <2>2, <2>3 DEF Known
<1>3. CASE Next /\ ~\E f \in Files : Tokenize(f)
  BY <1>3 DEF Next, RedactResult, Redacted, processTokenizationFeatures, GetRedactionMap,
       GenerateRedactionMapFile, Start, Look, Pattern, Enter, Replace, Fail, Match, tables
<1> QED
  BY <1>1, <1>2, <1>3

\* A miss keeps the maps in agreement, whatever token the collision gave.
LEMMA FreshAgrees ==
    ASSUME TypeOK, MapsAgree, NEW o \in Occurrence, NEW token \in Token,
           o.value \in Values, Fresh(o, token)
    PROVE  MapsAgree'
<1> DEFINE key == Normal[o.value]
<1>1. o.value \in Values /\ key \in Values /\ NoValue \notin Values
  BY TokenizerAssumption
<1>2. /\ tokenMap[key] = NoToken
      /\ tokenMap' = [tokenMap EXCEPT ![key] = token]
      /\ reverseMap' = [reverseMap EXCEPT ![token] = o.value]
  BY DEF Fresh
<1>3. ASSUME NEW v \in Values, tokenMap'[v] # NoToken
      PROVE  reverseMap'[tokenMap'[v]] # NoValue
  BY <1>1, <1>2, <1>3 DEF MapsAgree, TypeOK
<1>4. ASSUME NEW t \in Token, reverseMap'[t] # NoValue
      PROVE  tokenMap'[Normal[reverseMap'[t]]] = t
  <2>1. CASE t = token
    BY <1>1, <1>2, <2>1 DEF TypeOK
  <2>2. CASE t # token
    <3>1. reverseMap'[t] = reverseMap[t] /\ reverseMap[t] \in Values
      BY <1>2, <1>4, <2>2 DEF TypeOK
    <3>2. tokenMap[Normal[reverseMap[t]]] = t
      BY <1>4, <3>1 DEF MapsAgree
    <3>3. Normal[reverseMap[t]] # key
      BY <1>2, <3>2, NoTokenIsNone
    <3> QED
      BY <1>2, <3>1, <3>2, <3>3, TokenizerAssumption DEF TypeOK
  <2> QED
    BY <2>1, <2>2
<1> QED
  BY <1>3, <1>4 DEF MapsAgree

\* The token of a miss is free or is held by the secret as it is now.
LEMMA FreshIsFree ==
    ASSUME NEW o \in Occurrence, NEW token \in Token, Fresh(o, token), ~token.stamped
    PROVE  reverseMap[token] \in {NoValue, Normal[o.value]}
<1> DEFINE key == Normal[o.value]
           base == Base[<<key, o.context>>]
<1>1. token \in resolveCollision(base, key)
  BY DEF Fresh, generateToken
<1>2. CASE Free(base, key) # {}
  BY <1>1, <1>2 DEF resolveCollision, Free, BaseToken
<1>3. CASE Free(base, key) = {}
  BY <1>1, <1>3 DEF resolveCollision, Stamped
<1> QED
  BY <1>2, <1>3

\* A miss gives a stable secret no token that another one has.
LEMMA FreshKeepsApart ==
    ASSUME TypeOK, MapsAgree, SecretsKeepApart,
           NEW o \in Occurrence, NEW token \in Token, o.value \in Values, Fresh(o, token)
    PROVE  SecretsKeepApart'
<1> DEFINE key == Normal[o.value]
<1>1. key \in Values /\ NoValue \notin Values
  BY TokenizerAssumption
<1>2. /\ tokenMap[key] = NoToken
      /\ tokenMap' = [tokenMap EXCEPT ![key] = token]
  BY DEF Fresh
<1>3. ASSUME NEW w \in Values, w # key, Stable(key), ~token.stamped, tokenMap[w] = token
      PROVE  FALSE
  <2>1. reverseMap[token] # NoValue
    BY <1>3, NoTokenIsNone DEF MapsAgree
  <2>2. reverseMap[token] = key
    BY <1>3, <2>1, FreshIsFree
  <2>3. tokenMap[key] = token
    BY <1>3, <2>1, <2>2 DEF MapsAgree, Stable
  <2> QED
    BY <1>2, <2>3, NoTokenIsNone
<1>4. ASSUME NEW v \in Values, NEW w \in Values, Stable(v), Stable(w), v # w,
             tokenMap'[v] # NoToken, ~tokenMap'[v].stamped
      PROVE  tokenMap'[w] # tokenMap'[v]
  <2>1. CASE v = key
    BY <1>1, <1>2, <1>3, <1>4, <2>1 DEF TypeOK
  <2>2. CASE w = key
    BY <1>1, <1>2, <1>3, <1>4, <2>2 DEF TypeOK
  <2>3. CASE v # key /\ w # key
    BY <1>1, <1>2, <1>4, <2>3 DEF TypeOK, SecretsKeepApart
  <2> QED
    BY <2>1, <2>2, <2>3
<1> QED
  BY <1>4 DEF SecretsKeepApart, Stable

(***************************************************************************)
(* The map of tokens and its reverse agree in every state, for every hash, *)
(* normalization and number of suffixes (TokenizeValueWithPath).           *)
(***************************************************************************)
THEOREM MapsStayInAgreement == Spec => []MapsAgree
<1>1. Init => MapsAgree
  BY TokenizerAssumption DEF Init, MapsAgree
<1>2. TypeOK /\ MapsAgree /\ [Next]_vars => MapsAgree'
  <2> SUFFICES ASSUME TypeOK, MapsAgree, [Next]_vars PROVE MapsAgree'
    OBVIOUS
  <2>1. CASE <<tokenMap, reverseMap>>' # <<tokenMap, reverseMap>>
    BY <2>1, OnlyFreshWrites, FreshAgrees
  <2>2. CASE <<tokenMap, reverseMap>>' = <<tokenMap, reverseMap>>
    BY <2>2 DEF MapsAgree
  <2> QED
    BY <2>1, <2>2
<1> QED
  BY <1>1, <1>2, TypeCorrect, PTL DEF Spec

(***************************************************************************)
(* Two stable secrets never share a token that carries no clock reading    *)
(* (resolveCollision), for every hash function, however many of its values *)
(* collide.                                                                *)
(***************************************************************************)
THEOREM SecretsStayApart == Spec => []SecretsKeepApart
<1>1. Init => SecretsKeepApart
  BY DEF Init, SecretsKeepApart
<1>2. TypeOK /\ MapsAgree /\ SecretsKeepApart /\ [Next]_vars => SecretsKeepApart'
  <2> SUFFICES ASSUME TypeOK, MapsAgree, SecretsKeepApart, [Next]_vars PROVE SecretsKeepApart'
    OBVIOUS
  <2>1. CASE <<tokenMap, reverseMap>>' # <<tokenMap, reverseMap>>
    BY <2>1, OnlyFreshWrites, FreshKeepsApart
  <2>2. CASE <<tokenMap, reverseMap>>' = <<tokenMap, reverseMap>>
    BY <2>2 DEF SecretsKeepApart, Stable
  <2> QED
    BY <2>1, <2>2
<1> QED
  BY <1>1, <1>2, TypeCorrect, MapsStayInAgreement, PTL DEF Spec

\* The token of a secret never changes once the table has it.
LEMMA TokensAreKept ==
    ASSUME TypeOK, [Next]_vars, NEW v \in Values, tokenMap[v] # NoToken
    PROVE  tokenMap'[v] = tokenMap[v]
<1>1. CASE <<tokenMap, reverseMap>>' # <<tokenMap, reverseMap>>
  <2>1. PICK o \in Occurrence, token \in Token : o.value \in Values /\ Fresh(o, token)
    BY <1>1, OnlyFreshWrites
  <2>2. Normal[o.value] \in Values /\ Normal[o.value] # v
    BY <2>1, TokenizerAssumption DEF Fresh, Occurrence
  <2> QED
    BY <2>1, <2>2 DEF Fresh, TypeOK
<1>2. CASE <<tokenMap, reverseMap>>' = <<tokenMap, reverseMap>>
  BY <1>2
<1> QED
  BY <1>1, <1>2

\* An entry that agrees with the table still agrees after a step.
LEMMA EntriesAreKept ==
    ASSUME TypeOK, [Next]_vars, NEW e \in Entry, Agrees(e)
    PROVE  Agrees(e)'
<1>1. CASE e.token \in {Mask, Lost}
  BY <1>1 DEF Agrees
<1>2. CASE e.secret.value \in Values /\ e.token \notin {Mask, Lost}
  <2>1. Normal[e.secret.value] \in Values
    BY <1>2, TokenizerAssumption
  <2>2. e.token \in Token /\ e.token = tokenMap[Normal[e.secret.value]]
    BY <1>2 DEF Agrees, Entry
  <2> QED
    BY <1>2, <2>1, <2>2, NoTokenIsNone, TokensAreKept DEF Agrees
<1> QED
  BY <1>1, <1>2 DEF Agrees

\* A step adds at most one entry, which agrees with the table it leaves.
LEMMA NewEntriesAgree ==
    ASSUME TypeOK, [Next]_vars, NEW f \in Files, NEW i \in DOMAIN out'[f]
    PROVE  \/ i \in DOMAIN out[f] /\ out'[f][i] = out[f][i]
           \/ Agrees(out[f][i])'
<1>1. CASE out' = out
  BY <1>1
<1>2. ASSUME NEW g \in Files, NEW token, Put(g, token),
             \/ token \in {Mask, Lost}
             \/ work[g].at.value \in Values /\ token = tokenMap'[Normal[work[g].at.value]]
      PROVE  (i \in DOMAIN out[f] /\ out'[f][i] = out[f][i]) \/ Agrees(out[f][i])'
  <2> DEFINE e == [secret |-> work[g].at, token |-> token]
  <2>1. out' = [out EXCEPT ![g] = Append(out[g], e)]
    BY <1>2 DEF Put
  <2>2. CASE f # g
    BY <2>1, <2>2 DEF TypeOK
  <2>3. CASE f = g
    <3>1. out[f] \in Seq(Entry) /\ out'[f] = Append(out[f], e)
      BY <2>1, <2>3 DEF TypeOK
    <3>2. i \in 1 .. Len(out[f]) + 1
      BY <3>1
    <3>3. CASE i = Len(out[f]) + 1
      <4>1. out'[f][i] = e
        BY <3>1, <3>3
      <4>2. out'[f][i].token = token /\ out'[f][i].secret.value = work[g].at.value
        BY <4>1
      <4> QED
        BY <1>2, <4>2 DEF Agrees
    <3>4. CASE i \in 1 .. Len(out[f])
      BY <3>1, <3>4
    <3> QED
      BY <3>2, <3>3, <3>4
  <2> QED
    BY <2>2, <2>3
<1>3. ASSUME NEW g \in Files, Tokenize(g)
      PROVE  \E token : /\ Put(g, token)
                        /\ work[g].at.value \in Values
                        /\ token = tokenMap'[Normal[work[g].at.value]]
  <2>1. PICK token \in Token :
          /\ Known(work[g].at, token) \/ Fresh(work[g].at, token)
          /\ Put(g, token)
    BY <1>3 DEF Tokenize
  <2>2. work[g].at.value \in Values /\ Normal[work[g].at.value] \in Values
    BY <1>3, TokenizerAssumption DEF Tokenize, TypeOK
  <2>3. tokenMap'[Normal[work[g].at.value]] = token
    BY <2>1, <2>2 DEF Known, Fresh, TypeOK
  <2> QED
    BY <2>1, <2>2, <2>3
<1>4. \/ out' = out
      \/ \E g \in Files : Tokenize(g) \/ Put(g, Mask) \/ Put(g, Lost)
  BY DEF Next, RedactResult, Redacted, processTokenizationFeatures, GetRedactionMap,
     GenerateRedactionMapFile, Start, Look, Pattern, Enter, Replace, Fail, Match, vars
<1> QED
  BY <1>1, <1>2, <1>3, <1>4

(***************************************************************************)
(* Whatever the table is asked for, by whichever goroutine and for         *)
(* whichever file, the token it gave is the one it still has for that      *)
(* secret (TokenizeValueWithPath under its lock), whatever was tokenized   *)
(* before or since.  Nothing is said of a secret that a redactor covers    *)
(* without asking for it: EverySecretHasItsToken is not a theorem.         *)
(***************************************************************************)
THEOREM TokensAreConsistent == Spec => []SameSecretSameToken
<1>1. Init => SameSecretSameToken
  BY DEF Init, SameSecretSameToken
<1>2. TypeOK /\ SameSecretSameToken /\ [Next]_vars => SameSecretSameToken'
  <2> SUFFICES ASSUME TypeOK, SameSecretSameToken, [Next]_vars,
                      NEW f \in Files, NEW i \in DOMAIN out'[f]
               PROVE  Agrees(out[f][i])'
    BY DEF SameSecretSameToken
  <2>1. CASE i \in DOMAIN out[f] /\ out'[f][i] = out[f][i]
    <3>1. PICK e \in Entry : e = out[f][i]
      BY <2>1 DEF TypeOK
    <3>2. Agrees(e)
      BY <2>1, <3>1 DEF SameSecretSameToken
    <3>3. Agrees(e)'
      BY <3>1, <3>2, EntriesAreKept
    <3> QED
      BY <2>1, <3>1, <3>3 DEF Agrees
  <2> QED
    BY <2>1, NewEntriesAgree
<1> QED
  BY <1>1, <1>2, TypeCorrect, PTL DEF Spec

-----------------------------------------------------------------------------
(***************************************************************************)
(* The redaction map.  While every redaction of results has succeeded, a   *)
(* goroutine is at work only while RedactResult waits for it, with         *)
(* tokenization enabled, and the tables rest once the last has ended.      *)
(***************************************************************************)
Enabled == {"redacting", "correlating", "marshalling"}

RoundInv ==
    /\ main \in {"correlating", "marshalling", "mapped"} => round = 2
    /\ ~failed => /\ ~crashed
                  /\ (enabled <=> main \in Enabled)
                  /\ \A f \in Files :
                       /\ Round[f] > round => work[f].pc = "waiting"
                       /\ Round[f] < round => work[f].pc = "done"
                       /\ Round[f] = round /\ main # "redacting" => work[f].pc = "done"

\* What is written while no redaction has failed.
Proper(e) == e.token \in Token \/ (e.token = Mask /\ e.secret.value = NoValue)

NoMasks == ~failed => \A f \in Files : \A i \in DOMAIN out[f] : Proper(out[f][i])

MapFileInv ==
    ~failed => /\ main \in {"marshalling", "mapped"} =>
                    mapFile.secrets = Cardinality(Bound(tokenMap, NoToken))
               /\ main = "mapped" => mapFile.tokens = Bound(reverseMap, NoValue)

LEMMA NotTokens == Mask \notin Token /\ Lost \notin Token /\ Mask # Lost
BY TokenizerAssumption DEF Mask, Lost, Token

\* a goroutine is at work
Busy(f) == work[f].pc \notin {"waiting", "done"}

LEMMA BusyWhileRedacting ==
    ASSUME TypeOK, RoundInv, ~failed, NEW f \in Files, Busy(f)
    PROVE  main = "redacting" /\ Round[f] = round /\ enabled
<1>1. Round[f] \in Int /\ round \in Int
  BY TokenizerAssumption DEF TypeOK
<1>2. ~(Round[f] > round) /\ ~(Round[f] < round)
  BY DEF RoundInv, Busy
<1>3. Round[f] = round
  BY <1>1, <1>2
<1> QED
  BY <1>3 DEF RoundInv, Busy, Enabled

\* A step of a goroutine that has started.
LEMMA BusyStep ==
    ASSUME TypeOK, RoundInv, NEW f \in Files, Busy(f), UNCHANGED <<enabled, main, round, failed>>,
           ~failed => ~crashed', \A g \in Files : g # f => work'[g] = work[g]
    PROVE  RoundInv'
<1>1. ~failed => main = "redacting" /\ Round[f] = round
  BY BusyWhileRedacting
<1>2. Round[f] \in Int
  BY TokenizerAssumption
<1>3. ~(Round[f] > Round[f]) /\ ~(Round[f] < Round[f])
  BY <1>2
<1> QED
  BY <1>1, <1>3 DEF RoundInv

LEMMA RoundStep ==
    ASSUME TypeOK, RoundInv, [Next]_vars
    PROVE  RoundInv'
<1>1. ASSUME NEW f \in Files, NEW x, Busy(f), work' = [work EXCEPT ![f] = x],
             UNCHANGED <<enabled, main, round, failed, crashed>>
      PROVE  RoundInv'
  <2>1. \A g \in Files : g # f => work'[g] = work[g]
    BY <1>1 DEF TypeOK
  <2>2. ~failed => ~crashed'
    BY <1>1 DEF RoundInv
  <2> QED
    BY <1>1, <2>1, <2>2, BusyStep
<1>2. ASSUME NEW f \in Files, NEW pc, Busy(f), Goto(f, pc),
             UNCHANGED <<enabled, main, round, failed, crashed>>
      PROVE  RoundInv'
  <2>1. work' = [work EXCEPT ![f] = [work[f] EXCEPT !.pc = pc]]
    BY <1>2 DEF Goto
  <2> QED
    BY <1>1, <1>2, <2>1
<1>3. ASSUME NEW f \in Files, NEW token, Busy(f), Put(f, token),
             UNCHANGED <<enabled, main, round, failed, crashed>>
      PROVE  RoundInv'
  BY <1>1, <1>3 DEF Put
<1>4. ASSUME NEW f \in Files, Start(f) PROVE RoundInv'
  <2>1. main = "redacting" /\ Round[f] = round /\ Round[f] \in Int
    BY <1>4, TokenizerAssumption DEF Start
  <2>2. \A g \in Files : g # f => work'[g] = work[g]
    BY <1>4 DEF Start, Goto, TypeOK
  <2>3. ~(Round[f] > Round[f]) /\ ~(Round[f] < Round[f])
    BY <2>1
  <2>4. UNCHANGED <<enabled, main, round, failed, crashed>>
    BY <1>4 DEF Start, bundleVars
  <2> QED
    BY <2>1, <2>2, <2>3, <2>4 DEF RoundInv
<1>5. ASSUME NEW f \in Files, NEW o, Match(f, o) PROVE RoundInv'
  <2>1. Busy(f) /\ UNCHANGED <<enabled, main, round, failed, crashed>>
    BY <1>5 DEF Match, Busy, Between, bundleVars
  <2> QED
    BY <1>1, <1>5, <2>1 DEF Match
<1>6. ASSUME NEW f \in Files, Look(f) \/ Pattern(f) \/ Enter(f) \/ Replace(f) \/ Fail(f)
      PROVE  RoundInv'
  <2>1. Busy(f) /\ UNCHANGED <<enabled, main, round, failed, crashed>>
    BY <1>6 DEF Look, Pattern, Enter, Replace, Fail, Busy, Between, bundleVars
  <2> QED
    BY <1>2, <1>3, <1>6, <2>1 DEF Look, Pattern, Enter, Replace, Fail
<1>7. ASSUME NEW f \in Files, Tokenize(f) PROVE RoundInv'
  <2>1. /\ Busy(f) /\ UNCHANGED <<enabled, main, round, failed>>
        /\ work' = [work EXCEPT ![f] = [pc |-> AfterPut(f), at |-> NoOccurrence]]
    BY <1>7 DEF Tokenize, Put, Busy
  <2>2. ~failed => ~crashed'
    BY <1>7, <2>1, BusyWhileRedacting DEF Tokenize, MayCrash
  <2>3. \A g \in Files : g # f => work'[g] = work[g]
    BY <2>1 DEF TypeOK
  <2> QED
    BY <2>1, <2>2, <2>3, BusyStep
<1>8. CASE RedactResult
  <2>1. /\ main = "collected" /\ round' = round + 1 /\ enabled' /\ main' = "redacting"
        /\ UNCHANGED <<work, failed, crashed>> /\ round \in Int
    BY <1>8 DEF RedactResult, TypeOK
  <2>2. \A f \in Files : /\ Round[f] > round + 1 => Round[f] > round
                         /\ Round[f] < round + 1 => Round[f] < round \/ Round[f] = round
    BY <2>1, TokenizerAssumption
  <2>3. enabled' = TRUE
    BY <1>8 DEF RedactResult
  <2> QED
    BY <2>1, <2>2, <2>3 DEF RoundInv, Enabled
<1>9. CASE Redacted
  <2>1. /\ main = "redacting" /\ main' = "collected" /\ enabled' = FALSE
        /\ failed' = (failed \/ \E f \in OfRound(round) : work[f].pc = "failed")
        /\ UNCHANGED <<work, round, crashed>>
        /\ \/ \E f \in OfRound(round) : work[f].pc = "failed"
           \/ \A f \in OfRound(round) : work[f].pc = "done"
    BY <1>9 DEF Redacted
  <2>2. ~failed' => ~failed /\ \A f \in Files : Round[f] = round => work[f].pc = "done"
    BY <2>1 DEF OfRound
  <2> QED
    BY <2>1, <2>2 DEF RoundInv, Enabled
<1>10. CASE processTokenizationFeatures \/ GetRedactionMap \/ GenerateRedactionMapFile
  BY <1>10 DEF processTokenizationFeatures, GetRedactionMap, GenerateRedactionMapFile, RoundInv,
       Enabled
<1>11. CASE UNCHANGED vars
  BY <1>11 DEF vars, RoundInv
<1> QED
  BY <1>4, <1>5, <1>6, <1>7, <1>8, <1>9, <1>10, <1>11 DEF Next

LEMMA RoundAlways == Spec => []RoundInv
<1>1. Init => RoundInv
  <2> SUFFICES ASSUME Init PROVE RoundInv
    OBVIOUS
  <2>1. \A f \in Files : ~(Round[f] < 0) /\ Round[f] # 0
    BY TokenizerAssumption
  <2> QED
    BY <2>1 DEF Init, RoundInv, Enabled
<1>2. TypeOK /\ RoundInv /\ [Next]_vars => RoundInv'
  BY RoundStep
<1> QED
  BY <1>1, <1>2, TypeCorrect, PTL DEF Spec

\* The steps that write to a file, and the steps that change the tables.
LEMMA Writes ==
    ASSUME [Next]_vars
    PROVE  \/ out' = out /\ UNCHANGED tables
           \/ \E f \in Files : Tokenize(f)
           \/ \E f \in Files : /\ Busy(f) /\ UNCHANGED <<failed, tables>>
                               /\ \/ ~enabled /\ (Put(f, Mask) \/ Put(f, Lost))
                                  \/ work[f].at.value = NoValue /\ Put(f, Mask)
  BY DEF Next, RedactResult, Redacted, processTokenizationFeatures, GetRedactionMap, Busy,
     GenerateRedactionMapFile, Start, Look, Pattern, Enter, Replace, Fail, Match, vars, bundleVars

LEMMA PutEntry ==
    ASSUME TypeOK, NEW f \in Files, NEW token, Put(f, token)
    PROVE  /\ \A g \in Files : g # f => out'[g] = out[g]
           /\ DOMAIN out[f] = 1 .. Len(out[f]) /\ Len(out[f]) \in Nat
           /\ DOMAIN out'[f] = 1 .. (Len(out[f]) + 1)
           /\ \A i \in 1 .. Len(out[f]) : out'[f][i] = out[f][i]
           /\ out'[f][Len(out[f]) + 1] = [secret |-> work[f].at, token |-> token]
<1>1. out' = [out EXCEPT ![f] = Append(out[f], [secret |-> work[f].at, token |-> token])]
  BY DEF Put
<1>2. PICK s : s = out[f]
  OBVIOUS
<1>3. PICK e : e = [secret |-> work[f].at, token |-> token]
  OBVIOUS
<1>4. s \in Seq(Entry) /\ out'[f] = Append(s, e) /\ \A g \in Files : g # f => out'[g] = out[g]
  BY <1>1, <1>2, <1>3 DEF TypeOK
<1>5. /\ DOMAIN s = 1 .. Len(s) /\ Len(s) \in Nat
      /\ DOMAIN Append(s, e) = 1 .. (Len(s) + 1)
      /\ \A i \in 1 .. Len(s) : Append(s, e)[i] = s[i]
      /\ Append(s, e)[Len(s) + 1] = e
  BY <1>4
<1> QED
  BY <1>2, <1>3, <1>4, <1>5

LEMMA NoMaskStep ==
    ASSUME TypeOK, RoundInv, NoMasks, [Next]_vars
    PROVE  NoMasks'
<1>1. failed => failed'
  BY DEF Next, RedactResult, Redacted, processTokenizationFeatures, GetRedactionMap, Tokenize,
     GenerateRedactionMapFile, Start, Look, Pattern, Enter, Replace, Fail, Match, vars, bundleVars
<1>2. CASE out' = out
  BY <1>1, <1>2 DEF NoMasks
<1>3. ASSUME NEW f \in Files, NEW token, Put(f, token),
             token \in Token \/ (token = Mask /\ work[f].at.value = NoValue)
      PROVE  NoMasks'
  <2>1. PICK l \in Nat : l = Len(out[f])
    BY <1>3, PutEntry
  <2>2. \A i \in 1 .. (l + 1) : i \in 1 .. l \/ i = l + 1
    BY <2>1
  <2>3. PICK e : e = [secret |-> work[f].at, token |-> token]
    OBVIOUS
  <2>4. Proper(e)
    BY <1>3, <2>3 DEF Proper
  <2>5. /\ \A g \in Files : g # f => out'[g] = out[g]
        /\ DOMAIN out[f] = 1 .. l /\ DOMAIN out'[f] = 1 .. (l + 1)
        /\ \A i \in 1 .. l : out'[f][i] = out[f][i]
        /\ out'[f][l + 1] = e
    <3>1. PICK n : n = Len(out[f])
      OBVIOUS
    <3>2. /\ \A g \in Files : g # f => out'[g] = out[g]
          /\ DOMAIN out[f] = 1 .. n /\ DOMAIN out'[f] = 1 .. (n + 1)
          /\ \A i \in 1 .. n : out'[f][i] = out[f][i]
          /\ out'[f][n + 1] = [secret |-> work[f].at, token |-> token]
      BY <1>3, <3>1, PutEntry
    <3> QED
      BY <2>1, <2>3, <3>1, <3>2
  <2>6. ASSUME ~failed, NEW g \in Files, NEW i \in DOMAIN out'[g]
        PROVE  Proper(out'[g][i])
    <3>1. CASE g # f
      BY <2>5, <2>6, <3>1 DEF NoMasks
    <3>2. CASE g = f /\ i = l + 1
      BY <2>4, <2>5, <3>2
    <3>3. CASE g = f /\ i \in 1 .. l
      <4>1. i \in DOMAIN out[f] /\ out'[f][i] = out[f][i]
        BY <2>5, <3>3
      <4> QED
        BY <2>6, <3>3, <4>1 DEF NoMasks
    <3> QED
      BY <2>2, <2>5, <2>6, <3>1, <3>2, <3>3
  <2>7. \A g \in Files : \A i \in DOMAIN out'[g] : Proper(out[g][i])' <=> Proper(out'[g][i])
    BY DEF Proper
  <2> QED
    BY <1>1, <2>6, <2>7 DEF NoMasks
<1>4. ASSUME NEW f \in Files, Busy(f), ~enabled, UNCHANGED failed PROVE NoMasks'
  BY <1>4, BusyWhileRedacting DEF NoMasks
<1>5. ASSUME NEW f \in Files, Tokenize(f) PROVE NoMasks'
  BY <1>3, <1>5 DEF Tokenize
<1> QED
  BY <1>2, <1>3, <1>4, <1>5, Writes

LEMMA MapFileStep ==
    ASSUME TypeOK, RoundInv, MapFileInv, [Next]_vars
    PROVE  MapFileInv'
<1>1. ASSUME UNCHANGED <<failed, main, mapFile, tables>> PROVE MapFileInv'
  BY <1>1 DEF MapFileInv, tables, Bound
<1>2. ASSUME NEW f \in Files, Tokenize(f) PROVE MapFileInv'
  <2>1. Busy(f) /\ UNCHANGED <<failed, main>>
    BY <1>2 DEF Tokenize, Busy
  <2> QED
    BY <2>1, BusyWhileRedacting DEF MapFileInv
<1>3. ASSUME NEW f \in Files,
             Start(f) \/ Look(f) \/ Pattern(f) \/ Enter(f) \/ Replace(f) \/ Fail(f)
             \/ \E o \in Choices[f] : Match(f, o)
      PROVE  MapFileInv'
  BY <1>1, <1>3 DEF Start, Look, Pattern, Enter, Replace, Fail, Match, bundleVars
<1>4. CASE RedactResult \/ Redacted \/ processTokenizationFeatures
  <2>1. main' \in {"redacting", "collected", "correlating"}
    BY <1>4 DEF RedactResult, Redacted, processTokenizationFeatures
  <2> QED
    BY <2>1 DEF MapFileInv
<1>5. CASE GetRedactionMap
  <2>1. /\ mapFile' = [tokens |-> {}, secrets |-> Cardinality(Bound(tokenMap, NoToken))]
        /\ main' = "marshalling" /\ tokenMap' = tokenMap
    BY <1>5 DEF GetRedactionMap, tables
  <2> QED
    BY <2>1 DEF MapFileInv, Bound
<1>6. CASE GenerateRedactionMapFile
  <2>1. /\ mapFile' = [mapFile EXCEPT !.tokens = Bound(reverseMap, NoValue)]
        /\ main = "marshalling" /\ main' = "mapped" /\ UNCHANGED <<failed, tokenMap, reverseMap>>
    BY <1>6 DEF GenerateRedactionMapFile, tables
  <2>2. /\ mapFile'.tokens = Bound(reverseMap, NoValue) /\ mapFile'.secrets = mapFile.secrets
    BY <2>1 DEF TypeOK
  <2> QED
    BY <2>1, <2>2 DEF MapFileInv, Bound
<1>7. CASE UNCHANGED vars
  BY <1>1, <1>7 DEF vars
<1> QED
  BY <1>2, <1>3, <1>4, <1>5, <1>6, <1>7 DEF Next

LEMMA MapFileAlways == Spec => [](NoMasks /\ MapFileInv)
<1>1. Init => NoMasks /\ MapFileInv
  BY DEF Init, NoMasks, MapFileInv
<1>2. /\ TypeOK /\ RoundInv /\ NoMasks /\ MapFileInv /\ [Next]_vars
      => (NoMasks /\ MapFileInv)'
  BY NoMaskStep, MapFileStep
<1> QED
  BY <1>1, <1>2, TypeCorrect, RoundAlways, PTL DEF Spec

\* Every token of the reverse map is that of a secret of the table.
LEMMA CountsCompare ==
    ASSUME TypeOK, MapsAgree, NEW secrets, NEW tokens,
           secrets = Bound(tokenMap, NoToken), tokens = Bound(reverseMap, NoValue)
    PROVE  /\ Cardinality(secrets) >= Cardinality(tokens)
           /\ \/ Cardinality(secrets) = Cardinality(tokens)
              \/ \E v, w \in Values : v # w /\ tokenMap[v] = tokenMap[w] /\ tokenMap[v] # NoToken
<1>1. /\ secrets \subseteq Values /\ \A v \in Values : v \in secrets <=> tokenMap[v] # NoToken
      /\ tokens \subseteq Token /\ \A t \in Token : t \in tokens <=> reverseMap[t] # NoValue
  BY DEF Bound, TypeOK
<1>2. IsFiniteSet(secrets)
  BY <1>1, TokenizerAssumption, FS_Subset
<1> DEFINE f == [v \in secrets |-> tokenMap[v]]
<1>3. \A v \in secrets : f[v] = tokenMap[v] /\ f[v] \in tokens
  BY <1>1 DEF MapsAgree, TypeOK
<1>4. ASSUME NEW t \in tokens PROVE \E v \in secrets : f[v] = t
  <2>1. t \in Token /\ reverseMap[t] \in Values /\ tokenMap[Normal[reverseMap[t]]] = t
    BY <1>1, <1>4 DEF MapsAgree, TypeOK
  <2>2. Normal[reverseMap[t]] \in secrets
    BY <1>1, <2>1, NoTokenIsNone, TokenizerAssumption
  <2> QED
    BY <2>1, <2>2
<1>5. f \in Surjection(secrets, tokens)
  BY <1>3, <1>4 DEF Surjection
<1> HIDE DEF f
<1>6. /\ IsFiniteSet(tokens) /\ Cardinality(tokens) <= Cardinality(secrets)
      /\ Cardinality(tokens) = Cardinality(secrets) <=> f \in Injection(secrets, tokens)
  BY <1>2, <1>5, FS_Surjection
<1>7. Cardinality(tokens) \in Nat /\ Cardinality(secrets) \in Nat
  BY <1>2, <1>6, FS_CardinalityType
<1>8. f \notin Injection(secrets, tokens) => \E v, w \in secrets : v # w /\ f[v] = f[w]
  BY <1>5 DEF Surjection, Injection, IsInjective
<1> QED
  BY <1>1, <1>3, <1>6, <1>7, <1>8

(***************************************************************************)
(* While every redaction of results has succeeded, the redaction map has   *)
(* every token that is written in a file, nothing is masked without a      *)
(* token but what is no text or an empty one, and the count of secrets     *)
(* that ValidateRedactionMapFile compares is larger than that of the       *)
(* tokens only where secrets share a token (GetRedactionMap,               *)
(* GenerateRedactionMapFile).                                              *)
(***************************************************************************)
THEOREM MapsCoverFiles == Spec => [](MapCoversFiles /\ MapFileAddsUp)
<1> DEFINE Inv == /\ TypeOK /\ RoundInv /\ NoMasks /\ MapFileInv
                  /\ MapsAgree /\ SameSecretSameToken
<1>1. Inv => MapCoversFiles
  <2> SUFFICES ASSUME Inv, ~failed PROVE
                 /\ ~crashed
                 /\ \A f \in Files : \A i \in DOMAIN out[f] :
                      /\ out[f][i].token # Lost
                      /\ out[f][i].token = Mask => out[f][i].secret.value = NoValue
                      /\ main = "mapped" /\ out[f][i].token # Mask
                           => out[f][i].token \in mapFile.tokens
    BY DEF MapCoversFiles
  <2>1. ~crashed
    BY DEF RoundInv
  <2>2. ASSUME NEW f \in Files, NEW i \in DOMAIN out[f]
        PROVE  /\ out[f][i].token # Lost
               /\ out[f][i].token = Mask => out[f][i].secret.value = NoValue
    BY NotTokens DEF NoMasks, Proper
  <2>3. ASSUME main = "mapped", NEW f \in Files, NEW i \in DOMAIN out[f], out[f][i].token # Mask
        PROVE  out[f][i].token \in mapFile.tokens
    <3>1. PICK e \in Entry : e = out[f][i]
      BY DEF TypeOK
    <3>2. e.token \in Token /\ Agrees(e)
      BY <2>3, <3>1 DEF NoMasks, Proper, SameSecretSameToken
    <3>3. e.secret.value \in Values /\ e.token = tokenMap[Normal[e.secret.value]]
      BY <3>2, NotTokens DEF Agrees
    <3>4. PICK v \in Values : v = Normal[e.secret.value]
      BY <3>3, TokenizerAssumption
    <3>5. e.token = tokenMap[v] /\ tokenMap[v] # NoToken
      BY <3>2, <3>3, <3>4, NoTokenIsNone
    <3>6. reverseMap[e.token] # NoValue
      BY <3>5 DEF MapsAgree
    <3>7. e.token \in Bound(reverseMap, NoValue)
      BY <3>2, <3>6 DEF Bound, TypeOK
    <3> QED
      BY <2>3, <3>1, <3>7 DEF MapFileInv
  <2> QED
    BY <2>1, <2>2, <2>3
<1>2. Inv => MapFileAddsUp
  BY CountsCompare DEF MapFileInv, MapFileAddsUp
<1> QED
  BY <1>1, <1>2, TypeCorrect, RoundAlways, MapFileAlways, MapsStayInAgreement,
     TokensAreConsistent, PTL

-----------------------------------------------------------------------------
(***************************************************************************)
(* The statistics.  AllTokenized grows by one place with every lookup.     *)
(***************************************************************************)

FoundAt(p) == {q \in AllTokenized : At(q).secret.path = p}
Of(v) == {q \in AllTokenized : Normal[At(q).secret.value] = v}
Unstable == {q \in AllTokenized : ~Stable(At(q).secret.value)}
PathsOf(t) == {At(q).secret.path : q \in {q \in AllTokenized : At(q).token = t}}

StatsInv == IsFiniteSet(AllTokenized) /\ StatsAddUp

LEMMA AllTokenizedIs ==
    \A p : p \in AllTokenized <=> \E f \in Files : \E i \in Tokenized(f) : p = <<f, i>>
  BY DEF AllTokenized

LEMMA AddMask ==
    ASSUME TypeOK, NEW f \in Files, NEW token \in {Mask, Lost}, Put(f, token)
    PROVE  /\ \A g \in Files : Tokenized(g)' = Tokenized(g)
           /\ \A g \in Files : \A i \in Tokenized(g) : out'[g][i] = out[g][i]
<1>1. PICK l \in Nat : l = Len(out[f]) /\ DOMAIN out[f] = 1 .. l
  BY PutEntry
<1>2. PICK e : e = [secret |-> work[f].at, token |-> token]
  OBVIOUS
<1>3. /\ \A g \in Files : g # f => out'[g] = out[g]
      /\ DOMAIN out'[f] = 1 .. (l + 1) /\ out'[f][l + 1] = e
      /\ \A i \in 1 .. l : out'[f][i] = out[f][i]
  <2>1. PICK n : n = Len(out[f])
    OBVIOUS
  <2>2. /\ \A g \in Files : g # f => out'[g] = out[g]
        /\ DOMAIN out'[f] = 1 .. (n + 1) /\ \A i \in 1 .. n : out'[f][i] = out[f][i]
        /\ out'[f][n + 1] = [secret |-> work[f].at, token |-> token]
    BY <2>1, PutEntry
  <2> QED
    BY <1>1, <1>2, <2>1, <2>2
<1>4. e.token \in {Mask, Lost}
  BY <1>2
<1>5. \A i \in 1 .. (l + 1) : i \in 1 .. l \/ i = l + 1
  BY <1>1
<1>6. \A i \in 1 .. l : i \in 1 .. (l + 1) /\ i # l + 1
  BY <1>1
<1>7. Tokenized(f)' = Tokenized(f)
  BY <1>1, <1>3, <1>4, <1>5, <1>6 DEF Tokenized
<1>8. \A g \in Files : g # f => Tokenized(g)' = Tokenized(g)
  BY <1>3 DEF Tokenized
<1>9. \A i \in Tokenized(f) : out'[f][i] = out[f][i]
  BY <1>1, <1>3 DEF Tokenized
<1> QED
  BY <1>3, <1>7, <1>8, <1>9

LEMMA AddToken ==
    ASSUME TypeOK, NEW f \in Files, NEW token \in Token, Put(f, token), NEW l, l = Len(out[f])
    PROVE  /\ Tokenized(f)' = Tokenized(f) \cup {l + 1} /\ l + 1 \notin Tokenized(f)
           /\ \A g \in Files : g # f => Tokenized(g)' = Tokenized(g)
           /\ \A g \in Files : \A i \in Tokenized(g) : out'[g][i] = out[g][i]
           /\ out'[f][l + 1] = [secret |-> work[f].at, token |-> token]
<1>1. l \in Nat /\ DOMAIN out[f] = 1 .. l
  BY PutEntry
<1>2. PICK e : e = [secret |-> work[f].at, token |-> token]
  OBVIOUS
<1>3. /\ \A g \in Files : g # f => out'[g] = out[g]
      /\ DOMAIN out'[f] = 1 .. (l + 1) /\ out'[f][l + 1] = e
      /\ \A i \in 1 .. l : out'[f][i] = out[f][i]
  <2>1. PICK n : n = Len(out[f])
    OBVIOUS
  <2>2. /\ \A g \in Files : g # f => out'[g] = out[g]
        /\ DOMAIN out'[f] = 1 .. (n + 1) /\ \A i \in 1 .. n : out'[f][i] = out[f][i]
        /\ out'[f][n + 1] = [secret |-> work[f].at, token |-> token]
    BY <2>1, PutEntry
  <2> QED
    BY <1>2, <2>1, <2>2
<1>4. e.token \notin {Mask, Lost}
  BY <1>2, NotTokens
<1>5. \A i \in 1 .. (l + 1) : i \in 1 .. l \/ i = l + 1
  BY <1>1
<1>6. l + 1 \in 1 .. (l + 1) /\ \A i \in 1 .. l : i \in 1 .. (l + 1) /\ i # l + 1
  BY <1>1
<1>7. Tokenized(f)' = Tokenized(f) \cup {l + 1} /\ l + 1 \notin Tokenized(f)
  <2>1. \A i : i \in Tokenized(f) <=> i \in 1 .. l /\ out[f][i].token \notin {Mask, Lost}
    BY <1>1 DEF Tokenized
  <2>2. \A i : i \in Tokenized(f)' <=> i \in 1 .. (l + 1) /\ out'[f][i].token \notin {Mask, Lost}
    BY <1>3 DEF Tokenized
  <2>3. \A i : i \in Tokenized(f)' <=> i \in Tokenized(f) \/ i = l + 1
    BY <1>3, <1>4, <1>5, <1>6, <2>1, <2>2
  <2>4. l + 1 \notin Tokenized(f)
    BY <1>6, <2>1
  <2> QED
    BY <2>3, <2>4
<1>8. \A g \in Files : g # f => Tokenized(g)' = Tokenized(g)
  BY <1>3 DEF Tokenized
<1>9. \A i \in Tokenized(f) : out'[f][i] = out[f][i]
  BY <1>1, <1>3 DEF Tokenized
<1> QED
  BY <1>2, <1>3, <1>7, <1>8, <1>9

\* An entry with a token is one more place, and leaves the others alone.
LEMMA AddPlace ==
    ASSUME TypeOK, NEW f \in Files, NEW token \in Token, Put(f, token),
           NEW o, o = work[f].at
    PROVE  \E q : /\ q \notin AllTokenized /\ AllTokenized' = AllTokenized \cup {q}
                  /\ \A p \in AllTokenized : At(p)' = At(p)
                  /\ At(q)' = [secret |-> o, token |-> token]
<1>1. PICK l : l = Len(out[f])
  OBVIOUS
<1>2. /\ Tokenized(f)' = Tokenized(f) \cup {l + 1} /\ l + 1 \notin Tokenized(f)
      /\ \A g \in Files : g # f => Tokenized(g)' = Tokenized(g)
      /\ \A g \in Files : \A i \in Tokenized(g) : out'[g][i] = out[g][i]
      /\ out'[f][l + 1] = [secret |-> o, token |-> token]
  BY <1>1, AddToken
<1>3. PICK m : m = l + 1
  OBVIOUS
<1>4. PICK q : q = <<f, m>>
  OBVIOUS
<1>5. \A p : p \in AllTokenized' <=> \E g \in Files : \E i \in Tokenized(g)' : p = <<g, i>>
  BY DEF AllTokenized
<1>6. \A p : p \in AllTokenized' <=> p \in AllTokenized \/ p = q
  BY <1>2, <1>3, <1>4, <1>5, AllTokenizedIs
<1>7. q \notin AllTokenized
  BY <1>2, <1>3, <1>4, AllTokenizedIs
<1>8. ASSUME NEW p \in AllTokenized PROVE At(p)' = At(p)
  <2>0. PICK g \in Files : \E i \in Tokenized(g) : p = <<g, i>>
    BY <1>8, AllTokenizedIs
  <2>1. PICK i \in Tokenized(g) : p = <<g, i>>
    BY <2>0
  <2>2. out'[g][i] = out[g][i]
    BY <1>2, <2>1
  <2>3. p[1] = g /\ p[2] = i
    BY <2>1
  <2> QED
    BY <2>2, <2>3 DEF At
<1>9. At(q)' = [secret |-> o, token |-> token]
  BY <1>2, <1>3, <1>4 DEF At
<1>10. AllTokenized' = AllTokenized \cup {q}
  BY <1>6
<1> QED
  BY <1>7, <1>8, <1>9, <1>10

LEMMA OneMore ==
    ASSUME NEW S, IsFiniteSet(S), NEW q, q \notin S
    PROVE  /\ IsFiniteSet(S \cup {q}) /\ Cardinality(S \cup {q}) = Cardinality(S) + 1
           /\ Cardinality(S) \in Nat
  BY FS_AddElement, FS_CardinalityType

\* What a part of a set gains with a place that the set did not have.
LEMMA PartGrows ==
    ASSUME NEW All, IsFiniteSet(All), NEW S, S \subseteq All, NEW q, q \notin All
    PROVE  /\ Cardinality(S) \in Nat
           /\ Cardinality(S \cup {q}) = Cardinality(S) + 1
<1>1. IsFiniteSet(S) /\ q \notin S
  BY FS_Subset
<1> QED
  BY <1>1, OneMore

\* What one more lookup does to the places the statistics count.
LEMMA CountsGrow ==
    ASSUME TypeOK, StatsInv, NEW f \in Files, NEW token \in Token, Put(f, token),
           NEW o, o = work[f].at
    PROVE  /\ IsFiniteSet(AllTokenized')
           /\ Cardinality(AllTokenized') = Cardinality(AllTokenized) + 1
           /\ \A p \in Paths : /\ Cardinality(FoundAt(p)) \in Nat
                               /\ Cardinality(FoundAt(p)') =
                                    Cardinality(FoundAt(p)) + (IF p = o.path THEN 1 ELSE 0)
           /\ \A v \in Values : /\ Cardinality(Of(v)) \in Nat
                                /\ Cardinality(Of(v)') =
                                     Cardinality(Of(v)) + (IF v = Normal[o.value] THEN 1 ELSE 0)
           /\ Cardinality(Unstable') =
                Cardinality(Unstable) + (IF Normal[o.value] = o.value THEN 0 ELSE 1)
           /\ Cardinality(AllTokenized) \in Nat /\ Cardinality(Unstable) \in Nat
           /\ \A t \in Token : PathsOf(t)' = IF t = token THEN PathsOf(t) \cup {o.path}
                                             ELSE PathsOf(t)
<1>1. PICK q : /\ q \notin AllTokenized /\ AllTokenized' = AllTokenized \cup {q}
               /\ \A p \in AllTokenized : At(p)' = At(p)
               /\ At(q)' = [secret |-> o, token |-> token]
  BY AddPlace
<1>2. At(q)'.secret.path = o.path /\ At(q)'.secret.value = o.value /\ At(q)'.token = token
  BY <1>1
<1>3. IsFiniteSet(AllTokenized)
  BY DEF StatsInv
<1>4. /\ IsFiniteSet(AllTokenized') /\ Cardinality(AllTokenized') = Cardinality(AllTokenized) + 1
      /\ Cardinality(AllTokenized) \in Nat
  BY <1>1, <1>3, OneMore
<1>5. ASSUME NEW p \in Paths
      PROVE  /\ Cardinality(FoundAt(p)) \in Nat
             /\ Cardinality(FoundAt(p)') =
                  Cardinality(FoundAt(p)) + (IF p = o.path THEN 1 ELSE 0)
  <2>1. FoundAt(p) \subseteq AllTokenized
    BY DEF FoundAt
  <2>2. FoundAt(p)' = IF p = o.path THEN FoundAt(p) \cup {q} ELSE FoundAt(p)
    BY <1>1, <1>2 DEF FoundAt
  <2>3. /\ Cardinality(FoundAt(p)) \in Nat
        /\ Cardinality(FoundAt(p) \cup {q}) = Cardinality(FoundAt(p)) + 1
    BY <1>1, <1>3, <2>1, PartGrows
  <2>4. CASE p = o.path
    BY <2>2, <2>3, <2>4
  <2>5. CASE p # o.path
    BY <2>2, <2>3, <2>5
  <2> QED
    BY <2>4, <2>5
<1>6. ASSUME NEW v \in Values
      PROVE  /\ Cardinality(Of(v)) \in Nat
             /\ Cardinality(Of(v)') = Cardinality(Of(v)) + (IF v = Normal[o.value] THEN 1 ELSE 0)
  <2>1. Of(v) \subseteq AllTokenized
    BY DEF Of
  <2>2. Of(v)' = IF v = Normal[o.value] THEN Of(v) \cup {q} ELSE Of(v)
    BY <1>1, <1>2 DEF Of
  <2>3. /\ Cardinality(Of(v)) \in Nat
        /\ Cardinality(Of(v) \cup {q}) = Cardinality(Of(v)) + 1
    BY <1>1, <1>3, <2>1, PartGrows
  <2>4. CASE v = Normal[o.value]
    BY <2>2, <2>3, <2>4
  <2>5. CASE v # Normal[o.value]
    BY <2>2, <2>3, <2>5
  <2> QED
    BY <2>4, <2>5
<1>7. /\ Cardinality(Unstable') =
           Cardinality(Unstable) + (IF Normal[o.value] = o.value THEN 0 ELSE 1)
      /\ Cardinality(Unstable) \in Nat
  <2>1. Unstable \subseteq AllTokenized
    BY DEF Unstable
  <2>2. Unstable' = IF ~Stable(o.value) THEN Unstable \cup {q} ELSE Unstable
    BY <1>1, <1>2 DEF Unstable, Stable
  <2> QED
    BY <1>1, <1>3, <2>1, <2>2, PartGrows DEF Stable
<1>8. ASSUME NEW t \in Token
      PROVE  PathsOf(t)' = IF t = token THEN PathsOf(t) \cup {o.path} ELSE PathsOf(t)
  <2>1. \A x : x \in PathsOf(t) <=>
           \E p \in AllTokenized : At(p).token = t /\ x = At(p).secret.path
    BY DEF PathsOf
  <2>2. \A x : x \in PathsOf(t)' <=>
           \E p \in AllTokenized' : At(p)'.token = t /\ x = At(p)'.secret.path
    BY DEF PathsOf
  <2>3. \A x : x \in PathsOf(t)' <=> x \in PathsOf(t) \/ (t = token /\ x = o.path)
    BY <1>1, <1>2, <2>1, <2>2
  <2>4. CASE t = token
    BY <2>3, <2>4
  <2>5. CASE t # token
    BY <2>3, <2>5
  <2> QED
    BY <2>4, <2>5
<1> QED
  BY <1>4, <1>5, <1>6, <1>7, <1>8

LEMMA StatsAre ==
    StatsAddUp <=>
      /\ \A p \in Paths : found[p] = Cardinality(FoundAt(p))
      /\ \A v \in Values : groups[v] = Cardinality(Of(v))
      /\ \A t \in Token : refs[t] = PathsOf(t)
      /\ cache.misses = Cardinality(Bound(tokenMap, NoToken))
      /\ cache.hits + cache.misses = Cardinality(AllTokenized)
      /\ cache.total = Cardinality(AllTokenized) + Cardinality(Unstable)
  BY DEF StatsAddUp, FoundAt, Of, Unstable, PathsOf

\* The secrets of the table grow by one with a secret that was not in it.
LEMMA SecretsGrow ==
    ASSUME TypeOK, NEW o \in Occurrence, o.value \in Values, NEW token \in Token
    PROVE  /\ Known(o, token) =>
                Cardinality(Bound(tokenMap, NoToken)') = Cardinality(Bound(tokenMap, NoToken))
           /\ Fresh(o, token) =>
                Cardinality(Bound(tokenMap, NoToken)') = Cardinality(Bound(tokenMap, NoToken)) + 1
<1>1. PICK key \in Values : key = Normal[o.value]
  BY TokenizerAssumption
<1>2. PICK secrets : secrets = Bound(tokenMap, NoToken)
  OBVIOUS
<1>3. secrets \subseteq Values /\ IsFiniteSet(secrets)
  BY <1>2, TokenizerAssumption, FS_Subset DEF Bound, TypeOK
<1>4. ASSUME Fresh(o, token)
      PROVE  Cardinality(Bound(tokenMap, NoToken)') = Cardinality(Bound(tokenMap, NoToken)) + 1
  <2>1. tokenMap[key] = NoToken /\ tokenMap' = [tokenMap EXCEPT ![key] = token]
    BY <1>1, <1>4 DEF Fresh
  <2>2. key \notin secrets
    BY <1>2, <2>1 DEF Bound
  <2>3. Bound(tokenMap, NoToken)' = secrets \cup {key}
    BY <1>2, <2>1, NoTokenIsNone DEF Bound, TypeOK
  <2> QED
    BY <1>2, <1>3, <2>2, <2>3, OneMore
<1>5. Known(o, token) => Bound(tokenMap, NoToken)' = Bound(tokenMap, NoToken)
  BY DEF Known, Bound
<1> QED
  BY <1>4, <1>5

LEMMA TokenizeStats ==
    ASSUME TypeOK, StatsInv, NEW f \in Files, Tokenize(f)
    PROVE  StatsInv'
<1>1. PICK o \in Occurrence : o = work[f].at
  BY DEF Tokenize, TypeOK, Asking
<1>2. PICK token \in Token : Put(f, token) /\ (Known(o, token) \/ Fresh(o, token))
  BY <1>1 DEF Tokenize
<1>3. o.value \in Values /\ o.path \in Paths
  BY <1>1 DEF Tokenize, TypeOK, Occurrence
<1>4. PICK key \in Values : key = Normal[o.value]
  BY <1>3, TokenizerAssumption
<1>5. /\ IsFiniteSet(AllTokenized')
      /\ Cardinality(AllTokenized') = Cardinality(AllTokenized) + 1
      /\ \A p \in Paths : /\ Cardinality(FoundAt(p)) \in Nat
                          /\ Cardinality(FoundAt(p)') =
                               Cardinality(FoundAt(p)) + (IF p = o.path THEN 1 ELSE 0)
      /\ \A v \in Values : /\ Cardinality(Of(v)) \in Nat
                           /\ Cardinality(Of(v)') =
                                Cardinality(Of(v)) + (IF v = key THEN 1 ELSE 0)
      /\ Cardinality(Unstable') = Cardinality(Unstable) + (IF key = o.value THEN 0 ELSE 1)
      /\ Cardinality(AllTokenized) \in Nat /\ Cardinality(Unstable) \in Nat
      /\ \A t \in Token : PathsOf(t)' = IF t = token THEN PathsOf(t) \cup {o.path}
                                        ELSE PathsOf(t)
  BY <1>1, <1>2, <1>4, CountsGrow
<1>6. Track(o.path, key, token)
  BY <1>2, <1>4 DEF Known, Fresh
<1>7. \A p \in Paths : found'[p] = Cardinality(FoundAt(p)')
  BY SMTT(30), <1>3, <1>5, <1>6, StatsAre DEF Track, TypeOK, StatsInv
<1>8. \A v \in Values : groups'[v] = Cardinality(Of(v)')
  BY SMTT(30), <1>5, <1>6, StatsAre DEF Track, TypeOK, StatsInv
<1>9. \A t \in Token : refs'[t] = PathsOf(t)'
  <2>1. refs' = [refs EXCEPT ![token] = refs[token] \cup {o.path}]
    BY <1>6 DEF Track
  <2>2. \A t \in Token : refs[t] = PathsOf(t)
    BY StatsAre DEF StatsInv
  <2>3. \A t \in Token : refs'[t] = IF t = token THEN refs[t] \cup {o.path} ELSE refs[t]
    BY <2>1 DEF TypeOK
  <2> QED
    BY <1>5, <2>2, <2>3
<1>10. /\ cache'.misses = Cardinality(Bound(tokenMap, NoToken)')
       /\ cache'.hits + cache'.misses = Cardinality(AllTokenized')
       /\ cache'.total = Cardinality(AllTokenized') + Cardinality(Unstable')
  <2>1. PICK hits \in Nat, misses \in Nat, total \in Nat :
           hits = cache.hits /\ misses = cache.misses /\ total = cache.total
    BY DEF TypeOK
  <2>2. /\ misses = Cardinality(Bound(tokenMap, NoToken))
        /\ hits + misses = Cardinality(AllTokenized)
        /\ total = Cardinality(AllTokenized) + Cardinality(Unstable)
    BY <2>1, StatsAre DEF StatsInv
  <2>3. cache'.total = total + (IF key = o.value THEN 1 ELSE 2)
    BY <1>2, <1>4, <2>1 DEF Known, Fresh, Looked
  <2>4. cache'.total = Cardinality(AllTokenized') + Cardinality(Unstable')
    BY <1>5, <2>2, <2>3
  <2>5. CASE Known(o, token)
    <3>1. cache'.hits = hits + 1 /\ cache'.misses = misses + 0
      BY <2>1, <2>5 DEF Known, Looked
    <3>2. Cardinality(Bound(tokenMap, NoToken)') = misses
      BY <1>3, <2>2, <2>5, SecretsGrow
    <3> QED
      BY <1>5, <2>2, <2>4, <3>1, <3>2
  <2>6. CASE Fresh(o, token)
    <3>1. cache'.hits = hits + 0 /\ cache'.misses = misses + 1
      BY <2>1, <2>6 DEF Fresh, Looked
    <3>2. Cardinality(Bound(tokenMap, NoToken)') = misses + 1
      BY <1>3, <2>2, <2>6, SecretsGrow
    <3> QED
      BY <1>5, <2>2, <2>4, <3>1, <3>2
  <2> QED
    BY <1>2, <2>5, <2>6
<1>11. StatsAddUp'
  BY <1>7, <1>8, <1>9, <1>10 DEF StatsAddUp, FoundAt, Of, Unstable, PathsOf
<1> QED
  BY <1>5, <1>11 DEF StatsInv

\* A secret that is masked or lost is not counted.
LEMMA MaskStats ==
    ASSUME TypeOK, StatsInv, UNCHANGED tables,
           \/ out' = out
           \/ \E f \in Files : Put(f, Mask) \/ Put(f, Lost)
    PROVE  StatsInv'
<1>1. /\ \A g \in Files : Tokenized(g)' = Tokenized(g)
      /\ \A g \in Files : \A i \in Tokenized(g) : out'[g][i] = out[g][i]
  <2>1. CASE out' = out
    BY <2>1 DEF Tokenized
  <2>2. CASE \E f \in Files : Put(f, Mask) \/ Put(f, Lost)
    <3>1. PICK f \in Files : \E token \in {Mask, Lost} : Put(f, token)
      BY <2>2
    <3>2. PICK token \in {Mask, Lost} : Put(f, token)
      BY <3>1
    <3> QED
      BY <3>2, AddMask
  <2> QED
    BY <2>1, <2>2
<1>2. AllTokenized' = AllTokenized
  <2>1. \A p : p \in AllTokenized' <=> \E g \in Files : \E i \in Tokenized(g)' : p = <<g, i>>
    BY DEF AllTokenized
  <2>2. \A p : p \in AllTokenized' <=> p \in AllTokenized
    BY <1>1, <2>1, AllTokenizedIs
  <2> QED
    BY <2>2
<1>3. ASSUME NEW p \in AllTokenized PROVE At(p)' = At(p)
  <2>0. PICK g \in Files : \E i \in Tokenized(g) : p = <<g, i>>
    BY <1>3, AllTokenizedIs
  <2>1. PICK i \in Tokenized(g) : p = <<g, i>>
    BY <2>0
  <2>2. p[1] = g /\ p[2] = i /\ out'[g][i] = out[g][i]
    BY <1>1, <2>1
  <2> QED
    BY <2>2 DEF At
<1>4. (\A p \in Paths : FoundAt(p)' = FoundAt(p)) /\ (\A v \in Values : Of(v)' = Of(v))
  BY <1>2, <1>3 DEF FoundAt, Of
<1>5. Unstable' = Unstable
  BY <1>2, <1>3 DEF Unstable, Stable
<1>6. \A t \in Token : PathsOf(t)' = PathsOf(t)
  <2>1. ASSUME NEW t \in Token
        PROVE  \A x : x \in PathsOf(t)' <=> x \in PathsOf(t)
    <3>1. \A x : x \in PathsOf(t) <=>
             \E p \in AllTokenized : At(p).token = t /\ x = At(p).secret.path
      BY DEF PathsOf
    <3>2. \A x : x \in PathsOf(t)' <=>
             \E p \in AllTokenized' : At(p)'.token = t /\ x = At(p)'.secret.path
      BY DEF PathsOf
    <3> QED
      BY <1>2, <1>3, <3>1, <3>2
  <2> QED
    BY <2>1
<1>7. Bound(tokenMap, NoToken)' = Bound(tokenMap, NoToken)
  BY DEF tables, Bound
<1>8. StatsAddUp'
  <2>1. /\ \A p \in Paths : found'[p] = Cardinality(FoundAt(p)')
        /\ \A v \in Values : groups'[v] = Cardinality(Of(v)')
        /\ \A t \in Token : refs'[t] = PathsOf(t)'
        /\ cache'.misses = Cardinality(Bound(tokenMap, NoToken)')
        /\ cache'.hits + cache'.misses = Cardinality(AllTokenized')
        /\ cache'.total = Cardinality(AllTokenized') + Cardinality(Unstable')
    BY <1>2, <1>4, <1>5, <1>6, <1>7, StatsAre DEF StatsInv, tables
  <2> QED
    BY <2>1 DEF StatsAddUp, FoundAt, Of, Unstable, PathsOf
<1> QED
  BY <1>2, <1>8 DEF StatsInv

LEMMA StatsInit == Init => StatsInv
<1> SUFFICES ASSUME Init PROVE StatsInv
  OBVIOUS
<1>1. \A f \in Files : Tokenized(f) = {}
  BY DEF Init, Tokenized
<1>2. AllTokenized = {}
  BY <1>1, AllTokenizedIs
<1>3. /\ \A p \in Paths : FoundAt(p) = {}
      /\ \A v \in Values : Of(v) = {}
      /\ Unstable = {}
      /\ \A t \in Token : PathsOf(t) = {}
  BY <1>2 DEF FoundAt, Of, Unstable, PathsOf
<1>4. Bound(tokenMap, NoToken) = {}
  BY DEF Init, Bound
<1>5. cache.hits = 0 /\ cache.misses = 0 /\ cache.total = 0
  BY DEF Init
<1>6. StatsAddUp
  <2>1. Cardinality({}) = 0 /\ 0 + 0 = 0
    BY FS_EmptySet
  <2>2. /\ \A p \in Paths : found[p] = 0
        /\ \A v \in Values : groups[v] = 0
        /\ \A t \in Token : refs[t] = {}
    BY DEF Init
  <2> QED
    BY <1>2, <1>3, <1>4, <1>5, <2>1, <2>2, StatsAre
<1> QED
  BY <1>2, <1>6, FS_EmptySet DEF StatsInv

(***************************************************************************)
(* Whatever redactors ask for, by whichever goroutines and in whichever    *)
(* order, the statistics of the table are those of the lookups, for each   *)
(* path that was given, each secret and each token                         *)
(* (TokenizeValueWithPath, normalizeSecret, addSecretReference,            *)
(* updateFileStats, trackDuplicateSecret).                                 *)
(***************************************************************************)
THEOREM StatisticsAddUp == Spec => []StatsAddUp
<1>1. TypeOK /\ StatsInv /\ [Next]_vars => StatsInv'
  <2> SUFFICES ASSUME TypeOK, StatsInv, [Next]_vars PROVE StatsInv'
    OBVIOUS
  <2>1. CASE \E f \in Files : Tokenize(f)
    BY <2>1, TokenizeStats
  <2>2. CASE ~ \E f \in Files : Tokenize(f)
    BY <2>2, Writes, MaskStats
  <2> QED
    BY <2>1, <2>2
<1>2. StatsInv => StatsAddUp
  BY DEF StatsInv
<1> QED
  BY <1>1, <1>2, StatsInit, TypeCorrect, PTL DEF Spec

(***************************************************************************)
(* The redaction map tells what the redactors did: its statistics always   *)
(* add up to their lookups, and while every redaction of results has       *)
(* succeeded it has every token that is written in a file and a count of   *)
(* secrets that fits its tokens (GetRedactionMap,                          *)
(* GenerateRedactionMapFile).                                              *)
(***************************************************************************)
THEOREM RedactionMapIsAlwaysRight == Spec => []RedactionMapIsRight
<1>1. StatsAddUp /\ MapCoversFiles /\ MapFileAddsUp => RedactionMapIsRight
  BY DEF RedactionMapIsRight
<1> QED
  BY <1>1, StatisticsAddUp, MapsCoverFiles, PTL

==============================================================================
