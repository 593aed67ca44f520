------------------------- MODULE CollectorRunProofs -------------------------
(***************************************************************************)
(* Theorems about CollectorRun, for every list of collectors that a spec   *)
(* may ask for, and every answer to the permission checks.                 *)
(***************************************************************************)
EXTENDS CollectorRun, FiniteSetTheorems, WellFoundedInduction, TLAPS

\* what a missing permission has been noted for, before anything runs
PermissionInv ==
    /\ pc = "check" => ran = <<>>
    /\ caller = "preflight" =>
         /\ (\E e \in told : e[1] = "denied") => forbidden
         /\ forbidden /\ ~force => ran = <<>> /\ pc # "collect"

\* the exit code is given at the end, from the results there are
ExitInv ==
    /\ verdicts \subseteq Verdict
    /\ exit \in {"pass", "warn"} => pc = "ended"
    /\ ExitCodeTells

(***************************************************************************)
(* A name has its file, or its content is in memory: in a bundle, of the   *)
(* error of a collector whose title has a name, and until it is redacted.  *)
(***************************************************************************)
FileInv ==
    /\ caller \in {"bundle", "preflight"}
    /\ caller = "preflight" /\ ~remote => keys \subseteq disk
    /\ caller = "bundle" =>
         /\ ~remote
         /\ keys \subseteq disk \union memory
         /\ keys \subseteq disk \/ \E e \in told : e[1] = "failed" /\ e[2][2]
    /\ redact => pc \in {"archive", "ended"} /\ keys \subseteq disk

RunInv == PermissionInv /\ ExitInv /\ FileInv /\ ErrorsAreKept

LEMMA RunInvInit == RunInit => RunInv
  BY DEF RunInit, Init, RunInv, PermissionInv, ExitInv, FileInv, ErrorsAreKept, ExitCodeTells

-----------------------------------------------------------------------------
LEMMA OtherEvent ==
    ASSUME NEW S, NEW kind \in {"skipped", "failed"}, NEW title
    PROVE  \A e \in S \union {<<kind, title>>} : e \in S \/ e[1] # "denied"
<1>1. <<kind, title>>[1] = kind /\ kind # "denied"
  OBVIOUS
<1> QED BY <1>1

\* An event of another kind says nothing of permissions.
LEMMA PermissionsStay ==
    ASSUME PermissionInv, UNCHANGED <<caller, force, forbidden>>,
           \A e \in told' : e \in told \/ e[1] # "denied",
           pc' = "check" => pc = "check" /\ ran' = ran,
           ran' = ran \/ pc = "collect", pc' = "collect" => pc = "collect"
    PROVE  PermissionInv'
  BY DEF PermissionInv

LEMMA PermissionStep ==
    ASSUME PermissionInv, Next
    PROVE  PermissionInv'
<1>1. CASE Loop
  <2>1. CASE DropUnknown \/ CheckRBAC \/ CheckFails
    BY <2>1, PermissionsStay DEF DropUnknown, CheckRBAC, CheckFails, GroupWith
  <2>2. CASE VisitType
    <3>1. PICK t \in Type :
            LET cs == byType[t] IN
            /\ forbidden' = ForbiddenAfter(cs)
            /\ told' = told \union {<<"denied", Title(cs[k])>> : k \in {i \in DOMAIN cs : cs[i].denied}}
      BY <2>2 DEF VisitType
    <3> DEFINE cs == byType[t]
    <3>2. /\ pc = "check" /\ pc' = "check" /\ ran' = ran /\ caller' = caller
      BY <2>2 DEF VisitType
    <3>3. caller = "preflight" => (forbidden' <=> Found(cs) \/ forbidden)
      BY <3>1 DEF ForbiddenAfter
    <3>4. ASSUME NEW e \in told', e \notin told PROVE Found(cs)
      BY <3>1, <3>4 DEF Found
    <3>5. ran' = <<>>
      BY <3>2 DEF PermissionInv
    <3> HIDE DEF cs
    <3> QED BY <3>2, <3>3, <3>4, <3>5 DEF PermissionInv
  <2>3. CASE EndOfTypes
    <3>1. /\ pc = "check" /\ pc' = IF forbidden /\ ~force THEN "denied" ELSE "collect"
          /\ UNCHANGED <<caller, force, forbidden, told, ran>>
      BY <2>3 DEF EndOfTypes
    <3> QED BY <3>1 DEF PermissionInv
  <2>4. CASE Skip
    <3>1. /\ pc = "collect" /\ pc' = pc /\ UNCHANGED <<caller, force, forbidden, ran>>
          /\ told' = told \/ told' = told \union {<<"skipped", Title(Head(list))>>}
      BY <2>4 DEF Skip
    <3>2. \A e \in told' : e \in told \/ e[1] # "denied"
      BY <3>1, OtherEvent
    <3> QED BY <3>1, <3>2, PermissionsStay
  <2>5. CASE CollectSucceeds
    <3>1. pc = "collect" /\ pc' = pc /\ UNCHANGED <<caller, force, forbidden, told>>
      BY <2>5 DEF CollectSucceeds
    <3> QED BY <3>1, PermissionsStay
  <2>6. CASE CollectFails
    <3>1. /\ pc = "collect" /\ pc' = pc /\ UNCHANGED <<caller, force, forbidden>>
          /\ told' = told \union {<<"failed", Title(Head(list))>>}
      BY <2>6 DEF CollectFails
    <3>2. \A e \in told' : e \in told \/ e[1] # "denied"
      BY <3>1, OtherEvent
    <3> QED BY <3>1, <3>2, PermissionsStay
  <2>7. CASE LoopEnds
    BY <2>7, PermissionsStay DEF LoopEnds
  <2> QED BY <1>1, <2>1, <2>2, <2>3, <2>4, <2>5, <2>6, <2>7 DEF Loop, LoopNext
<1>2. CASE LoopFailed \/ RedactResult \/ NoOthers \/ AnalyzeLocal \/ AnalyzeLocalFails
             \/ ArchiveBundle
  BY <1>2, PermissionsStay DEF LoopFailed, RedactResult, NoOthers, AnalyzeLocal,
       AnalyzeLocalFails, ArchiveBundle
<1>3. CASE CollectHost
  <2>1. /\ pc = "ok" /\ UNCHANGED <<caller, force, forbidden, ran, pc>>
        /\ told' = told \/ told' = told \union {<<"failed", <<"host", FALSE>>>>}
    BY <1>3 DEF CollectHost
  <2>2. \A e \in told' : e \in told \/ e[1] # "denied"
    BY <2>1, OtherEvent
  <2> QED BY <2>1, <2>2, PermissionsStay
<1>4. CASE CollectRemote
  <2>1. /\ pc = "ok" /\ UNCHANGED <<caller, force, forbidden, ran, pc>>
        /\ told' = told \/ told' = told \union {<<"failed", <<"remote", FALSE>>>>}
    BY <1>4 DEF CollectRemote
  <2>2. \A e \in told' : e \in told \/ e[1] # "denied"
    BY <2>1, OtherEvent
  <2> QED BY <2>1, <2>2, PermissionsStay
<1>5. CASE Ended
  BY <1>5 DEF Ended, vars, PermissionInv
<1> QED BY <1>1, <1>2, <1>3, <1>4, <1>5 DEF Next

\* what the exit code says of the results it is made from
LEMMA ExitCodes ==
    ASSUME NEW vs \in SUBSET Verdict
    PROVE  /\ checkOutcomesToExitCode(vs) = "pass" => \A v \in vs : v \subseteq {"pass"}
           /\ checkOutcomesToExitCode(vs) = "warn" => \A v \in vs : "fail" \in v => "warn" \in v
<1>1. \A v \in vs : v \subseteq {"pass", "warn", "fail"}
  BY DEF Verdict
<1>2. CASE vs = {}
  BY <1>2 DEF checkOutcomesToExitCode
<1>3. CASE \E v \in vs : Fails(v)
  <2>1. checkOutcomesToExitCode(vs) = "fail"
    BY <1>3 DEF checkOutcomesToExitCode
  <2> QED BY <2>1
<1>4. CASE vs # {} /\ ~(\E v \in vs : Fails(v)) /\ \E v \in vs : "warn" \in v
  <2>1. checkOutcomesToExitCode(vs) = "warn"
    BY <1>4 DEF checkOutcomesToExitCode
  <2> QED BY <1>4, <2>1 DEF Fails
<1>5. CASE vs # {} /\ ~(\E v \in vs : Fails(v)) /\ ~\E v \in vs : "warn" \in v
  <2>1. \A v \in vs : v \subseteq {"pass"}
    BY <1>1, <1>5 DEF Fails
  <2>2. checkOutcomesToExitCode(vs) = "pass"
    BY <1>5 DEF checkOutcomesToExitCode
  <2> QED BY <2>1, <2>2
<1> QED BY <1>2, <1>3, <1>4, <1>5

LEMMA ExitStep ==
    ASSUME ExitInv, Next
    PROVE  ExitInv'
<1>1. CASE UNCHANGED <<verdicts, exit>> /\ (pc = "ended" => pc' = "ended")
  BY <1>1 DEF ExitInv, ExitCodeTells
<1>2. CASE Loop
  <2>1. pc # "ended"
    BY <1>2 DEF Loop, LoopNext, DropUnknown, CheckRBAC, CheckFails, VisitType, EndOfTypes,
         Skip, CollectSucceeds, CollectFails, LoopEnds
  <2> QED BY <1>1, <1>2, <2>1 DEF Loop
<1>3. CASE LoopFailed \/ AnalyzeLocalFails
  BY <1>3 DEF LoopFailed, AnalyzeLocalFails, ExitInv, ExitCodeTells
<1>4. CASE RedactResult \/ NoOthers \/ CollectHost \/ CollectRemote
  BY <1>1, <1>4 DEF RedactResult, NoOthers, CollectHost, CollectRemote
<1>5. CASE AnalyzeLocal
  <2>1. verdicts' \subseteq Verdict /\ exit' = exit /\ pc = "ok"
    BY <1>5 DEF AnalyzeLocal
  <2> QED BY <2>1 DEF ExitInv, ExitCodeTells
<1>6. CASE ArchiveBundle
  <2>1. /\ pc' = "ended" /\ verdicts' = verdicts /\ verdicts \in SUBSET Verdict
        /\ exit' \in {"catchAll", "bundle", checkOutcomesToExitCode(verdicts)}
    BY <1>6 DEF ArchiveBundle, ExitInv
  <2>2. PICK vs \in SUBSET Verdict : vs = verdicts
    BY <2>1
  <2> QED BY <2>1, <2>2, ExitCodes DEF ExitInv, ExitCodeTells
<1>7. CASE Ended
  BY <1>1, <1>7 DEF Ended, vars
<1> QED BY <1>2, <1>3, <1>4, <1>5, <1>6, <1>7 DEF Next

LEMMA FileStep ==
    ASSUME FileInv, Next
    PROVE  FileInv'
<1>1. CASE Loop
  <2>0. /\ pc \in {"check", "collect"} /\ ~redact
        /\ UNCHANGED <<caller, redact, remote>>
    BY <1>1 DEF Loop, LoopNext, DropUnknown, CheckRBAC, GroupWith, CheckFails, VisitType,
         EndOfTypes, Skip, CollectSucceeds, CollectFails, LoopEnds, FileInv
  <2>1. ASSUME UNCHANGED <<keys, memory, disk>>, told \subseteq told' PROVE FileInv'
    BY <2>0, <2>1 DEF FileInv
  <2>2. CASE DropUnknown \/ CheckRBAC \/ CheckFails \/ EndOfTypes \/ LoopEnds
    <3>1. UNCHANGED <<keys, memory, disk, told>>
      BY <2>2 DEF DropUnknown, CheckRBAC, GroupWith, CheckFails, EndOfTypes, LoopEnds
    <3> QED BY <2>1, <3>1
  <2>3. CASE VisitType \/ Skip
    <3>1. UNCHANGED <<keys, memory, disk>> /\ told \subseteq told'
      BY <2>3 DEF VisitType, Skip
    <3> QED BY <2>1, <3>1
  <2>4. CASE CollectSucceeds
    <3>1. PICK r : keys' = keys \union {r} /\ disk' = disk \union {r}
      BY <2>4 DEF CollectSucceeds
    <3>2. UNCHANGED <<memory, told>>
      BY <2>4 DEF CollectSucceeds
    <3> QED BY <2>0, <3>1, <3>2 DEF FileInv
  <2>5. CASE CollectFails
    <3>1. PICK c : /\ told' = told \union {<<"failed", Title(c)>>}
                   /\ IF caller = "bundle" THEN SaveError(c) ELSE DropResult(c)
      BY <2>5 DEF CollectFails
    <3>2. CASE caller = "bundle"
      <4>1. PICK r, e : /\ keys' = keys \union {r, e} /\ memory' = memory \union {e}
                        /\ disk' = disk \union {r} \union (IF c.named THEN {} ELSE {e})
        BY <3>1, <3>2 DEF SaveError
      <4>2. keys' \subseteq disk' \union memory'
        BY <3>2, <4>1 DEF FileInv
      <4>3. CASE c.named
        <5>1. <<"failed", Title(c)>>[1] = "failed" /\ <<"failed", Title(c)>>[2][2]
          BY <4>3 DEF Title
        <5>2. \E x \in told' : x[1] = "failed" /\ x[2][2]
          BY <3>1, <5>1
        <5> QED BY <2>0, <3>2, <4>2, <5>2 DEF FileInv
      <4>4. CASE ~c.named
        <5>1. keys \subseteq disk => keys' \subseteq disk'
          BY <4>1, <4>4
        <5> QED BY <2>0, <3>1, <3>2, <4>2, <5>1 DEF FileInv
      <4> QED BY <4>3, <4>4
    <3>3. CASE caller # "bundle"
      <4>1. PICK r : keys' = keys /\ memory' = memory /\ disk' = disk \union {r}
        BY <3>1, <3>3 DEF DropResult
      <4> QED BY <2>0, <3>3, <4>1 DEF FileInv
    <3> QED BY <3>2, <3>3
  <2> QED BY <1>1, <2>2, <2>3, <2>4, <2>5 DEF Loop, LoopNext
<1>2. CASE LoopFailed \/ NoOthers \/ AnalyzeLocalFails \/ ArchiveBundle
  BY <1>2 DEF LoopFailed, NoOthers, AnalyzeLocalFails, ArchiveBundle, FileInv
<1>3. CASE RedactResult
  <2>1. /\ caller = "bundle" /\ pc' = "archive" /\ UNCHANGED <<caller, told, keys, memory, remote>>
        /\ disk' = IF redact' THEN disk \union memory ELSE disk
    BY <1>3 DEF RedactResult, Redacted
  <2>2. keys \subseteq disk \union memory /\ disk' \union memory' = disk \union memory
    BY <2>1 DEF FileInv
  <2>3. redact' => keys' \subseteq disk'
    BY <2>1, <2>2
  <2>4. keys \subseteq disk => keys' \subseteq disk'
    BY <2>1
  <2> QED BY <2>1, <2>2, <2>3, <2>4 DEF FileInv
<1>4. CASE CollectHost
  <2>1. /\ pc = "ok" /\ caller = "preflight" /\ UNCHANGED <<caller, redact, remote, pc>>
        /\ keys' = keys \union {<<"host">>} /\ disk' = disk \union {<<"host">>}
    BY <1>4 DEF CollectHost
  <2>2. keys \subseteq disk => keys' \subseteq disk'
    BY <2>1
  <2> QED BY <2>1, <2>2 DEF FileInv
<1>5. CASE CollectRemote
  <2>1. pc = "ok" /\ caller = "preflight" /\ UNCHANGED <<caller, redact, pc>> /\ remote' = TRUE
    BY <1>5 DEF CollectRemote
  <2> QED BY <2>1 DEF FileInv
<1>6. CASE AnalyzeLocal
  <2>1. /\ pc = "ok" /\ caller = "preflight" /\ UNCHANGED <<caller, redact, remote>>
        /\ keys' = keys \union {<<"version">>, <<"analysis">>}
        /\ disk' = disk \union {<<"version">>, <<"analysis">>}
    BY <1>6 DEF AnalyzeLocal
  <2>2. keys \subseteq disk => keys' \subseteq disk'
    BY <2>1
  <2> QED BY <2>1, <2>2 DEF FileInv
<1>7. CASE Ended
  BY <1>7 DEF Ended, vars, FileInv
<1> QED BY <1>1, <1>2, <1>3, <1>4, <1>5, <1>6, <1>7 DEF Next

LEMMA ErrorsStep ==
    ASSUME ErrorsAreKept, Next
    PROVE  ErrorsAreKept'
<1>1. ASSUME caller' = caller, keys \subseteq keys', \A e \in told' : e \in told \/ e[1] # "failed"
      PROVE  ErrorsAreKept'
  BY <1>1 DEF ErrorsAreKept
<1>2. ASSUME NEW kind \in {"skipped", "denied"}, NEW title PROVE <<kind, title>>[1] # "failed"
  OBVIOUS
<1>3. CASE Loop
  <2>1. CASE DropUnknown \/ CheckRBAC \/ CheckFails \/ EndOfTypes \/ LoopEnds \/ CollectSucceeds
    BY <1>1, <2>1 DEF DropUnknown, CheckRBAC, GroupWith, CheckFails, EndOfTypes, LoopEnds,
         CollectSucceeds
  <2>2. CASE VisitType
    <3>1. PICK t \in Type : told' = told \union
            {<<"denied", Title(byType[t][k])>> : k \in {i \in DOMAIN byType[t] : byType[t][i].denied}}
      BY <2>2 DEF VisitType
    <3>2. \A e \in told' : e \in told \/ e[1] # "failed"
      BY <1>2, <3>1
    <3>3. UNCHANGED <<caller, keys>>
      BY <2>2 DEF VisitType
    <3> QED BY <1>1, <3>2, <3>3
  <2>3. CASE Skip
    <3>1. told' = told \/ told' = told \union {<<"skipped", Title(Head(list))>>}
      BY <2>3 DEF Skip
    <3>2. \A e \in told' : e \in told \/ e[1] # "failed"
      BY <1>2, <3>1
    <3>3. UNCHANGED <<caller, keys>>
      BY <2>3 DEF Skip
    <3> QED BY <1>1, <3>2, <3>3
  <2>4. CASE CollectFails
    <3>1. PICK c : /\ told' = told \union {<<"failed", Title(c)>>} /\ caller' = caller
                   /\ IF caller = "bundle" THEN SaveError(c) ELSE DropResult(c)
      BY <2>4 DEF CollectFails
    <3>2. <<"failed", Title(c)>>[2] = Title(c)
      OBVIOUS
    <3>3. caller = "bundle" => keys' = keys \union {ResultOf(c), <<"error", Title(c)>>}
      BY <3>1 DEF SaveError, ErrorOf
    <3> QED BY <3>1, <3>2, <3>3 DEF ErrorsAreKept
  <2> QED BY <1>3, <2>1, <2>2, <2>3, <2>4 DEF Loop, LoopNext
<1>4. CASE LoopFailed \/ RedactResult \/ NoOthers \/ AnalyzeLocal \/ AnalyzeLocalFails
             \/ ArchiveBundle
  BY <1>1, <1>4 DEF LoopFailed, RedactResult, NoOthers, AnalyzeLocal, AnalyzeLocalFails,
       ArchiveBundle
<1>5. CASE CollectHost \/ CollectRemote
  BY <1>5 DEF CollectHost, CollectRemote, ErrorsAreKept
<1>6. CASE Ended
  BY <1>6 DEF Ended, vars, ErrorsAreKept
<1> QED BY <1>3, <1>4, <1>5, <1>6 DEF Next

LEMMA RunInvAlways == Spec => []RunInv
<1>1. ASSUME RunInv, [Next]_vars PROVE RunInv'
  <2>1. CASE Next
    BY <1>1, <2>1, PermissionStep, ExitStep, FileStep, ErrorsStep DEF RunInv
  <2>2. CASE UNCHANGED vars
    BY <1>1, <2>2 DEF vars, RunInv, PermissionInv, ExitInv, ExitCodeTells, FileInv, ErrorsAreKept
  <2> QED BY <1>1, <2>1, <2>2
<1> QED BY <1>1, RunInvInit, PTL DEF Spec

-----------------------------------------------------------------------------
(***************************************************************************)
(* Whatever a preflight collects: without --collect-without-permissions    *)
(* nothing runs when a permission is missing, whichever type misses it     *)
(* (CollectWithContext).  Whatever its results are: no failure and no      *)
(* warning is behind the exit code 0, and every failure behind that of a   *)
(* warning has warned as well (checkOutcomesToExitCode).                   *)
(***************************************************************************)
THEOREM PreflightsAreStrict == Spec => []PreflightIsStrict
<1>1. RunInv => PreflightIsStrict
  BY DEF RunInv, PermissionInv, ExitInv, PreflightIsStrict, MissingPermissionsStop
<1> QED BY <1>1, RunInvAlways, PTL

(***************************************************************************)
(* When a bundle is archived, a name without a file is that of the error   *)
(* of a collector with a name, in a bundle that is not redacted            *)
(* (SaveResult), or a preflight has remote collectors.                     *)
(***************************************************************************)
THEOREM ArchivedNamesHaveFiles == Spec => []NamesHaveFiles
<1>1. RunInv => NamesHaveFiles
  BY DEF RunInv, FileInv, NamesHaveFiles
<1> QED BY <1>1, RunInvAlways, PTL

(***************************************************************************)
(* The error of every collector of a support bundle that has failed is     *)
(* among the names of the results, whatever ran after it (runCollectors,   *)
(* collector-errors): the last part of NothingIsUnanswered.                *)
(***************************************************************************)
THEOREM FailuresAreOnRecord == Spec => []ErrorsAreKept
<1>1. RunInv => ErrorsAreKept
  BY DEF RunInv
<1> QED BY <1>1, RunInvAlways, PTL
-----------------------------------------------------------------------------
\* a set of numbers has a least one
LEMMA LeastIs ==
    ASSUME NEW S, S \subseteq Nat, S # {}
    PROVE  \E x \in S : \A y \in S : x <= y
<1>1. PICK x \in S : \A y \in S : ~ (<<y, x>> \in OpToRel(<, Nat))
  BY NatLessThanWellFounded, WFMin, Zenon
<1>2. ASSUME NEW y \in S PROVE x <= y
  <2>1. x \in Nat /\ y \in Nat
    OBVIOUS
  <2>2. ~ (y < x)
    BY <1>1, <2>1 DEF OpToRel
  <2> QED BY <2>1, <2>2
<1> QED BY <1>2

\* the n-th of a set of places is there, and every place is the n-th for some n
LEMMA RanksAreUnique ==
    ASSUME NEW m \in Nat, NEW places \in SUBSET (1..m)
    PROVE  LET Rank(k) == Cardinality({j \in places : j <= k}) IN
           /\ Cardinality(places) \in Nat
           /\ \A n \in 1..Cardinality(places) : \E k \in places : Rank(k) = n
           /\ \A k \in places : Rank(k) \in 1..Cardinality(places)
           /\ \A j, k \in places : Rank(j) = Rank(k) => j = k
<1> DEFINE UpTo(k) == {j \in places : j <= k}
           Rank(k) == Cardinality(UpTo(k))
<1>1. IsFiniteSet(places)
  <2>1. IsFiniteSet(1..m)
    BY FS_Interval
  <2> QED BY <2>1, FS_Subset
<1>2. Cardinality(places) \in Nat
  BY <1>1, FS_CardinalityType
<1>3. \A k \in 0..m : IsFiniteSet(UpTo(k)) /\ Rank(k) \in Nat /\ Rank(k) <= Cardinality(places)
  <2> SUFFICES ASSUME NEW k \in 0..m
               PROVE  IsFiniteSet(UpTo(k)) /\ Rank(k) \in Nat /\ Rank(k) <= Cardinality(places)
    OBVIOUS
  <2>1. UpTo(k) \in SUBSET places
    OBVIOUS
  <2> HIDE DEF UpTo
  <2>2. IsFiniteSet(UpTo(k)) /\ Cardinality(UpTo(k)) <= Cardinality(places)
    BY <1>1, <2>1, FS_Subset
  <2> QED BY <2>2, FS_CardinalityType
<1>4. Rank(0) = 0 /\ Rank(m) = Cardinality(places)
  <2>1. \A j \in places : j \in Nat /\ ~(j <= 0) /\ j <= m
    OBVIOUS
  <2>2. UpTo(0) = {}
    BY <2>1
  <2>3. UpTo(m) = places
    BY <2>1, Zenon
  <2> QED BY <2>2, <2>3, FS_EmptySet
<1>5. \A k \in 1..m : Rank(k) = IF k \in places THEN Rank(k - 1) + 1 ELSE Rank(k - 1)
  <2> SUFFICES ASSUME NEW k \in 1..m
               PROVE  Rank(k) = IF k \in places THEN Rank(k - 1) + 1 ELSE Rank(k - 1)
    OBVIOUS
  <2>0. \A j \in places : j <= k <=> j <= k - 1 \/ j = k
    OBVIOUS
  <2>1. UpTo(k) = IF k \in places THEN UpTo(k - 1) \union {k} ELSE UpTo(k - 1)
    <3>1. \A j : j \in UpTo(k) <=> j \in UpTo(k - 1) \/ (k \in places /\ j = k)
      BY <2>0, Zenon
    <3> HIDE DEF UpTo
    <3> QED BY <3>1
  <2>2. k \notin UpTo(k - 1)
    OBVIOUS
  <2>3. IsFiniteSet(UpTo(k - 1))
    <3>1. k - 1 \in 0..m
      OBVIOUS
    <3> HIDE DEF UpTo
    <3> QED BY <1>3, <3>1
  <2> HIDE DEF UpTo
  <2>4. Cardinality(UpTo(k - 1) \union {k}) = Cardinality(UpTo(k - 1)) + 1
    BY <2>2, <2>3, FS_AddElement
  <2> QED BY <2>1, <2>4
<1>6. \A n \in 1..Cardinality(places) : \E k \in places : Rank(k) = n
  <2> SUFFICES ASSUME NEW n \in 1..Cardinality(places) PROVE \E k \in places : Rank(k) = n
    OBVIOUS
  <2> HIDE DEF Rank
  <2> DEFINE Reach == {i \in 0..m : n <= Rank(i)}
  <2>1. Reach \subseteq Nat
    OBVIOUS
  <2>2. m \in Reach
    BY <1>2, <1>4
  <2>3. PICK k \in Reach : \A i \in Reach : k <= i
    BY <2>1, <2>2, LeastIs
  <2>4. k \in 1..m
    BY <1>2, <1>4, <2>3
  <2>5. Rank(k - 1) < n
    <3>1. k - 1 \in 0..m /\ k - 1 \notin Reach
      BY <2>3, <2>4
    <3>2. ~(n <= Rank(k - 1)) /\ Rank(k - 1) \in Nat
      BY <1>3, <3>1
    <3> HIDE DEF Reach
    <3> QED BY <1>2, <3>2
  <2>6. n <= Rank(k) /\ Rank(k) \in Nat /\ Rank(k - 1) \in Nat
    <3>1. n <= Rank(k)
      BY <2>3
    <3>2. k \in 0..m /\ k - 1 \in 0..m
      BY <2>4
    <3> HIDE DEF Reach
    <3> QED BY <1>3, <3>1, <3>2
  <2>7. Rank(k) = IF k \in places THEN Rank(k - 1) + 1 ELSE Rank(k - 1)
    BY <1>5, <2>4
  <2> HIDE DEF Reach
  <2>8. k \in places /\ Rank(k) = n
    BY <1>2, <2>5, <2>6, <2>7
  <2> QED BY <2>8
<1>7. \A j, k \in places : j < k => Rank(j) < Rank(k)
  <2> SUFFICES ASSUME NEW j \in places, NEW k \in places, j < k PROVE Rank(j) < Rank(k)
    OBVIOUS
  <2>0. j <= k /\ k <= k /\ ~(k <= j) /\ \A i \in places : i <= j => i <= k
    OBVIOUS
  <2>1. UpTo(j) \in SUBSET UpTo(k) /\ k \in UpTo(k) /\ k \notin UpTo(j)
    BY <2>0, Zenon
  <2> HIDE DEF UpTo
  <2>2. IsFiniteSet(UpTo(k)) /\ Cardinality(UpTo(j)) \in Nat /\ Cardinality(UpTo(k)) \in Nat
    BY <1>3
  <2>3. Cardinality(UpTo(j)) <= Cardinality(UpTo(k)) /\ Cardinality(UpTo(k)) # Cardinality(UpTo(j))
    BY <2>1, <2>2, FS_Subset
  <2> QED BY <2>2, <2>3
<1>8. \A k \in places : Rank(k) \in 1..Cardinality(places)
  <2> SUFFICES ASSUME NEW k \in places PROVE Rank(k) # 0
    BY <1>2, <1>3
  <2>1. k \in UpTo(k)
    OBVIOUS
  <2>2. IsFiniteSet(UpTo(k))
    BY <1>3
  <2> HIDE DEF UpTo
  <2> QED BY <2>1, <2>2, FS_EmptySet
<1>9. \A j, k \in places : Rank(j) = Rank(k) => j = k
  <2> SUFFICES ASSUME NEW j \in places, NEW k \in places, Rank(j) = Rank(k), j # k PROVE FALSE
    OBVIOUS
  <2>1. Rank(j) \in Nat /\ Rank(k) \in Nat
    BY <1>3
  <2>2. j < k \/ k < j
    OBVIOUS
  <2>3. Rank(j) < Rank(k) \/ Rank(k) < Rank(j)
    BY <1>7, <2>2
  <2> HIDE DEF Rank
  <2> QED BY <2>1, <2>3
<1> QED BY <1>2, <1>6, <1>8, <1>9

(***************************************************************************)
(* ElementsAt has the elements at the places it is given, and no others.   *)
(***************************************************************************)
LEMMA ElementsAtIs ==
    ASSUME NEW X, NEW l \in Seq(X), NEW places \in SUBSET DOMAIN l
    PROVE  /\ ElementsAt(l, places) \in Seq(X)
           /\ \A n \in DOMAIN ElementsAt(l, places) :
                 \E k \in places : ElementsAt(l, places)[n] = l[k]
           /\ \A k \in places :
                 \E n \in DOMAIN ElementsAt(l, places) : ElementsAt(l, places)[n] = l[k]
<1> DEFINE Rank(k) == Cardinality({j \in places : j <= k})
           place(n) == CHOOSE k \in places : Rank(k) = n
<1>1. Len(l) \in Nat /\ places \in SUBSET (1..Len(l)) /\ \A k \in places : l[k] \in X
  OBVIOUS
<1>2. /\ Cardinality(places) \in Nat
      /\ \A n \in 1..Cardinality(places) : \E k \in places : Rank(k) = n
      /\ \A k \in places : Rank(k) \in 1..Cardinality(places)
      /\ \A j, k \in places : Rank(j) = Rank(k) => j = k
  BY <1>1, RanksAreUnique
<1>3. ElementsAt(l, places) = [n \in 1..Cardinality(places) |-> l[place(n)]]
  BY DEF ElementsAt
<1> HIDE DEF Rank
<1>4. \A n \in 1..Cardinality(places) : place(n) \in places /\ Rank(place(n)) = n
  BY <1>2
<1>5. \A k \in places : place(Rank(k)) = k
  BY <1>2, <1>4
<1> HIDE DEF place
<1> QED BY <1>1, <1>2, <1>3, <1>4, <1>5

\* the elements of one list are those of the other
SameElements(s, t) ==
    /\ \A j \in DOMAIN s : \E k \in DOMAIN t : s[j] = t[k]
    /\ \A k \in DOMAIN t : \E j \in DOMAIN s : t[k] = s[j]

LEMMA ConcatenationIs ==
    ASSUME NEW X, NEW s \in Seq(X), NEW t \in Seq(X)
    PROVE  /\ s \o t \in Seq(X)
           /\ \A k \in DOMAIN s : k \in DOMAIN (s \o t) /\ (s \o t)[k] = s[k]
           /\ \A k \in DOMAIN t : Len(s) + k \in DOMAIN (s \o t) /\ (s \o t)[Len(s) + k] = t[k]
           /\ \A k \in DOMAIN (s \o t) :
                 \/ k \in DOMAIN s /\ (s \o t)[k] = s[k]
                 \/ k > Len(s) /\ k - Len(s) \in DOMAIN t /\ (s \o t)[k] = t[k - Len(s)]
  OBVIOUS

\* A list in two parts has the elements that it had.
LEMMA PartsHaveAll ==
    ASSUME NEW X, NEW l \in Seq(X), NEW P, NEW Q, P \union Q = DOMAIN l
    PROVE  LET s == ElementsAt(l, P) \o ElementsAt(l, Q)
           IN  s \in Seq(X) /\ SameElements(l, s)
<1> DEFINE p == ElementsAt(l, P)
           q == ElementsAt(l, Q)
<1>0. P \in SUBSET DOMAIN l /\ Q \in SUBSET DOMAIN l
  OBVIOUS
<1>1. /\ p \in Seq(X)
      /\ \A n \in DOMAIN p : \E k \in P : p[n] = l[k]
      /\ \A k \in P : \E n \in DOMAIN p : p[n] = l[k]
  BY <1>0, ElementsAtIs
<1>2. /\ q \in Seq(X)
      /\ \A n \in DOMAIN q : \E k \in Q : q[n] = l[k]
      /\ \A k \in Q : \E n \in DOMAIN q : q[n] = l[k]
  BY <1>0, ElementsAtIs
<1> HIDE DEF p, q
<1>3. /\ p \o q \in Seq(X)
      /\ \A k \in DOMAIN p : k \in DOMAIN (p \o q) /\ (p \o q)[k] = p[k]
      /\ \A k \in DOMAIN q : Len(p) + k \in DOMAIN (p \o q) /\ (p \o q)[Len(p) + k] = q[k]
      /\ \A k \in DOMAIN (p \o q) :
            \/ k \in DOMAIN p /\ (p \o q)[k] = p[k]
            \/ k > Len(p) /\ k - Len(p) \in DOMAIN q /\ (p \o q)[k] = q[k - Len(p)]
  <2>1. p \in Seq(X) /\ q \in Seq(X)
    BY <1>1, <1>2
  <2> QED BY <2>1, ConcatenationIs, Zenon
<1>4. ASSUME NEW j \in DOMAIN l PROVE \E k \in DOMAIN (p \o q) : l[j] = (p \o q)[k]
  <2>1. CASE j \in P
    BY <1>1, <1>3, <2>1
  <2>2. CASE j \in Q
    <3>1. PICK n \in DOMAIN q : q[n] = l[j]
      BY <1>2, <2>2
    <3> QED BY ZenonT(40), <1>3, <3>1
  <2> QED BY <2>1, <2>2
<1>5. ASSUME NEW k \in DOMAIN (p \o q) PROVE \E j \in DOMAIN l : (p \o q)[k] = l[j]
  <2>1. CASE k \in DOMAIN p /\ (p \o q)[k] = p[k]
    BY <1>0, <1>1, <2>1
  <2>2. CASE k - Len(p) \in DOMAIN q /\ (p \o q)[k] = q[k - Len(p)]
    BY <1>0, <1>2, <2>2
  <2> QED BY <1>3, <2>1, <2>2
<1> QED BY <1>3, <1>4, <1>5 DEF p, q, SameElements

Copies(s) == \A k \in DOMAIN s : s[k].type = "copy"
CopiesLast(s) == \A j, k \in DOMAIN s : j < k /\ s[j].type = "copy" => s[k].type = "copy"

LEMMA EnsureCopyLastIs ==
    ASSUME NEW l \in Seq(Collector)
    PROVE  /\ EnsureCopyLast(l) \in Seq(Collector)
           /\ SameElements(l, EnsureCopyLast(l))
           /\ CopiesLast(EnsureCopyLast(l))
<1> DEFINE last == PlacesOf("copy", l)
           p == ElementsAt(l, DOMAIN l \ last)
           q == ElementsAt(l, last)
<1>1. last \in SUBSET DOMAIN l /\ \A k \in DOMAIN l : k \in last <=> l[k].type = "copy"
  BY DEF PlacesOf
<1>2. EnsureCopyLast(l) = p \o q
  BY DEF EnsureCopyLast
<1> HIDE DEF last
<1>3. p \o q \in Seq(Collector) /\ SameElements(l, p \o q)
  <2>1. (DOMAIN l \ last) \union last = DOMAIN l
    BY <1>1
  <2> QED BY <2>1, PartsHaveAll
<1>4. p \in Seq(Collector) /\ \A n \in DOMAIN p : \E k \in DOMAIN l \ last : p[n] = l[k]
  <2>1. DOMAIN l \ last \in SUBSET DOMAIN l
    OBVIOUS
  <2> QED BY <2>1, ElementsAtIs
<1>5. q \in Seq(Collector) /\ \A n \in DOMAIN q : \E k \in last : q[n] = l[k]
  BY <1>1, ElementsAtIs
<1> HIDE DEF p, q
<1>6. /\ \A n \in DOMAIN p : p[n].type # "copy"
      /\ \A n \in DOMAIN q : q[n].type = "copy"
  BY <1>1, <1>4, <1>5
<1>7. CopiesLast(p \o q)
  <2> SUFFICES ASSUME NEW j \in DOMAIN (p \o q), NEW k \in DOMAIN (p \o q),
                      j < k, (p \o q)[j].type = "copy"
               PROVE  (p \o q)[k].type = "copy"
    BY DEF CopiesLast
  <2>1. \A i \in DOMAIN (p \o q) :
            \/ i \in DOMAIN p /\ (p \o q)[i] = p[i]
            \/ i > Len(p) /\ i - Len(p) \in DOMAIN q /\ (p \o q)[i] = q[i - Len(p)]
    BY <1>4, <1>5, ConcatenationIs
  <2>2. j > Len(p)
    BY <1>6, <2>1
  <2>3. k \notin DOMAIN p
    BY <1>4, <1>5, <2>2
  <2> QED BY <1>6, <2>1, <2>3
<1> QED BY <1>2, <1>3, <1>7

\* What a spec lists is in the list that is run, with two collectors it may not ask for.
LEMMA CollectSpecsIs ==
    ASSUME NEW l \in Seq(Collector)
    PROVE  /\ collectSpecs(l) \in Seq(Collector)
           /\ \A j \in DOMAIN l : \E k \in DOMAIN collectSpecs(l) : l[j] = collectSpecs(l)[k]
           /\ \A k \in DOMAIN collectSpecs(l) :
                 \/ \E j \in DOMAIN l : collectSpecs(l)[k] = l[j]
                 \/ \E t \in Type : collectSpecs(l)[k] = Default(t)
<1>1. \A t \in Type : Default(t) \in Collector
  <2>1. {"*"} \in SUBSET Namespaces
    BY NamespacesAssumption
  <2> QED BY <2>1 DEF Default, Collector
<1>2. ASSUME NEW s \in Seq(Collector), NEW t \in Type
      PROVE  /\ EnsureCollectorInList(s, t) \in Seq(Collector)
             /\ \A j \in DOMAIN s : \E k \in DOMAIN EnsureCollectorInList(s, t) :
                                        s[j] = EnsureCollectorInList(s, t)[k]
             /\ \A k \in DOMAIN EnsureCollectorInList(s, t) :
                   \/ \E j \in DOMAIN s : EnsureCollectorInList(s, t)[k] = s[j]
                   \/ EnsureCollectorInList(s, t)[k] = Default(t)
  <2>1. CASE EnsureCollectorInList(s, t) = s
    BY <2>1
  <2>2. CASE EnsureCollectorInList(s, t) = Append(s, Default(t))
    <3>1. /\ Append(s, Default(t)) \in Seq(Collector)
          /\ \A j \in DOMAIN s : j \in DOMAIN Append(s, Default(t)) /\ Append(s, Default(t))[j] = s[j]
          /\ \A j \in DOMAIN Append(s, Default(t)) :
                \/ j \in DOMAIN s /\ Append(s, Default(t))[j] = s[j]
                \/ Append(s, Default(t))[j] = Default(t)
      BY <1>1
    <3> QED BY <2>2, <3>1
  <2> QED BY <2>1, <2>2 DEF EnsureCollectorInList
<1> DEFINE m == EnsureCollectorInList(l, "clusterInfo")
           n == EnsureCollectorInList(m, "clusterResources")
<1>3. /\ n \in Seq(Collector)
      /\ \A j \in DOMAIN l : \E k \in DOMAIN n : l[j] = n[k]
      /\ \A k \in DOMAIN n : (\E j \in DOMAIN l : n[k] = l[j]) \/ (\E t \in Type : n[k] = Default(t))
  <2>1. "clusterInfo" \in Type /\ "clusterResources" \in Type
    BY DEF Type
  <2>2. /\ m \in Seq(Collector)
        /\ \A j \in DOMAIN l : \E k \in DOMAIN m : l[j] = m[k]
        /\ \A k \in DOMAIN m : (\E j \in DOMAIN l : m[k] = l[j]) \/ m[k] = Default("clusterInfo")
    BY <1>2, <2>1
  <2> HIDE DEF m
  <2>3. /\ n \in Seq(Collector)
        /\ \A j \in DOMAIN m : \E k \in DOMAIN n : m[j] = n[k]
        /\ \A k \in DOMAIN n : (\E j \in DOMAIN m : n[k] = m[j]) \/ n[k] = Default("clusterResources")
    BY <1>2, <2>1, <2>2
  <2> HIDE DEF n
  <2> QED BY <2>1, <2>2, <2>3
<1> HIDE DEF n
<1>4. DedupCollectors(n) \in Seq(Collector) /\ SameElements(n, DedupCollectors(n))
  <2> DEFINE places == {k \in DOMAIN n : \A j \in 1..(k - 1) : n[j] # n[k]}
             d == ElementsAt(n, places)
  <2>1. places \in SUBSET DOMAIN n
    OBVIOUS
  <2>2. /\ d \in Seq(Collector)
        /\ \A i \in DOMAIN d : \E k \in places : d[i] = n[k]
        /\ \A k \in places : \E i \in DOMAIN d : d[i] = n[k]
    BY <1>3, <2>1, ElementsAtIs
  <2>3. ASSUME NEW j \in DOMAIN n PROVE \E k \in places : n[k] = n[j]
    <3> DEFINE S == {k \in DOMAIN n : n[k] = n[j]}
    <3>1. S \subseteq Nat /\ S # {} /\ DOMAIN n = 1..Len(n) /\ Len(n) \in Nat
      BY <1>3
    <3>2. PICK k \in S : \A i \in S : k <= i
      BY <3>1, LeastIs
    <3>3. ASSUME NEW i \in 1..(k - 1) PROVE n[i] # n[k]
      <4>1. i \in DOMAIN n /\ ~(k <= i)
        BY <3>1, <3>2
      <4> QED BY <3>2, <4>1
    <3> QED BY <3>2, <3>3
  <2>4. DedupCollectors(n) = d
    BY DEF DedupCollectors
  <2> HIDE DEF d
  <2>5. \A j \in DOMAIN n : \E i \in DOMAIN d : n[j] = d[i]
    BY <2>2, <2>3
  <2> QED BY <2>1, <2>2, <2>4, <2>5 DEF SameElements
<1> DEFINE d == DedupCollectors(n)
           r == EnsureClusterResourcesFirst(d)
<1> HIDE DEF d
<1>5. r \in Seq(Collector) /\ SameElements(d, r)
  <2> DEFINE first == PlacesOf("clusterResources", d)
  <2>1. first \union (DOMAIN d \ first) = DOMAIN d
    BY DEF PlacesOf
  <2>2. r = ElementsAt(d, first) \o ElementsAt(d, DOMAIN d \ first)
    BY DEF EnsureClusterResourcesFirst
  <2> HIDE DEF first, r
  <2>3. d \in Seq(Collector)
    BY <1>4 DEF d
  <2> QED BY <2>1, <2>2, <2>3, PartsHaveAll
<1>6. collectSpecs(l) = r
  BY DEF collectSpecs, d, n
<1>7. SameElements(n, d)
  BY <1>4 DEF d
<1> HIDE DEF r
<1>8. /\ \A j \in DOMAIN n : \E k \in DOMAIN r : n[j] = r[k]
      /\ \A k \in DOMAIN r : \E j \in DOMAIN n : r[k] = n[j]
  BY <1>5, <1>7 DEF SameElements
<1>9. ASSUME NEW k \in DOMAIN r
      PROVE  (\E j \in DOMAIN l : r[k] = l[j]) \/ (\E t \in Type : r[k] = Default(t))
  <2>1. PICK i \in DOMAIN n : r[k] = n[i]
    BY <1>8
  <2> QED BY <1>3, <2>1
<1>10. ASSUME NEW j \in DOMAIN l PROVE \E k \in DOMAIN r : l[j] = r[k]
  <2>1. PICK i \in DOMAIN n : l[j] = n[i]
    BY <1>3
  <2> QED BY <1>8, <2>1
<1> QED BY <1>5, <1>6, <1>9, <1>10

-----------------------------------------------------------------------------
(***************************************************************************)
(* The lists of the loop.  TypeInv gives them the types that the proofs    *)
(* need and has TypeOK as a part.                                          *)
(***************************************************************************)
TypeInv ==
    /\ todo \in Seq(Collector) /\ list \in Seq(Collector) /\ ran \in Seq(Collector)
    /\ byType \in [Type -> Seq(Collector)]
    /\ TypeOK

LEMMA MergeIs ==
    ASSUME NEW cs \in Seq(Collector), cs # <<>>
    PROVE  /\ Merge(cs) \in Collector
           /\ Merge(cs).type = cs[1].type /\ Merge(cs).exclude = cs[1].exclude
           /\ \A k \in DOMAIN cs :
                 cs[k].namespaces \subseteq Merge(cs).namespaces \/ "*" \in Merge(cs).namespaces
<1> DEFINE all == UNION {cs[k].namespaces : k \in DOMAIN cs}
           merged == IF "*" \in all THEN {"*"} ELSE all
<1>1. cs[1] \in Collector /\ \A k \in DOMAIN cs : cs[k] \in Collector
  OBVIOUS
<1>2. all \in SUBSET Namespaces /\ \A k \in DOMAIN cs : cs[k].namespaces \subseteq all
  BY <1>1 DEF Collector
<1>3. Merge(cs) = [cs[1] EXCEPT !.namespaces = merged]
  BY DEF Merge
<1> HIDE DEF all
<1>4. merged \in SUBSET Namespaces
  BY <1>2, NamespacesAssumption
<1>5. \A k \in DOMAIN cs : cs[k].namespaces \subseteq merged \/ "*" \in merged
  BY <1>2
<1> HIDE DEF merged
<1>6. Merge(cs) \in Collector
  BY <1>1, <1>3, <1>4 DEF Collector
<1>7. Merge(cs).type = cs[1].type /\ Merge(cs).exclude = cs[1].exclude /\ Merge(cs).namespaces = merged
  BY <1>1, <1>3 DEF Collector
<1> QED BY <1>5, <1>6, <1>7

LEMMA TypesStay ==
    ASSUME TypeInv, UNCHANGED <<caller, request, todo, byType, list, ran>>,
           memory' = memory /\ keys \subseteq keys',
           exit' \in {"", "bundle", "pass", "warn", "fail", "catchAll"},
           pc' \in {"check", "collect", "ok", "denied", "error", "archive", "ended"}
    PROVE  TypeInv'
  BY DEF TypeInv, TypeOK

LEMMA TypeStep ==
    ASSUME TypeInv, Next
    PROVE  TypeInv'
<1>0. /\ pc \in {"check", "collect", "ok", "denied", "error", "archive", "ended"}
      /\ exit \in {"", "bundle", "pass", "warn", "fail", "catchAll"}
  BY DEF TypeInv, TypeOK
<1>1. CASE Loop
  <2>0. exit' = exit
    BY <1>1 DEF Loop
  <2>1. CASE CheckRBAC
    <3>1. PICK b \in BOOLEAN : GroupWith([Head(todo) EXCEPT !.denied = b])
      BY <2>1 DEF CheckRBAC
    <3> DEFINE d == [Head(todo) EXCEPT !.denied = b]
    <3>2. todo # <<>>
      BY <2>1 DEF CheckRBAC
    <3>3. Head(todo) \in Collector /\ Tail(todo) \in Seq(Collector)
      BY <3>2 DEF TypeInv
    <3>4. d \in Collector /\ d.type \in Type
      BY <3>3 DEF Collector
    <3>5. todo' = Tail(todo) /\ byType' = [byType EXCEPT ![d.type] = Append(@, d)]
      BY <3>1 DEF GroupWith
    <3>6. UNCHANGED <<caller, request, list, ran, keys, memory, pc>>
      BY <3>1 DEF GroupWith
    <3> HIDE DEF d
    <3>7. byType' \in [Type -> Seq(Collector)]
      BY <3>4, <3>5 DEF TypeInv
    <3>8. \A t \in Type : \A k \in DOMAIN byType'[t] : byType'[t][k].type = t
      <4> SUFFICES ASSUME NEW t \in Type, NEW k \in DOMAIN byType'[t]
                   PROVE  byType'[t][k].type = t
        OBVIOUS
      <4>1. byType[t] \in Seq(Collector) /\ \A i \in DOMAIN byType[t] : byType[t][i].type = t
        BY DEF TypeInv, TypeOK
      <4>2. byType'[t] = IF t = d.type THEN Append(byType[t], d) ELSE byType[t]
        BY <3>4, <3>5 DEF TypeInv
      <4> QED BY <3>4, <4>1, <4>2
    <3> QED BY <2>0, <3>3, <3>5, <3>6, <3>7, <3>8 DEF TypeInv, TypeOK
  <2>2. CASE CheckFails
    <3>1. /\ pc' = "error"
          /\ UNCHANGED <<caller, request, todo, byType, list, ran, keys, memory>>
      BY <2>2 DEF CheckFails
    <3> QED BY <1>0, <2>0, <3>1, TypesStay
  <2>3. CASE VisitType
    <3>1. PICK t \in Type :
            /\ byType[t] # <<>>
            /\ list' = list \o (IF t = "clusterResources" THEN <<Merge(byType[t])>> ELSE byType[t])
            /\ byType' = [byType EXCEPT ![t] = <<>>]
      BY <2>3 DEF VisitType
    <3>2. UNCHANGED <<caller, request, todo, ran, keys, memory, pc>>
      BY <2>3 DEF VisitType
    <3>3. byType[t] \in Seq(Collector)
      BY DEF TypeInv
    <3>4. Merge(byType[t]) \in Collector
      BY <3>1, <3>3, MergeIs
    <3>5. list' \in Seq(Collector)
      <4>1. (IF t = "clusterResources" THEN <<Merge(byType[t])>> ELSE byType[t]) \in Seq(Collector)
        BY <3>3, <3>4
      <4> QED BY <3>1, <4>1 DEF TypeInv
    <3>6. byType' \in [Type -> Seq(Collector)]
      BY <3>1 DEF TypeInv
    <3>7. \A s \in Type : \A k \in DOMAIN byType'[s] : byType'[s][k].type = s
      <4> SUFFICES ASSUME NEW s \in Type, NEW k \in DOMAIN byType'[s]
                   PROVE  byType'[s][k].type = s
        OBVIOUS
      <4>1. byType'[s] = IF s = t THEN <<>> ELSE byType[s]
        BY <3>1 DEF TypeInv
      <4>2. byType'[s] = byType[s]
        BY <4>1
      <4> QED BY <4>2 DEF TypeInv, TypeOK
    <3> QED BY <2>0, <3>2, <3>5, <3>6, <3>7 DEF TypeInv, TypeOK
  <2>4. CASE EndOfTypes
    <3>1. /\ list' = EnsureCopyLast(list) /\ pc' \in {"denied", "collect"}
          /\ UNCHANGED <<caller, request, todo, byType, ran, keys, memory>>
      BY <2>4 DEF EndOfTypes
    <3>2. list' \in Seq(Collector)
      BY <3>1, EnsureCopyLastIs DEF TypeInv
    <3> QED BY <2>0, <3>1, <3>2 DEF TypeInv, TypeOK
  <2>5. CASE Skip
    <3>1. /\ list # <<>> /\ list' = Tail(list)
          /\ UNCHANGED <<caller, request, todo, byType, ran, keys, memory, pc>>
      BY <2>5 DEF Skip
    <3>2. list' \in Seq(Collector)
      BY <3>1 DEF TypeInv
    <3> QED BY <2>0, <3>1, <3>2 DEF TypeInv, TypeOK
  <2>6. CASE CollectSucceeds \/ CollectFails
    <3>1. /\ list # <<>> /\ list' = Tail(list) /\ ran' = Append(ran, Head(list))
          /\ UNCHANGED <<caller, request, todo, byType, pc>>
      BY <2>6 DEF CollectSucceeds, CollectFails
    <3>2. list' \in Seq(Collector) /\ ran' \in Seq(Collector)
      BY <3>1 DEF TypeInv
    <3>3. memory \subseteq keys => memory' \subseteq keys'
      BY <2>6 DEF CollectSucceeds, CollectFails, SaveError, DropResult
    <3> QED BY <2>0, <3>1, <3>2, <3>3 DEF TypeInv, TypeOK
  <2>7. CASE LoopEnds
    <3>1. /\ pc' = "ok"
          /\ UNCHANGED <<caller, request, todo, byType, list, ran, keys, memory>>
      BY <2>7 DEF LoopEnds
    <3> QED BY <1>0, <2>0, <3>1, TypesStay
  <2>8. CASE DropUnknown
    <3>1. todo # <<>> /\ todo' = Tail(todo)
      BY <2>8 DEF DropUnknown
    <3>2. UNCHANGED <<caller, request, byType, list, ran, keys, memory, pc>>
      BY <2>8 DEF DropUnknown
    <3>3. todo' \in Seq(Collector)
      BY <3>1 DEF TypeInv
    <3> QED BY <2>0, <3>2, <3>3 DEF TypeInv, TypeOK
  <2> QED BY <1>1, <2>1, <2>2, <2>3, <2>4, <2>5, <2>6, <2>7, <2>8 DEF Loop, LoopNext
<1>2. CASE LoopFailed \/ RedactResult \/ NoOthers \/ CollectHost \/ AnalyzeLocal \/ AnalyzeLocalFails
  <2>1. /\ pc' \in {"ended", "archive", pc} /\ exit' \in {exit, "catchAll"}
        /\ memory' = memory /\ keys \subseteq keys'
        /\ UNCHANGED <<caller, request, todo, byType, list, ran>>
    BY <1>2 DEF LoopFailed, RedactResult, NoOthers, CollectHost, AnalyzeLocal, AnalyzeLocalFails
  <2> QED BY <1>0, <2>1, TypesStay
<1>3. CASE CollectRemote
  <2>1. PICK r : keys' = keys \union {r} /\ memory' = memory \union {r}
    BY <1>3 DEF CollectRemote
  <2>2. UNCHANGED <<caller, request, todo, byType, list, ran, pc, exit>>
    BY <1>3 DEF CollectRemote
  <2> QED BY <2>1, <2>2 DEF TypeInv, TypeOK
<1>4. CASE ArchiveBundle
  <2>1. /\ pc' = "ended" /\ exit' \in {"catchAll", "bundle", checkOutcomesToExitCode(verdicts)}
        /\ UNCHANGED <<caller, request, todo, byType, list, ran, keys, memory>>
    BY <1>4 DEF ArchiveBundle
  <2>2. checkOutcomesToExitCode(verdicts) \in {"catchAll", "fail", "warn", "pass"}
    BY DEF checkOutcomesToExitCode
  <2> QED BY <1>0, <2>1, <2>2, TypesStay
<1>5. CASE Ended
  BY <1>5 DEF Ended, vars, TypeInv, TypeOK
<1> QED BY <1>1, <1>2, <1>3, <1>4, <1>5 DEF Next

-----------------------------------------------------------------------------
\* once a copy has run only copies are left to run
CopyInv ==
    /\ pc = "check" => ran = <<>>
    /\ CopiesLast(ran)
    /\ pc = "collect" =>
         /\ CopiesLast(list)
         /\ (\E j \in DOMAIN ran : ran[j].type = "copy") => Copies(list)

LEMMA CopiesStay ==
    ASSUME CopyInv, UNCHANGED <<list, ran>>, pc' \in {"check", "collect"} => pc' = pc
    PROVE  CopyInv'
  BY DEF CopyInv, CopiesLast, Copies

\* the first of the list is next to run, or is skipped
LEMMA CopyNext ==
    ASSUME TypeInv, CopyInv, pc = "collect", pc' = pc, list # <<>>, list' = Tail(list),
           ran' = ran \/ ran' = Append(ran, Head(list))
    PROVE  CopyInv'
<1>1. list \in Seq(Collector) /\ ran \in Seq(Collector)
  BY DEF TypeInv
<1>2. /\ Len(list) \in Nat /\ 1 \in DOMAIN list
      /\ \A k \in DOMAIN list' : k + 1 \in DOMAIN list /\ list'[k] = list[k + 1] /\ k \in Nat \ {0}
  BY <1>1
<1>3. CopiesLast(list')
  <2> SUFFICES ASSUME NEW j \in DOMAIN list', NEW k \in DOMAIN list', j < k, list'[j].type = "copy"
               PROVE  list'[k].type = "copy"
    BY DEF CopiesLast
  <2>1. j + 1 < k + 1
    BY <1>2
  <2> QED BY <1>2, <2>1 DEF CopyInv, CopiesLast
<1>4. Copies(list) => Copies(list')
  BY <1>2 DEF Copies
<1>5. Head(list).type = "copy" => Copies(list')
  <2> SUFFICES ASSUME Head(list).type = "copy", NEW k \in DOMAIN list' PROVE list'[k].type = "copy"
    BY DEF Copies
  <2>1. list[1].type = "copy" /\ 1 < k + 1
    BY <1>1, <1>2
  <2> QED BY <1>2, <2>1 DEF CopyInv, CopiesLast
<1>6. CASE ran' = ran
  BY <1>3, <1>4, <1>6 DEF CopyInv, CopiesLast
<1>7. CASE ran' = Append(ran, Head(list))
  <2>1. /\ DOMAIN ran' = 1..(Len(ran) + 1) /\ DOMAIN ran = 1..Len(ran) /\ Len(ran) \in Nat
        /\ ran'[Len(ran) + 1] = Head(list)
        /\ \A k \in DOMAIN ran : ran'[k] = ran[k]
    BY <1>1, <1>7
  <2>2. Copies(list) => Head(list).type = "copy"
    BY <1>1, <1>2 DEF Copies
  <2>3. CopiesLast(ran')
    <3> SUFFICES ASSUME NEW j \in DOMAIN ran', NEW k \in DOMAIN ran', j < k, ran'[j].type = "copy"
                 PROVE  ran'[k].type = "copy"
      BY DEF CopiesLast
    <3>1. j \in DOMAIN ran /\ ran[j].type = "copy"
      BY <2>1
    <3>2. CASE k \in DOMAIN ran
      BY <2>1, <3>1, <3>2 DEF CopyInv, CopiesLast
    <3>3. CASE k = Len(ran) + 1
      BY <2>1, <2>2, <3>1, <3>3 DEF CopyInv
    <3> QED BY <2>1, <3>2, <3>3
  <2>4. (\E j \in DOMAIN ran' : ran'[j].type = "copy") => Copies(list')
    <3> SUFFICES ASSUME NEW j \in DOMAIN ran', ran'[j].type = "copy" PROVE Copies(list')
      OBVIOUS
    <3>1. CASE j \in DOMAIN ran
      BY <1>4, <2>1, <3>1 DEF CopyInv
    <3>2. CASE j = Len(ran) + 1
      BY <1>5, <2>1, <3>2
    <3> QED BY <2>1, <3>1, <3>2
  <2> QED BY <1>3, <2>3, <2>4 DEF CopyInv
<1> QED BY <1>6, <1>7

LEMMA CopyStep ==
    ASSUME TypeInv, CopyInv, Next
    PROVE  CopyInv'
<1>1. CASE DropUnknown \/ CheckRBAC \/ CheckFails \/ LoopEnds
  BY <1>1, CopiesStay DEF DropUnknown, CheckRBAC, GroupWith, CheckFails, LoopEnds
<1>2. CASE VisitType
  <2>1. pc = "check" /\ UNCHANGED <<ran, pc>>
    BY <1>2 DEF VisitType
  <2> QED BY <2>1 DEF CopyInv, CopiesLast
<1>3. CASE EndOfTypes
  <2>1. /\ pc = "check" /\ ran' = ran /\ pc' # "check" /\ list' = EnsureCopyLast(list)
    BY <1>3 DEF EndOfTypes
  <2>2. CopiesLast(list') /\ ran' = <<>>
    BY <2>1, EnsureCopyLastIs DEF TypeInv, CopyInv
  <2> QED BY <2>1, <2>2 DEF CopyInv, CopiesLast
<1>4. CASE Skip \/ CollectSucceeds \/ CollectFails
  <2>1. /\ pc = "collect" /\ pc' = pc /\ list # <<>> /\ list' = Tail(list)
        /\ ran' = ran \/ ran' = Append(ran, Head(list))
    BY <1>4 DEF Skip, CollectSucceeds, CollectFails
  <2> QED BY <2>1, CopyNext
<1>5. CASE LoopFailed \/ RedactResult \/ NoOthers \/ CollectHost \/ CollectRemote
             \/ AnalyzeLocal \/ AnalyzeLocalFails \/ ArchiveBundle
  BY <1>5, CopiesStay DEF LoopFailed, RedactResult, NoOthers, CollectHost, CollectRemote,
       AnalyzeLocal, AnalyzeLocalFails, ArchiveBundle
<1>6. CASE Ended
  BY <1>6, CopiesStay DEF Ended, vars
<1> QED BY <1>1, <1>2, <1>3, <1>4, <1>5, <1>6 DEF Next, Loop, LoopNext

-----------------------------------------------------------------------------
\* but for the permission, that is asked for when it is checked
SameSpec(c, d) == \E b \in BOOLEAN : d = [c EXCEPT !.denied = b]

InList(c, s) == \E j \in DOMAIN s : s[j] = c

\* an exclude that a list has is one that was asked for
FromRequest(c) ==
    Excluded(c) => \E k \in DOMAIN request : request[k].type = c.type /\ Excluded(request[k])

Answered(c) ==
    \/ Excluded(c)
    \/ \E j \in DOMAIN ran : Covers(c, ran[j])
    \/ <<"denied", Title(c)>> \in told
    \/ LedByExcluded(c)
    \/ ~HasCollector(c)

\* what was asked for is to be checked, has been, is next to run, or is answered
Unchecked(c) == \E d \in Collector : InList(d, todo) /\ SameSpec(c, d)
Checked(c) == \E d \in Collector : InList(d, byType[c.type]) /\ SameSpec(c, d)
Listed(c) == \E d \in Collector : InList(d, list) /\ Covers(c, d) /\ ~Skipped(d)
Known(c) == Unchecked(c) \/ Checked(c) \/ Listed(c) \/ Answered(c)

AnswerInv ==
    /\ pc \in {"collect", "ok", "archive"} => todo = <<>> /\ byType = [t \in Type |-> <<>>]
    /\ pc \in {"ok", "archive"} => list = <<>>
    /\ \A c \in Collector :
          InList(c, todo) \/ (\E t \in Type : InList(c, byType[t])) => FromRequest(c)
    /\ pc \in {"check", "collect", "ok", "archive"} =>
          \A c \in Collector : InList(c, request) => Known(c)

LEMMA SameSpecIs ==
    ASSUME NEW c \in Collector, NEW d \in Collector
    PROVE  /\ SameSpec(c, c)
           /\ SameSpec(c, d) =>
                /\ d.type = c.type /\ d.exclude = c.exclude /\ d.namespaces = c.namespaces
                /\ Title(d) = Title(c)
                /\ \A b \in BOOLEAN : SameSpec(c, [d EXCEPT !.denied = b])
<1>1. SameSpec(c, c)
  <2>1. c.denied \in BOOLEAN /\ c = [c EXCEPT !.denied = c.denied]
    BY DEF Collector
  <2> QED BY <2>1 DEF SameSpec
<1>2. ASSUME NEW b \in BOOLEAN, d = [c EXCEPT !.denied = b]
      PROVE  /\ d.type = c.type /\ d.exclude = c.exclude /\ d.namespaces = c.namespaces
             /\ Title(d) = Title(c)
             /\ \A a \in BOOLEAN : SameSpec(c, [d EXCEPT !.denied = a])
  <2>1. d.type = c.type /\ d.exclude = c.exclude /\ d.namespaces = c.namespaces /\ d.named = c.named
    BY <1>2 DEF Collector
  <2>2. \A a \in BOOLEAN : [d EXCEPT !.denied = a] = [c EXCEPT !.denied = a]
    BY <1>2 DEF Collector
  <2> QED BY <2>1, <2>2 DEF SameSpec, Title
<1> QED BY <1>1, <1>2 DEF SameSpec

\* an answer is not taken back
LEMMA AnsweredStays ==
    ASSUME NEW c, Answered(c), request' = request, told \subseteq told',
           \A j \in DOMAIN ran : j \in DOMAIN ran' /\ ran'[j] = ran[j]
    PROVE  Answered(c)'
<1>1. LedByExcluded(c) => LedByExcluded(c)'
  BY DEF LedByExcluded
<1> QED BY <1>1 DEF Answered

\* The invariant of the next state, from what the step does with each of the specs.
LEMMA AnswerStepFrom ==
    ASSUME AnswerInv, request' = request,
           pc' \in {"collect", "ok", "archive"} => todo' = <<>> /\ byType' = [t \in Type |-> <<>>],
           pc' \in {"ok", "archive"} => list' = <<>>,
           pc' \in {"check", "collect", "ok", "archive"} =>
               pc \in {"check", "collect", "ok", "archive"},
           ASSUME NEW c \in Collector,
                  InList(c, todo)' \/ (\E t \in Type : InList(c, byType[t])')
           PROVE  FromRequest(c),
           ASSUME NEW c \in Collector, InList(c, request), Known(c),
                  pc' \in {"check", "collect", "ok", "archive"}
           PROVE  Known(c)'
    PROVE  AnswerInv'
<1>1. ASSUME NEW c PROVE (FromRequest(c) => FromRequest(c)') /\ (InList(c, request)' => InList(c, request))
  BY DEF FromRequest, InList
<1>2. \A c \in Collector :
          InList(c, todo)' \/ (\E t \in Type : InList(c, byType[t])') => FromRequest(c)'
  BY <1>1
<1>3. pc' \in {"check", "collect", "ok", "archive"} =>
          \A c \in Collector : InList(c, request)' => Known(c)'
  BY <1>1 DEF AnswerInv
<1> QED BY <1>2, <1>3 DEF AnswerInv

LEMMA AnswersStay ==
    ASSUME AnswerInv, UNCHANGED <<request, todo, byType, list, ran>>, told \subseteq told',
           \/ pc' \in {"error", "ended", pc}
           \/ pc = "ok" /\ pc' = "archive"
           \/ pc = "collect" /\ list = <<>> /\ pc' = "ok"
    PROVE  AnswerInv'
<1>1. /\ pc' \in {"collect", "ok", "archive"} => todo' = <<>> /\ byType' = [t \in Type |-> <<>>]
      /\ pc' \in {"ok", "archive"} => list' = <<>>
      /\ pc' \in {"check", "collect", "ok", "archive"} =>
               pc \in {"check", "collect", "ok", "archive"}
  BY DEF AnswerInv
<1>2. ASSUME NEW c \in Collector, InList(c, todo)' \/ (\E t \in Type : InList(c, byType[t])')
      PROVE  FromRequest(c)
  <2>1. InList(c, todo) \/ \E t \in Type : InList(c, byType[t])
    BY <1>2 DEF InList
  <2> QED BY <2>1 DEF AnswerInv
<1>3. ASSUME NEW c \in Collector, Known(c) PROVE Known(c)'
  <2>1. Answered(c) => Answered(c)'
    BY AnsweredStays
  <2>2. /\ Unchecked(c) => Unchecked(c)'
        /\ Checked(c) => Checked(c)'
        /\ Listed(c) => Listed(c)'
    BY DEF Unchecked, Checked, Listed, InList
  <2> QED BY <1>3, <2>1, <2>2 DEF Known
<1> QED BY <1>1, <1>2, <1>3, AnswerStepFrom

LEMMA AnswerInit ==
    ASSUME RunInit
    PROVE  TypeInv /\ CopyInv /\ AnswerInv
<1>1. /\ caller \in {"bundle", "preflight"} /\ request \in Requests
      /\ todo = collectSpecs(request) /\ byType = [t \in Type |-> <<>>]
      /\ list = <<>> /\ ran = <<>> /\ memory = {} /\ keys = {} /\ exit = "" /\ pc = "check"
  BY DEF RunInit, Init
<1>2. request \in Seq(Collector)
  BY <1>1, RequestsAssumption
<1>3. /\ todo \in Seq(Collector)
      /\ \A j \in DOMAIN request : \E k \in DOMAIN todo : request[j] = todo[k]
      /\ \A k \in DOMAIN todo :
            \/ \E j \in DOMAIN request : todo[k] = request[j]
            \/ \E t \in Type : todo[k] = Default(t)
  BY <1>1, <1>2, CollectSpecsIs
<1>0. <<>> \in Seq(Collector) /\ DOMAIN <<>> = {}
  OBVIOUS
<1>4. TypeInv
  <2>1. byType \in [Type -> Seq(Collector)]
    BY <1>0, <1>1
  <2>2. \A t \in Type : DOMAIN byType[t] = {}
    BY <1>0, <1>1
  <2> QED BY <1>0, <1>1, <1>3, <2>1, <2>2 DEF TypeInv, TypeOK
<1>5. CopyInv
  BY <1>0, <1>1 DEF CopyInv, CopiesLast
<1>6. ASSUME NEW c \in Collector, InList(c, todo) PROVE FromRequest(c)
  <2>1. \A t \in Type : ~Excluded(Default(t))
    BY DEF Default, Excluded
  <2>2. PICK k \in DOMAIN todo : todo[k] = c
    BY <1>6 DEF InList
  <2> QED BY <1>3, <2>1, <2>2 DEF FromRequest
<1>7. ASSUME NEW c \in Collector, NEW t \in Type PROVE ~InList(c, byType[t])
  BY <1>0, <1>1 DEF InList
<1>8. ASSUME NEW c \in Collector, InList(c, request) PROVE Known(c)
  <2>1. SameSpec(c, c)
    BY SameSpecIs
  <2>2. InList(c, todo)
    BY <1>3, <1>8 DEF InList
  <2> QED BY <2>1, <2>2 DEF Known, Unchecked
<1> QED BY <1>1, <1>4, <1>5, <1>6, <1>7, <1>8 DEF AnswerInv

\* the elements of a list without its first one, and of one that is added to
LEMMA TailHas ==
    ASSUME NEW s \in Seq(Collector), s # <<>>, NEW c
    PROVE  InList(c, s) <=> c = Head(s) \/ InList(c, Tail(s))
<1>1. /\ Len(s) \in Nat /\ 1 \in DOMAIN s /\ Head(s) = s[1]
      /\ \A j \in DOMAIN s : j = 1 \/ (j - 1 \in DOMAIN Tail(s) /\ Tail(s)[j - 1] = s[j])
      /\ \A j \in DOMAIN Tail(s) : j + 1 \in DOMAIN s /\ Tail(s)[j] = s[j + 1]
  OBVIOUS
<1> QED BY ZenonT(40), <1>1 DEF InList

LEMMA AppendHas ==
    ASSUME NEW s \in Seq(Collector), NEW d \in Collector, NEW c
    PROVE  InList(c, Append(s, d)) <=> InList(c, s) \/ c = d
<1>1. /\ Len(s) \in Nat /\ DOMAIN Append(s, d) = 1..(Len(s) + 1) /\ DOMAIN s = 1..Len(s)
      /\ Append(s, d)[Len(s) + 1] = d
      /\ \A j \in DOMAIN s : Append(s, d)[j] = s[j]
  OBVIOUS
<1> QED BY <1>1 DEF InList

LEMMA ConcatenationHas ==
    ASSUME NEW s \in Seq(Collector), NEW t \in Seq(Collector), NEW c
    PROVE  InList(c, s \o t) <=> InList(c, s) \/ InList(c, t)
<1>1. /\ \A k \in DOMAIN s : k \in DOMAIN (s \o t) /\ (s \o t)[k] = s[k]
      /\ \A k \in DOMAIN t : Len(s) + k \in DOMAIN (s \o t) /\ (s \o t)[Len(s) + k] = t[k]
      /\ \A k \in DOMAIN (s \o t) :
            \/ k \in DOMAIN s /\ (s \o t)[k] = s[k]
            \/ k > Len(s) /\ k - Len(s) \in DOMAIN t /\ (s \o t)[k] = t[k - Len(s)]
  OBVIOUS
<1> QED BY <1>1 DEF InList

LEMMA AnswerCheck ==
    ASSUME TypeInv, AnswerInv, CheckRBAC
    PROVE  AnswerInv'
<1>1. PICK b \in BOOLEAN : GroupWith([Head(todo) EXCEPT !.denied = b])
  BY DEF CheckRBAC
<1>2. /\ pc = "check" /\ pc' = pc /\ todo # <<>> /\ todo' = Tail(todo)
      /\ UNCHANGED <<request, list, told, ran>>
  BY <1>1 DEF CheckRBAC, GroupWith
<1>3. todo \in Seq(Collector) /\ Head(todo) \in Collector
  BY <1>2 DEF TypeInv
<1>4. PICK h \in Collector : h = Head(todo)
  BY <1>3
<1>5. PICK d \in Collector : d = [h EXCEPT !.denied = b]
  BY DEF Collector
<1>6. d.type = h.type /\ d.exclude = h.exclude /\ d.type \in Type
  BY <1>5 DEF Collector
<1>7. \A t \in Type : byType'[t] = IF t = d.type THEN Append(byType[t], d) ELSE byType[t]
  <2>1. byType' = [byType EXCEPT ![d.type] = Append(@, d)]
    BY <1>1, <1>4, <1>5 DEF GroupWith
  <2> QED BY <1>6, <2>1 DEF TypeInv
<1>8. ASSUME NEW c PROVE InList(c, todo) <=> c = h \/ InList(c, todo)'
  BY <1>2, <1>3, <1>4, TailHas DEF InList
<1>9. ASSUME NEW c, NEW t \in Type
      PROVE  InList(c, byType[t])' <=> InList(c, byType[t]) \/ (t = d.type /\ c = d)
  <2>1. InList(c, Append(byType[t], d)) <=> InList(c, byType[t]) \/ c = d
    BY AppendHas DEF TypeInv
  <2> QED BY <1>7, <2>1 DEF InList
<1>10. FromRequest(d)
  <2>1. FromRequest(h)
    BY <1>8 DEF AnswerInv
  <2> QED BY <1>6, <2>1 DEF FromRequest, Excluded
<1>11. ASSUME NEW c \in Collector, InList(c, todo)' \/ (\E t \in Type : InList(c, byType[t])')
       PROVE  FromRequest(c)
  BY <1>8, <1>9, <1>10, <1>11 DEF AnswerInv
<1>12. ASSUME NEW c \in Collector, Known(c) PROVE Known(c)'
  <2>0. c.type \in Type
    BY DEF Collector
  <2>1. CASE Unchecked(c)
    <3>1. PICK e \in Collector : InList(e, todo) /\ SameSpec(c, e)
      BY <2>1 DEF Unchecked
    <3>2. CASE e = h
      <4>1. SameSpec(c, d) /\ d.type = c.type
        BY <1>5, <1>6, <3>1, <3>2, SameSpecIs
      <4>2. InList(d, byType[c.type])'
        BY <1>9, <2>0, <4>1
      <4> QED BY <4>1, <4>2 DEF Known, Checked
    <3>3. CASE e # h
      BY <1>8, <3>1, <3>3 DEF Known, Unchecked
    <3> QED BY <3>2, <3>3
  <2>2. CASE Checked(c)
    BY <1>9, <2>0, <2>2 DEF Known, Checked
  <2>3. CASE Listed(c)
    BY <1>2, <2>3 DEF Known, Listed, InList
  <2>4. CASE Answered(c)
    BY <1>2, <2>4, AnsweredStays DEF Known
  <2> QED BY <1>12, <2>1, <2>2, <2>3, <2>4 DEF Known
<1>13. pc' = "check"
  BY <1>2
<1> QED BY <1>2, <1>11, <1>12, <1>13, AnswerStepFrom

\* what GetCollector does not know is passed over: that is its answer
LEMMA AnswerDrop ==
    ASSUME TypeInv, AnswerInv, DropUnknown
    PROVE  AnswerInv'
<1>1. /\ todo # <<>> /\ todo' = Tail(todo) /\ ~HasCollector(Head(todo))
      /\ pc = "check" /\ pc' = pc /\ UNCHANGED <<request, byType, list, told, ran>>
  BY DEF DropUnknown
<1>2. todo \in Seq(Collector) /\ Head(todo) \in Collector
  BY <1>1 DEF TypeInv
<1>3. PICK h \in Collector : h = Head(todo)
  BY <1>2
<1>4. ASSUME NEW c PROVE InList(c, todo) <=> c = h \/ InList(c, todo)'
  <2>1. InList(c, todo) <=> c = h \/ InList(c, Tail(todo))
    BY <1>1, <1>2, <1>3, TailHas
  <2> QED BY <1>1, <2>1 DEF InList
<1>5. ASSUME NEW c \in Collector, InList(c, todo)' \/ (\E t \in Type : InList(c, byType[t])')
      PROVE  FromRequest(c)
  <2>1. InList(c, todo) \/ \E t \in Type : InList(c, byType[t])
    BY <1>1, <1>4, <1>5 DEF InList
  <2> QED BY <2>1 DEF AnswerInv
<1>6. ASSUME NEW c \in Collector, Known(c) PROVE Known(c)'
  <2>1. CASE Unchecked(c)
    <3>1. PICK e \in Collector : InList(e, todo) /\ SameSpec(c, e)
      BY <2>1 DEF Unchecked
    <3>2. CASE e = h
      <4>1. ~HasCollector(c)
        BY <1>1, <1>3, <3>1, <3>2, SameSpecIs DEF HasCollector
      <4> QED BY <4>1 DEF Known, Answered
    <3>3. CASE e # h
      BY <1>4, <3>1, <3>3 DEF Known, Unchecked
    <3> QED BY <3>2, <3>3
  <2>2. CASE Checked(c)
    BY <1>1, <2>2 DEF Known, Checked, InList
  <2>3. CASE Listed(c)
    BY <1>1, <2>3 DEF Known, Listed, InList
  <2>4. CASE Answered(c)
    BY <1>1, <2>4, AnsweredStays DEF Known
  <2> QED BY <1>6, <2>1, <2>2, <2>3, <2>4 DEF Known
<1>7. pc' = "check"
  BY <1>1
<1> QED BY <1>1, <1>5, <1>6, <1>7, AnswerStepFrom

LEMMA AnswerVisit ==
    ASSUME TypeInv, AnswerInv, VisitType
    PROVE  AnswerInv'
<1>1. PICK t \in Type :
        /\ byType[t] # <<>>
        /\ list' = list \o (IF t = "clusterResources" THEN <<Merge(byType[t])>> ELSE byType[t])
        /\ told' = told \union
             {<<"denied", Title(byType[t][k])>> : k \in {i \in DOMAIN byType[t] : byType[t][i].denied}}
        /\ byType' = [byType EXCEPT ![t] = <<>>]
  BY DEF VisitType
<1>2. pc = "check" /\ pc' = pc /\ UNCHANGED <<request, todo, ran>>
  BY DEF VisitType
<1> DEFINE cs == byType[t]
           visited == IF t = "clusterResources" THEN <<Merge(cs)>> ELSE cs
<1>3. /\ cs \in Seq(Collector) /\ list \in Seq(Collector)
      /\ \A k \in DOMAIN cs : cs[k] \in Collector /\ cs[k].type = t
  <2>1. cs \in Seq(Collector) /\ list \in Seq(Collector)
    BY DEF TypeInv
  <2>2. \A k \in DOMAIN cs : cs[k].type = t
    BY DEF TypeInv, TypeOK
  <2> HIDE DEF cs
  <2> QED BY <2>1, <2>2
<1>4. 1 \in DOMAIN cs
  BY <1>1, <1>3
<1>5. PICK m \in Collector : m = Merge(cs)
  BY <1>1, <1>3, MergeIs
<1>6. /\ m.type = t /\ m.exclude = cs[1].exclude
      /\ \A k \in DOMAIN cs : cs[k].namespaces \subseteq m.namespaces \/ "*" \in m.namespaces
  BY <1>1, <1>3, <1>4, <1>5, MergeIs
<1>7. \A s \in Type : byType'[s] = IF s = t THEN <<>> ELSE byType[s]
  BY <1>1 DEF TypeInv
<1>8. visited \in Seq(Collector) /\ list' = list \o visited
  BY <1>1, <1>3, <1>5
<1>9. /\ t # "clusterResources" => visited = cs
      /\ t = "clusterResources" => InList(m, visited)
  BY <1>5 DEF InList
<1> HIDE DEF visited
<1>10. ASSUME NEW c PROVE InList(c, list)' <=> InList(c, list) \/ InList(c, visited)
  <2>1. InList(c, list \o visited) <=> InList(c, list) \/ InList(c, visited)
    BY <1>3, <1>8, ConcatenationHas
  <2> QED BY <1>8, <2>1 DEF InList
<1>11. ASSUME NEW c, NEW s \in Type
       PROVE  InList(c, byType[s])' <=> InList(c, byType[s]) /\ s # t
  BY <1>7 DEF InList
<1>12. ASSUME NEW c \in Collector, InList(c, todo)' \/ (\E s \in Type : InList(c, byType[s])')
       PROVE  FromRequest(c)
  <2>1. InList(c, todo)' => InList(c, todo)
    BY <1>2 DEF InList
  <2> QED BY <1>11, <1>12, <2>1 DEF AnswerInv
<1>13. ASSUME NEW c, Answered(c) PROVE Known(c)'
  BY <1>1, <1>2, <1>13, AnsweredStays DEF Known
<1>14. ASSUME NEW c \in Collector, Known(c) PROVE Known(c)'
  <2>0. c.type \in Type
    BY DEF Collector
  <2>1. CASE Unchecked(c)
    BY <1>2, <2>1 DEF Known, Unchecked, InList
  <2>2. CASE Checked(c) /\ c.type # t
    BY <1>11, <2>0, <2>2 DEF Known, Checked
  <2>3. CASE Listed(c)
    BY <1>10, <2>3 DEF Known, Listed
  <2>4. CASE Checked(c) /\ c.type = t
    <3>1. PICK d \in Collector : InList(d, cs) /\ SameSpec(c, d)
      BY <2>4 DEF Checked
    <3>2. PICK k \in DOMAIN cs : cs[k] = d
      BY <3>1 DEF InList
    <3>3. /\ d.type = c.type /\ d.exclude = c.exclude /\ d.namespaces = c.namespaces
          /\ Title(d) = Title(c)
      BY <3>1, SameSpecIs
    <3>4. CASE d.denied
      <4>1. <<"denied", Title(c)>> \in told'
        BY <1>1, <3>2, <3>3, <3>4
      <4> QED BY <4>1 DEF Known, Answered
    <3>5. CASE Excluded(c)
      BY <1>13, <3>5 DEF Answered
    <3>6. CASE ~d.denied /\ ~Excluded(c) /\ t # "clusterResources"
      <4>1. InList(d, list)'
        BY <1>9, <1>10, <3>1, <3>6
      <4>2. Covers(c, d) /\ ~Skipped(d)
        BY <3>3, <3>6 DEF Covers, Skipped, Excluded
      <4> QED BY <4>1, <4>2 DEF Known, Listed
    <3>7. CASE t = "clusterResources" /\ ~Excluded(m)
      <4>1. InList(m, list)'
        BY <1>9, <1>10, <3>7
      <4>2. Covers(c, m) /\ ~Skipped(m)
        BY <1>6, <2>4, <3>2, <3>3, <3>7 DEF Covers, Skipped
      <4> QED BY <4>1, <4>2 DEF Known, Listed
    <3>8. CASE t = "clusterResources" /\ Excluded(m)
      <4>1. PICK e \in Collector : e = cs[1]
        BY <1>3, <1>4
      <4>2. InList(e, cs) /\ Excluded(e) /\ e.type = t
        BY <1>3, <1>4, <1>6, <3>8, <4>1 DEF InList, Excluded
      <4>3. FromRequest(e)
        BY <4>2 DEF AnswerInv
      <4>4. LedByExcluded(c)
        BY <2>4, <3>8, <4>2, <4>3 DEF FromRequest, LedByExcluded
      <4> QED BY <1>13, <4>4 DEF Answered
    <3> QED BY <3>4, <3>5, <3>6, <3>7, <3>8
  <2>5. CASE Answered(c)
    BY <1>13, <2>5
  <2> QED BY <1>14, <2>1, <2>2, <2>3, <2>4, <2>5 DEF Known
<1>15. pc' = "check"
  BY <1>2
<1> QED BY <1>2, <1>12, <1>14, <1>15, AnswerStepFrom

LEMMA AnswerEndOfTypes ==
    ASSUME TypeInv, AnswerInv, EndOfTypes
    PROVE  AnswerInv'
<1>1. /\ pc = "check" /\ pc' \in {"denied", "collect"}
      /\ todo = <<>> /\ (\A t \in Type : byType[t] = <<>>) /\ list' = EnsureCopyLast(list)
      /\ UNCHANGED <<request, todo, byType, told, ran>>
  BY DEF EndOfTypes
<1>2. byType = [t \in Type |-> <<>>]
  BY <1>1 DEF TypeInv
<1>3. list \in Seq(Collector) /\ SameElements(list, list')
  BY <1>1, EnsureCopyLastIs DEF TypeInv
<1>4. ASSUME NEW c, InList(c, list) PROVE InList(c, list)'
  BY <1>3, <1>4 DEF InList, SameElements
<1>5. ASSUME NEW c \in Collector, Known(c) PROVE Known(c)'
  <2>0. c.type \in Type
    BY DEF Collector
  <2>1. ~Unchecked(c) /\ ~Checked(c)
    <3>1. DOMAIN <<>> = {}
      OBVIOUS
    <3>2. \A d : ~InList(d, todo) /\ ~InList(d, byType[c.type])
      BY <1>1, <2>0, <3>1 DEF InList
    <3> QED BY <3>2 DEF Unchecked, Checked
  <2>2. CASE Listed(c)
    BY <1>4, <2>2 DEF Known, Listed
  <2>3. CASE Answered(c)
    BY <1>1, <2>3, AnsweredStays DEF Known
  <2> QED BY <1>5, <2>1, <2>2, <2>3 DEF Known
<1>6. ASSUME NEW c \in Collector, InList(c, todo)' \/ (\E t \in Type : InList(c, byType[t])')
      PROVE  FromRequest(c)
  <2>1. InList(c, todo) \/ \E t \in Type : InList(c, byType[t])
    BY <1>1, <1>6 DEF InList
  <2> QED BY <2>1 DEF AnswerInv
<1> QED BY <1>1, <1>2, <1>5, <1>6, AnswerStepFrom

\* the first of the list is skipped, or it runs and is an answer
LEMMA AnswerNext ==
    ASSUME TypeInv, AnswerInv, pc = "collect", pc' = pc, list # <<>>, list' = Tail(list),
           (Skipped(Head(list)) /\ ran' = ran) \/ ran' = Append(ran, Head(list)),
           told \subseteq told', UNCHANGED <<request, todo, byType>>
    PROVE  AnswerInv'
<1>1. list \in Seq(Collector) /\ ran \in Seq(Collector) /\ Head(list) \in Collector
  BY DEF TypeInv
<1>2. PICK h \in Collector : h = Head(list)
  BY <1>1
<1>3. ASSUME NEW c PROVE InList(c, list) <=> c = h \/ InList(c, list)'
  <2>1. InList(c, list) <=> c = h \/ InList(c, Tail(list))
    BY <1>1, <1>2, TailHas
  <2>2. InList(c, list)' <=> InList(c, Tail(list))
    BY DEF InList
  <2> QED BY <2>1, <2>2
<1>4. \A j \in DOMAIN ran : j \in DOMAIN ran' /\ ran'[j] = ran[j]
  <2>1. CASE ran' = ran
    BY <2>1
  <2>2. CASE ran' = Append(ran, Head(list))
    BY <1>1, <2>2
  <2> QED BY <2>1, <2>2
<1>5. ~Skipped(h) => \E j \in DOMAIN ran' : ran'[j] = h
  <2> SUFFICES ASSUME ~Skipped(h) PROVE \E j \in DOMAIN ran' : ran'[j] = h
    OBVIOUS
  <2>1. ran' = Append(ran, h)
    BY <1>2
  <2>2. Len(ran) + 1 \in DOMAIN ran' /\ ran'[Len(ran) + 1] = h
    BY <1>1, <1>2, <2>1
  <2> QED BY <2>2
<1>6. ASSUME NEW c \in Collector, Known(c) PROVE Known(c)'
  <2>1. CASE Unchecked(c)
    BY <2>1 DEF Known, Unchecked, InList
  <2>2. CASE Checked(c)
    BY <2>2 DEF Known, Checked, InList
  <2>3. CASE Listed(c)
    <3>1. PICK d \in Collector : InList(d, list) /\ Covers(c, d) /\ ~Skipped(d)
      BY <2>3 DEF Listed
    <3>2. CASE d = h
      BY <1>5, <3>1, <3>2 DEF Known, Answered
    <3>3. CASE d # h
      BY <1>3, <3>1, <3>3 DEF Known, Listed
    <3> QED BY <3>2, <3>3
  <2>4. CASE Answered(c)
    BY <1>4, <2>4, AnsweredStays DEF Known
  <2> QED BY <1>6, <2>1, <2>2, <2>3, <2>4 DEF Known
<1>7. ASSUME NEW c \in Collector, InList(c, todo)' \/ (\E t \in Type : InList(c, byType[t])')
      PROVE  FromRequest(c)
  <2>1. InList(c, todo) \/ \E t \in Type : InList(c, byType[t])
    BY <1>7 DEF InList
  <2> QED BY <2>1 DEF AnswerInv
<1>8. pc' = "collect" /\ todo' = <<>> /\ byType' = [t \in Type |-> <<>>]
  BY DEF AnswerInv
<1> QED BY <1>6, <1>7, <1>8, AnswerStepFrom

LEMMA AnswerStep ==
    ASSUME TypeInv, AnswerInv, Next
    PROVE  AnswerInv'
<1>1. CASE CheckFails \/ LoopEnds
  BY <1>1, AnswersStay DEF CheckFails, LoopEnds
<1>2. CASE Skip \/ CollectSucceeds \/ CollectFails
  <2>1. /\ pc = "collect" /\ pc' = pc /\ list # <<>> /\ list' = Tail(list)
        /\ (Skipped(Head(list)) /\ ran' = ran) \/ ran' = Append(ran, Head(list))
        /\ told \subseteq told' /\ UNCHANGED <<request, todo, byType>>
    BY <1>2 DEF Skip, CollectSucceeds, CollectFails
  <2> QED BY <2>1, AnswerNext
<1>3. CASE LoopFailed \/ RedactResult \/ NoOthers \/ CollectHost \/ CollectRemote
             \/ AnalyzeLocal \/ AnalyzeLocalFails \/ ArchiveBundle
  <2>1. told \subseteq told' /\ UNCHANGED <<request, todo, byType, list, ran>>
    BY <1>3 DEF LoopFailed, RedactResult, NoOthers, CollectHost, CollectRemote, AnalyzeLocal,
         AnalyzeLocalFails, ArchiveBundle
  <2>2. pc' \in {"ended", pc} \/ (pc = "ok" /\ pc' = "archive")
    BY <1>3 DEF LoopFailed, RedactResult, NoOthers, CollectHost, CollectRemote, AnalyzeLocal,
         AnalyzeLocalFails, ArchiveBundle
  <2> QED BY <2>1, <2>2, AnswersStay
<1>4. CASE Ended
  BY <1>4, AnswersStay DEF Ended, vars
<1> QED BY <1>1, <1>2, <1>3, <1>4, AnswerDrop, AnswerCheck, AnswerVisit, AnswerEndOfTypes
        DEF Next, Loop, LoopNext

LEMMA ListsAlways == Spec => [](TypeInv /\ CopyInv /\ AnswerInv)
<1>1. RunInit => TypeInv /\ CopyInv /\ AnswerInv
  BY AnswerInit
<1>2. ASSUME TypeInv, CopyInv, AnswerInv, [Next]_vars PROVE TypeInv' /\ CopyInv' /\ AnswerInv'
  <2>1. CASE Next
    BY <1>2, <2>1, TypeStep, CopyStep, AnswerStep
  <2>2. CASE UNCHANGED vars
    <3>1. TypeInv' /\ CopyInv'
      BY <1>2, <2>2 DEF vars, TypeInv, TypeOK, CopyInv, CopiesLast, Copies
    <3>2. AnswerInv'
      BY <1>2, <2>2, AnswersStay DEF vars
    <3> QED BY <3>1, <3>2
  <2> QED BY <1>2, <2>1, <2>2
<1> QED BY <1>1, <1>2, PTL DEF Spec

-----------------------------------------------------------------------------
(***************************************************************************)
(* However many collectors a spec has and whichever types a Go map visits  *)
(* first, a copy collector never runs before one of another type           *)
(* (EnsureCopyLast).                                                       *)
(***************************************************************************)
THEOREM CopiesAlwaysRunLast == Spec => []CopiesRunLast
<1>1. CopyInv => CopiesRunLast
  BY DEF CopyInv, CopiesLast, CopiesRunLast
<1> QED BY <1>1, ListsAlways, PTL

(***************************************************************************)
(* Every collector that was asked for and is not excluded has run or is    *)
(* refused in an event when the loop ends, whatever duplicates are dropped *)
(* and cluster resources are merged; and a failure is on record.  The      *)
(* specs that GetCollector does not know are the exception.                *)
(***************************************************************************)
THEOREM RequestsAlwaysAnswered == Spec => []NothingIsUnanswered
<1>1. TypeInv /\ AnswerInv => RequestsAreAnswered
  <2> SUFFICES ASSUME TypeInv, AnswerInv, pc \in {"ok", "archive"}, NEW k \in DOMAIN request
               PROVE  Answered(request[k])
    BY DEF Answered, RequestsAreAnswered
  <2>1. request \in Seq(Collector)
    BY RequestsAssumption DEF TypeInv, TypeOK
  <2>2. PICK c \in Collector : c = request[k]
    BY <2>1
  <2>3. Known(c)
    BY <2>2 DEF AnswerInv, InList
  <2>4. DOMAIN <<>> = {} /\ c.type \in Type
    BY DEF Collector
  <2>5. \A d : ~InList(d, todo) /\ ~InList(d, list) /\ ~InList(d, byType[c.type])
    BY <2>4 DEF AnswerInv, InList
  <2>6. Answered(c)
    BY <2>3, <2>5 DEF Known, Unchecked, Checked, Listed
  <2> QED BY <2>2, <2>6
<1>2. TypeInv => TypeOK
  BY DEF TypeInv
<1>3. RunInv => ErrorsAreKept
  BY DEF RunInv
<1>4. (TypeInv /\ CopyInv /\ AnswerInv) /\ RunInv => NothingIsUnanswered
  BY <1>1, <1>2, <1>3 DEF NothingIsUnanswered
<1> QED BY <1>4, ListsAlways, RunInvAlways, PTL
=============================================================================
