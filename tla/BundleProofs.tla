---------------------------- MODULE BundleProofs ----------------------------
(***************************************************************************)
(* Theorems about Bundle, for any sets of results, any bound on concurrent *)
(* redactors and every set of faults.                                      *)
(***************************************************************************)
EXTENDS Bundle, TLAPS

(***************************************************************************)
(* The caller redacts in at most one round at a time.                      *)
(***************************************************************************)
PcInv ==
    /\ \A r \in Rounds : round[r] \in {"spawn", "drain"} => pc = "redact"
    /\ pc \in {"setup", "collectHost"} => \A r \in Rounds : round[r] = "idle"
    /\ pc = "collectCluster" \/ round["host"] \in {"spawn", "drain"}
         => round["cluster"] = "idle"
    /\ response # "none" <=> pc = "returned"

(***************************************************************************)
(* A round that failed is remembered, and without an error every result    *)
(* belongs to a round that is under way or has redacted it.                *)
(***************************************************************************)
RoundInv ==
    /\ \A r \in Rounds : round[r] = "failed" => errs
    /\ ~Redact => \A r \in Rounds : round[r] = "idle"
    /\ Redact /\ ~errs => \A p \in keys \cap Paths :
                            round[RoundOf(p)] \in {"spawn", "drain", "ok"}
    /\ \A r \in Rounds : round[r] = "ok" => \A p \in Input(r) : red[p] = "done"
    /\ \A r \in Rounds : \A p \in todo[r] : p \in Paths /\ RoundOf(p) = r /\ red[p] = "idle"

(***************************************************************************)
(* What a redactor knows at each of its steps: of its round, its file and  *)
(* what it holds in its buffer.                                            *)
(***************************************************************************)
RedactorInv ==
    \A p \in Paths :
      /\ red[p] # "idle" => p \in keys /\ round[RoundOf(p)] # "idle"
      /\ red[p] = "failed" => p \in errorCh[RoundOf(p)] \/ round[RoundOf(p)] = "failed"
      /\ red[p] \in {"done", "rename", "compress"} => disk[Target(p)] \notin {"raw", "dir"}
      /\ red[p] = "redact" => p \notin Tars
      /\ red[p] \in {"remove", "rename"} => p \notin Tars /\ got[p] \in {"masked", "absent"}
      /\ red[p] \in {"unpack", "create", "compress"} => p \in Tars
      /\ red[p] = "create" => got[p] = "masked"
      /\ red[p] = "compress" => \/ got[p] = "masked"
                                \/ got[p] = "absent" /\ disk[p] = "absent"

(***************************************************************************)
(* A truncated tar file has a redactor that writes it or has failed to.    *)
(***************************************************************************)
DiskInv ==
    /\ \A f \in Files : /\ disk[f] # "own"
                        /\ disk[f] = "torn" => /\ f \in Tars
                                               /\ red[f] \in {"compress", "send", "failed"}
    /\ pc = "returned" => \A f \in Files : disk[f] \notin {"raw", "dir"}

(***************************************************************************)
(* ArchiveBundle loses no result, and what it copies without an error of   *)
(* the redactors is redacted.                                              *)
(***************************************************************************)
ArchiveInv ==
    /\ pc \notin {"archive", "deliver", "returned"} => stat = NoFile
    /\ pc \in {"create", "archive"} =>
         \A p \in keys : \/ p \in left
                         \/ stat # NoFile /\ stat.path = p
                         \/ archive[p] # "none"
    /\ pc = "deliver" \/ response = "ok" => \A p \in keys : archive[p] # "none"
    /\ Redact /\ ~errs => \A f \in Files : archive[f] \in {"none", "masked"}
    /\ response = "ok" => ~errs /\ \A f \in Stored : disk[f] = "absent"

BundleInv ==
    TypeOK /\ PcInv /\ RoundInv /\ RedactorInv /\ DiskInv /\ ArchiveInv

-----------------------------------------------------------------------------
(***************************************************************************)
(* Every redactor works on a file of its own round, and only the redactor  *)
(* of a tar archive works on it.                                           *)
(***************************************************************************)
LEMMA Targets ==
    ASSUME NEW p \in Paths
    PROVE  /\ Target(p) \in Files /\ RoundOf(p) \in Rounds
           /\ RoundOf(Target(p)) = RoundOf(p)
           /\ p \in Files => Target(p) = p
           /\ p \in Tars => p \in Files
           /\ p \in Tars => p \notin Reports
           /\ Target(p) \in Tars => Target(p) = p
  BY BundleAssumption DEF Target, RoundOf, Paths, Files, Rounds

LEMMA BundleInit == Init => BundleInv
<1> SUFFICES ASSUME Init PROVE BundleInv
  OBVIOUS
<1> USE BundleAssumption DEF Init
<1>1. TypeOK
  BY DEF TypeOK, Rounds, Stored, NoFile
<1>2. PcInv /\ RoundInv
  BY DEF PcInv, RoundInv, Input, Rounds
<1>3. RedactorInv
  BY DEF RedactorInv
<1>4. DiskInv /\ ArchiveInv
  BY DEF DiskInv, ArchiveInv, Stored, Paths
<1> QED
  BY <1>1, <1>2, <1>3, <1>4 DEF BundleInv

(***************************************************************************)
(* The steps of the redactors (the goroutines of RedactResult).            *)
(***************************************************************************)
LEMMA RedactorStep ==
    ASSUME BundleInv, NEW p \in Paths, Redactor(p)
    PROVE  BundleInv'
<1> USE BundleAssumption
<1>0. /\ Quiet /\ red[p] \notin {"idle", "done", "failed"}
      /\ p \in keys /\ round[RoundOf(p)] # "idle"
      /\ \E to : to # "idle" /\ red' = [red EXCEPT ![p] = to]
      /\ Target(p) \in Files /\ RoundOf(p) \in Rounds
  <2>1. red[p] \notin {"idle", "done", "failed"} /\ Quiet
    BY DEF Redactor, Stat, Open, Mask, Remove, Rename, Unpack, CreateTar, CompressTar,
           SendError, Step
  <2>2. \E to : to # "idle" /\ red' = [red EXCEPT ![p] = to]
    BY DEF Redactor, Stat, Open, Mask, Remove, Rename, Unpack, CreateTar, CompressTar,
           SendError, Step
  <2> QED
    BY <2>1, <2>2, Targets DEF BundleInv, RedactorInv
<1>1. /\ UNCHANGED <<pc, keys, mem, round, todo, errs, stat, left, archive, whole, response, uploaded>>
      /\ \A q \in Paths : q # p => red'[q] = red[q]
      /\ red'[p] # "idle"
  BY <1>0 DEF Quiet, archiveVars, BundleInv, TypeOK
<1>2. round[RoundOf(p)] # "ok" /\ response # "ok"
  BY <1>0 DEF BundleInv, RoundInv, PcInv, Input, ArchiveInv, TypeOK
<1>3. TypeOK'
  <2> USE DEF BundleInv, TypeOK, Step
  <2>1. CASE Stat(p)
    BY <2>1, <1>1 DEF Stat
  <2>2. CASE Open(p)
    BY <2>2, <1>0, <1>1 DEF Open, Stored
  <2>3. CASE Mask(p)
    BY <2>3, <1>1 DEF Mask
  <2>4. CASE Remove(p)
    BY <2>4, <1>1 DEF Remove
  <2>5. CASE Rename(p)
    BY <2>5, <1>1 DEF Rename
  <2>6. CASE Unpack(p)
    BY <2>6, <1>1 DEF Unpack
  <2>7. CASE CreateTar(p)
    BY <2>7, <1>1 DEF CreateTar
  <2>8. CASE CompressTar(p)
    BY <2>8, <1>1 DEF CompressTar
  <2>9. CASE SendError(p)
    BY <2>9, <1>0, <1>1 DEF SendError
  <2> QED
    BY <2>1, <2>2, <2>3, <2>4, <2>5, <2>6, <2>7, <2>8, <2>9 DEF Redactor
<1>4. PcInv'
  BY <1>1 DEF BundleInv, PcInv
<1>5. RoundInv'
  BY <1>0, <1>1, <1>2 DEF BundleInv, RoundInv, Input, RoundOf, Target
<1>6. ArchiveInv'
  BY <1>1, <1>2 DEF BundleInv, ArchiveInv
<1>7. RedactorInv' /\ DiskInv'
  <2> USE DEF BundleInv, TypeOK, Step, RedactorInv, DiskInv
  <2>0. \A q \in Paths : /\ Target(q) \in Files /\ RoundOf(q) \in Rounds
                         /\ q \in Files => Target(q) = q
                         /\ q \in Tars => q \in Files /\ q \notin Reports
                         /\ Target(q) \in Tars => Target(q) = q
    BY Targets
  <2>1. CASE Stat(p)
    BY <2>0, <2>1, <1>0, <1>1 DEF Stat, Content, Paths
  <2>2. CASE Open(p)
    BY <2>0, <2>2, <1>0, <1>1 DEF Open
  <2>3. CASE Mask(p)
    BY <2>0, <2>3, <1>0, <1>1 DEF Mask
  <2>4. CASE Remove(p)
    BY <2>0, <2>4, <1>0, <1>1 DEF Remove, Stored
  <2>5. CASE Rename(p)
    BY <2>0, <2>5, <1>0, <1>1 DEF Rename, Stored
  <2>6. CASE Unpack(p)
    BY <2>0, <2>6, <1>0, <1>1 DEF Unpack
  <2>7. CASE CreateTar(p)
    BY <2>0, <2>7, <1>0, <1>1 DEF CreateTar, Stored
  <2>8. CASE CompressTar(p)
    BY <2>0, <2>8, <1>0, <1>1 DEF CompressTar, Stored
  <2>9. CASE SendError(p)
    BY <2>0, <2>9, <1>0, <1>1 DEF SendError
  <2> QED
    BY <2>1, <2>2, <2>3, <2>4, <2>5, <2>6, <2>7, <2>8, <2>9 DEF Redactor
<1> QED
  BY <1>3, <1>4, <1>5, <1>6, <1>7 DEF BundleInv

(***************************************************************************)
(* The steps of collection (runHostCollectors and runCollectors).          *)
(***************************************************************************)
LEMMA CollectStep ==
    ASSUME BundleInv, NEW r \in Rounds,
           RunCollectors(r) \/ NoCollectors(r) \/ CollectorsReturnError(r)
    PROVE  BundleInv'
<1> USE BundleAssumption
<1>0. /\ pc \in {"collectHost", "collectCluster"} /\ round[r] = "idle"
      /\ response = "none"
      /\ round["host"] \notin {"spawn", "drain"}
      /\ round["cluster"] = "idle"
  BY DEF BundleInv, PcInv, RunCollectors, NoCollectors, CollectorsReturnError, Rounds, TypeOK
<1>1. CASE RunCollectors(r)
  <2>1. PICK saved \in SUBSET (CollectorFiles(r) \ Reports),
             reports \in SUBSET (CollectorFiles(r) \cap Reports),
             links \in SUBSET {l \in Links : RoundOf(l) = r} :
          /\ Collected(saved, reports, links)
          /\ IF Redact
             THEN /\ pc' = "redact"
                  /\ round' = [round EXCEPT ![r] = "spawn"]
                  /\ todo' = [todo EXCEPT ![r] = saved \cup reports \cup links]
             ELSE pc' = NextAfter(r) /\ UNCHANGED <<round, todo>>
    BY <1>1 DEF RunCollectors
  <2> DEFINE new == saved \cup reports \cup links
  <2>2. /\ new \subseteq Paths
        /\ \A p \in new : RoundOf(p) = r
        /\ keys' = keys \cup new
        /\ mem' = mem \cup reports /\ reports \subseteq Reports
    BY <2>1 DEF Collected, CollectorFiles, Paths
  <2>3. /\ disk' \in [Stored -> {"absent", "raw", "masked", "torn", "own", "dir"}]
        /\ \A f \in Stored : \/ disk'[f] = disk[f]
                             \/ f \in Files /\ RoundOf(f) = r /\ disk'[f] \in {"raw", "dir"}
    BY <2>1 DEF Collected, CollectorFiles, Stored, BundleInv, TypeOK
  <2>4. /\ UNCHANGED <<errorCh, red, got, errs, stat, left, archive, whole, response, uploaded>>
        /\ pc' \in {"redact", "collectCluster", "analyze"}
        /\ pc' = "collectCluster" => r = "host"
        /\ \A q \in Rounds : q # r => round'[q] = round[q]
        /\ round'[r] \in {"idle", "spawn"}
        /\ round'[r] = "spawn" => pc' = "redact"
        /\ Redact <=> round'[r] = "spawn"
    BY <1>0, <1>1, <2>1 DEF RunCollectors, NextAfter, Rounds, archiveVars, BundleInv, TypeOK
  <2> HIDE DEF new
  <2>5. TypeOK'
    <3>1. round' \in [Rounds -> {"idle", "spawn", "drain", "ok", "failed"}]
      BY <2>1 DEF BundleInv, TypeOK
    <3>2. todo' \in [Rounds -> SUBSET keys']
      BY <2>1, <2>2 DEF BundleInv, TypeOK, new
    <3>3. errorCh' \in [Rounds -> SUBSET keys'] /\ keys' \subseteq Paths \cup {Summary}
      BY <2>2, <2>4 DEF BundleInv, TypeOK
    <3>4. mem' \subseteq keys' \cap Reports
      BY <2>2 DEF BundleInv, TypeOK, new
    <3>5. stat' = NoFile \/ stat' \in [path : keys', content : {"raw", "masked", "torn", "own", "link"}]
      BY <2>2, <2>4 DEF BundleInv, TypeOK
    <3> QED
      BY <2>2, <2>3, <2>4, <3>1, <3>2, <3>3, <3>4, <3>5 DEF BundleInv, TypeOK
  <2>6. PcInv'
    BY <1>0, <2>4 DEF BundleInv, PcInv, Rounds
  <2>7. \A p \in Paths : RoundOf(p) = r => red[p] = "idle"
    BY <1>0 DEF BundleInv, RedactorInv, TypeOK
  <2>8. RoundInv'
    <3>1. \A q \in Rounds : \A p \in todo'[q] :
            p \in Paths /\ RoundOf(p) = q /\ red[p] = "idle"
      BY <2>1, <2>2, <2>7 DEF BundleInv, RoundInv, TypeOK, new
    <3> QED
      BY <1>0, <2>2, <2>4, <3>1, Targets
      DEF BundleInv, RoundInv, Input, RoundOf, Target, Rounds
  <2>9. RedactorInv'
    BY <1>0, <2>2, <2>3, <2>4, <2>7, Targets DEF BundleInv, RedactorInv, Stored
  <2>10. DiskInv'
    BY <2>3, <2>4, <2>7 DEF BundleInv, DiskInv, Stored
  <2>11. ArchiveInv'
    BY <1>0, <2>4 DEF BundleInv, ArchiveInv
  <2> QED
    BY <2>5, <2>6, <2>8, <2>9, <2>10, <2>11 DEF BundleInv
<1>2. CASE NoCollectors(r) \/ CollectorsReturnError(r)
  <2>1. /\ UNCHANGED <<keys, mem, disk, round, todo, errorCh, red, got, stat, left, archive,
                       whole, response, uploaded>>
        /\ errs' \in BOOLEAN /\ (errs => errs')
        /\ pc' \in {"collectCluster", "analyze"}
    BY <1>2 DEF NoCollectors, CollectorsReturnError, NextAfter, redactVars, archiveVars,
                BundleInv, TypeOK
  <2>2. TypeOK'
    BY <2>1 DEF BundleInv, TypeOK
  <2>3. PcInv' /\ RoundInv'
    BY <1>0, <2>1 DEF BundleInv, PcInv, RoundInv, Input, RoundOf, Target, Rounds
  <2>4. RedactorInv' /\ DiskInv' /\ ArchiveInv'
    BY <1>0, <2>1 DEF BundleInv, RedactorInv, DiskInv, ArchiveInv, RoundOf, Target
  <2> QED
    BY <2>2, <2>3, <2>4 DEF BundleInv
<1> QED
  BY <1>1, <1>2

(***************************************************************************)
(* The steps of the caller of RedactResult.                                *)
(***************************************************************************)
LEMMA RoundStep ==
    ASSUME BundleInv, NEW r \in Rounds,
           \/ SpawnedAll(r) \/ ReturnFirstError(r) \/ ReturnNil(r)
           \/ \E p \in Paths : Spawn(r, p)
    PROVE  BundleInv'
<1> USE BundleAssumption
<1>0. /\ pc = "redact" /\ round[r] \in {"spawn", "drain"} /\ response = "none"
      /\ r = "host" => round["cluster"] = "idle"
  BY DEF BundleInv, PcInv, Spawn, SpawnedAll, ReturnFirstError, ReturnNil, Rounds, TypeOK
<1>1. CASE \E p \in Paths : Spawn(r, p)
  <2>1. PICK p \in Paths : Spawn(r, p)
    BY <1>1
  <2>2. /\ UNCHANGED <<pc, keys, mem, disk, round, errorCh, got, errs, stat, left, archive,
                       whole, response, uploaded>>
        /\ todo' = [todo EXCEPT ![r] = @ \ {p}] /\ p \in keys
        /\ red' = [red EXCEPT ![p] = "stat"]
    BY <2>1 DEF Spawn, archiveVars, BundleInv, TypeOK
  <2>3. TypeOK'
    BY <2>2 DEF BundleInv, TypeOK
  <2>4. /\ round[RoundOf(p)] # "ok" /\ round[RoundOf(p)] # "idle"
        /\ red[p] = "idle"
    BY <1>0, <2>1 DEF Spawn, BundleInv, RoundInv
  <2>5. PcInv' /\ RoundInv'
    <3>1. \A q \in Paths : q # p => red'[q] = red[q]
      BY <2>2
    <3>2. \A q \in Rounds : \A o \in todo'[q] : o \in todo[q] /\ (q = r => o # p)
      BY <2>2 DEF BundleInv, TypeOK
    <3>3. \A q \in Rounds : \A o \in todo'[q] :
            o \in Paths /\ RoundOf(o) = q /\ red'[o] = "idle"
      BY <2>1, <3>1, <3>2 DEF Spawn, BundleInv, RoundInv
    <3>4. \A q \in Rounds : round[q] = "ok" => \A o \in Input(q) : red'[o] = "done"
      BY <2>4, <3>1 DEF BundleInv, RoundInv, Input
    <3> QED
      BY <2>2, <3>3, <3>4 DEF BundleInv, PcInv, RoundInv, Input, RoundOf, Target
  <2>6. RedactorInv' /\ DiskInv'
    BY <2>2, <2>4 DEF BundleInv, RedactorInv, DiskInv, RoundOf, Target, TypeOK
  <2>7. ArchiveInv'
    BY <2>2 DEF BundleInv, ArchiveInv
  <2> QED
    BY <2>3, <2>5, <2>6, <2>7 DEF BundleInv
<1>2. CASE SpawnedAll(r) \/ ReturnNil(r) \/ ReturnFirstError(r)
  <2>1. /\ UNCHANGED <<keys, mem, disk, todo, red, got, stat, left, archive, whole, response, uploaded>>
        /\ errs' \in BOOLEAN /\ (errs => errs')
        /\ pc' \in {"redact", "collectCluster", "analyze"}
        /\ pc' = "collectCluster" => r = "host"
        /\ round' \in [Rounds -> {"idle", "spawn", "drain", "ok", "failed"}]
        /\ \A q \in Rounds : q # r => round'[q] = round[q]
        /\ round'[r] \in {"drain", "ok", "failed"}
        /\ round'[r] = "drain" => pc' = "redact"
        /\ round'[r] = "failed" => errs'
    <3> USE <1>0 DEF NextAfter, archiveVars, BundleInv, TypeOK, Rounds
    <3>1. CASE SpawnedAll(r)
      BY <3>1 DEF SpawnedAll
    <3>2. CASE ReturnNil(r)
      BY <3>2 DEF ReturnNil
    <3>3. CASE ReturnFirstError(r)
      BY <3>3 DEF ReturnFirstError
    <3> QED
      BY <1>2, <3>1, <3>2, <3>3
  <2>2. /\ errorCh' \in [Rounds -> SUBSET keys]
        /\ \A q \in Rounds : \/ errorCh'[q] = errorCh[q]
                             \/ q = r /\ round'[r] = "failed"
    <3>1. CASE UNCHANGED errorCh
      BY <3>1 DEF BundleInv, TypeOK
    <3>2. CASE ReturnFirstError(r)
      BY <3>2 DEF ReturnFirstError, BundleInv, TypeOK
    <3> QED
      BY <1>2, <3>1, <3>2 DEF SpawnedAll, ReturnNil
  <2>3. round'[r] = "ok" => \A p \in Input(r) : red[p] = "done"
    <3> SUFFICES ASSUME round'[r] = "ok", NEW p \in Input(r) PROVE red[p] = "done"
      OBVIOUS
    <3>1. ReturnNil(r)
      BY <1>0, <1>2 DEF SpawnedAll, ReturnFirstError, BundleInv, TypeOK
    <3>2. red[p] \in {"done", "failed"} /\ errorCh[r] = {} /\ round[r] = "drain"
      BY <3>1 DEF ReturnNil, AllRedacted, Ended
    <3> QED
      BY <3>2 DEF BundleInv, RedactorInv, Input
  <2>4. TypeOK'
    BY <2>1, <2>2 DEF BundleInv, TypeOK
  <2>5. PcInv'
    BY <1>0, <2>1 DEF BundleInv, PcInv, Rounds
  <2>6. RoundInv'
    BY <1>0, <2>1, <2>3, Targets DEF BundleInv, RoundInv, Input, RoundOf, Target
  <2>7. RedactorInv'
    BY <1>0, <2>1, <2>2, Targets DEF BundleInv, RedactorInv
  <2>8. DiskInv' /\ ArchiveInv'
    BY <1>0, <2>1 DEF BundleInv, DiskInv, ArchiveInv
  <2> QED
    BY <2>4, <2>5, <2>6, <2>7, <2>8 DEF BundleInv
<1> QED
  BY <1>1, <1>2

(***************************************************************************)
(* The steps of CollectSupportBundleFromSpec around them.                  *)
(***************************************************************************)
LEMMA DeliverStep ==
    ASSUME BundleInv, SetUp \/ Analyze \/ ArchiveCreate \/ ArchiveStat \/ ArchiveCopy \/ ArchiveDone \/ Deliver
    PROVE  BundleInv'
<1> USE BundleAssumption
<1>0. /\ \A r \in Rounds : round[r] \notin {"spawn", "drain"}
      /\ response = "none" /\ pc # "returned"
      /\ UNCHANGED <<mem, round, todo, errorCh, red, errs>>
  BY DEF BundleInv, PcInv, SetUp, Analyze, ArchiveCreate, ArchiveStat, ArchiveCopy, ArchiveDone, Deliver,
         redactVars
\* without an error no redactor is at work and everything collected is redacted
<1>1. ASSUME ~errs
      PROVE  /\ \A p \in Paths : red[p] \in {"idle", "done"}
             /\ Redact => \A f \in Files \cap keys : disk[f] \in {"masked", "absent"}
  <2>1. \A p \in Paths : red[p] \in {"idle", "done"}
    BY <1>0, <1>1, Targets DEF BundleInv, RoundInv, RedactorInv, Input
  <2>2. ASSUME Redact, NEW f \in Files \cap keys PROVE red[f] = "done"
    BY <1>0, <1>1, <2>2, Targets DEF BundleInv, RoundInv, Input, Paths
  <2> QED
    BY <2>1, <2>2, Targets DEF BundleInv, RedactorInv, DiskInv, TypeOK, Stored, Paths
\* the steps that return
<1>2. ASSUME NEW how, Return(how), how \in {"ok", "error", "nil"},
             stat' = NoFile \/ stat' = stat, left' \subseteq left, UNCHANGED <<keys, archive, whole>>,
             uploaded' \in BOOLEAN,
             how = "ok" => pc = "deliver" /\ ~errs
      PROVE  BundleInv'
  <2>1. TypeOK'
    BY <1>0, <1>2 DEF Return, BundleInv, TypeOK
  <2>2. PcInv' /\ RoundInv'
    BY <1>0, <1>2 DEF Return, BundleInv, PcInv, RoundInv, Input, RoundOf, Target
  <2>3. RedactorInv'
    BY <1>0, <1>2, Targets DEF Return, BundleInv, RedactorInv, Stored
  <2>4. DiskInv' /\ ArchiveInv'
    BY <1>0, <1>2 DEF Return, BundleInv, DiskInv, ArchiveInv, Stored
  <2> QED
    BY <2>1, <2>2, <2>3, <2>4 DEF BundleInv
<1>3. CASE SetUp
  <2>1. CASE Return("nil")
    BY <1>2, <1>3, <2>1 DEF SetUp, BundleInv, TypeOK
  <2>2. CASE Goto("collectHost")
    <3>1. UNCHANGED <<keys, disk, got, stat, left, archive, whole, response, uploaded>>
          /\ pc = "setup" /\ pc' = "collectHost"
      BY <1>3, <2>2 DEF SetUp, Goto
    <3>2. TypeOK' /\ PcInv'
      BY <1>0, <1>3, <3>1 DEF SetUp, BundleInv, TypeOK, PcInv
    <3>3. RoundInv' /\ RedactorInv'
      BY <1>0, <3>1 DEF BundleInv, RoundInv, RedactorInv, Input, RoundOf, Target
    <3>4. DiskInv' /\ ArchiveInv'
      BY <1>0, <3>1 DEF BundleInv, DiskInv, ArchiveInv
    <3> QED
      BY <3>2, <3>3, <3>4 DEF BundleInv
  <2> QED
    BY <1>3, <2>1, <2>2 DEF SetUp
<1>4. CASE Analyze
  <2>1. CASE Return("nil") /\ UNCHANGED <<keys, left>>
    BY <1>2, <1>4, <2>1 DEF Analyze, BundleInv, TypeOK
  <2>2. CASE pc' = "create"
    <3>1. /\ UNCHANGED <<got, stat, archive, whole, response, uploaded>>
          /\ keys' = keys \cup {Summary} /\ left' = keys' /\ pc = "analyze"
          /\ \E content \in {"own", "absent"} : disk' = [disk EXCEPT ![Summary] = content]
      BY <1>4, <2>2 DEF Analyze, Return
    <3>2. \A f \in Files : disk'[f] = disk[f] /\ f # Summary
      BY <3>1 DEF BundleInv, TypeOK, Stored, Paths
    <3>3. TypeOK'
      <4>0. PICK content \in {"own", "absent"} : disk' = [disk EXCEPT ![Summary] = content]
        BY <3>1
      <4>1. /\ disk' \in [Stored -> {"absent", "raw", "masked", "torn", "own", "dir"}]
            /\ keys' \subseteq Paths \cup {Summary} /\ keys \subseteq keys'
        BY <3>1, <4>0 DEF BundleInv, TypeOK
      <4>2. todo' \in [Rounds -> SUBSET keys'] /\ errorCh' \in [Rounds -> SUBSET keys']
        BY <1>0, <4>1 DEF BundleInv, TypeOK
      <4>3. stat' = NoFile \/ stat' \in [path : keys', content : {"raw", "masked", "torn", "own", "link"}]
        BY <3>1, <4>1 DEF BundleInv, TypeOK
      <4> QED
        BY <1>0, <2>2, <3>1, <4>1, <4>2, <4>3 DEF BundleInv, TypeOK
    <3>4. PcInv' /\ RoundInv'
      BY <1>0, <2>2, <3>1 DEF BundleInv, PcInv, RoundInv, Input, RoundOf, Target
    <3>5. RedactorInv'
      <4>1. \A p \in Paths : disk'[Target(p)] = disk[Target(p)]
                           /\ (p \in Tars => disk'[p] = disk[p])
        BY <3>2, Targets
      <4> QED
        BY <1>0, <3>1, <4>1 DEF BundleInv, RedactorInv, RoundOf, Target
    <3>6. stat = NoFile
      BY <3>1 DEF BundleInv, ArchiveInv, TypeOK
    <3>7. DiskInv' /\ ArchiveInv'
      BY <1>0, <2>2, <3>1, <3>2, <3>6 DEF BundleInv, DiskInv, ArchiveInv
    <3> QED
      BY <3>3, <3>4, <3>5, <3>7 DEF BundleInv
  <2> QED
    BY <1>4, <2>1, <2>2 DEF Analyze
<1>5. CASE ArchiveStat
  <2>1. PICK p \in left :
          /\ left' = left \ {p}
          /\ \/ Return("nil") /\ UNCHANGED <<stat, archive>>
             \/ /\ Content(p) = "dir" /\ archive' = [archive EXCEPT ![p] = "dir"]
                /\ Goto("archive") /\ UNCHANGED stat
             \/ /\ Content(p) \notin {"absent", "dir"}
                /\ stat' = [path |-> p, content |-> Content(p)]
                /\ Goto("archive") /\ UNCHANGED archive
    BY <1>5 DEF ArchiveStat
  <2>2. CASE Return("nil") /\ UNCHANGED <<stat, archive>>
    BY <1>2, <1>5, <2>1, <2>2 DEF ArchiveStat, BundleInv, TypeOK
  <2>3. CASE Goto("archive")
    <3>1. /\ UNCHANGED <<pc, keys, disk, got, whole, response, uploaded>>
          /\ pc = "archive" /\ stat = NoFile /\ p \in keys
      BY <1>5, <2>1, <2>3 DEF ArchiveStat, Goto, BundleInv, TypeOK
    <3>2. PcInv' /\ RoundInv' /\ RedactorInv' /\ DiskInv'
      BY <1>0, <3>1 DEF BundleInv, PcInv, RoundInv, RedactorInv, DiskInv, Input, RoundOf, Target
    <3>3. CASE /\ Content(p) \notin {"absent", "dir"} /\ UNCHANGED archive
               /\ stat' = [path |-> p, content |-> Content(p)]
      <4>1. /\ Content(p) \in {"raw", "masked", "torn", "own", "link"}
            /\ stat' # NoFile /\ stat'.path = p
        BY <1>0, <3>1, <3>3 DEF Content, BundleInv, TypeOK, Stored, Paths, NoFile
      <4>2. TypeOK'
        BY <1>0, <2>1, <3>1, <3>3, <4>1 DEF BundleInv, TypeOK
      <4>3. ArchiveInv'
        BY <1>0, <2>1, <3>1, <3>3, <4>1 DEF BundleInv, ArchiveInv
      <4> QED
        BY <3>2, <4>2, <4>3 DEF BundleInv
    <3>4. CASE /\ Content(p) = "dir" /\ UNCHANGED stat
               /\ archive' = [archive EXCEPT ![p] = "dir"]
      <4>1. TypeOK'
        BY <1>0, <2>1, <3>1, <3>4 DEF BundleInv, TypeOK
      <4>2. p \in Files => ~(Redact /\ ~errs)
        BY <1>1, <3>1, <3>4 DEF Content, Paths
      <4>3. \A q \in keys : q \in left' \/ archive'[q] # "none"
        BY <2>1, <3>1, <3>4 DEF BundleInv, TypeOK, ArchiveInv
      <4>4. Redact /\ ~errs => \A f \in Files : archive'[f] \in {"none", "masked"}
        BY <3>4, <4>2 DEF BundleInv, TypeOK, ArchiveInv, Paths
      <4>5. ArchiveInv'
        BY <1>0, <3>1, <3>4, <4>3, <4>4 DEF BundleInv, ArchiveInv
      <4> QED
        BY <3>2, <4>1, <4>5 DEF BundleInv
    <3> QED
      BY <2>1, <2>3, <3>1, <3>3, <3>4 DEF Return, Goto
  <2> QED
    BY <2>1, <2>2, <2>3
<1>6. CASE ArchiveCopy
  <2> DEFINE p == stat.path
  <2>1. /\ pc = "archive" /\ stat # NoFile /\ p \in keys
        /\ UNCHANGED <<keys, left, whole, uploaded>>
        /\ \/ /\ Content(p) # "absent"
              /\ archive' = [archive EXCEPT ![p] = Content(p)]
              /\ stat' = NoFile /\ Goto("archive")
           \/ Return("nil") /\ UNCHANGED <<archive, stat>>
    BY <1>6 DEF ArchiveCopy, BundleInv, TypeOK
  <2>2. CASE Return("nil") /\ UNCHANGED <<archive, stat>>
    BY <1>2, <2>1, <2>2 DEF BundleInv, TypeOK
  <2>3. CASE /\ Content(p) # "absent"
             /\ archive' = [archive EXCEPT ![p] = Content(p)]
             /\ stat' = NoFile /\ Goto("archive")
    <3> HIDE DEF p
    <3>1. UNCHANGED <<pc, keys, disk, got, left, whole, response, uploaded>>
      BY <2>1, <2>3 DEF Goto
    <3>2. Content(p) \in {"raw", "masked", "torn", "own", "link", "dir"}
      BY <1>0, <2>1, <2>3 DEF Content, BundleInv, TypeOK, Stored, Paths
    <3>3. TypeOK'
      BY <1>0, <2>1, <2>3, <3>1, <3>2 DEF BundleInv, TypeOK
    <3>4. PcInv' /\ RoundInv' /\ RedactorInv' /\ DiskInv'
      BY <1>0, <3>1 DEF BundleInv, PcInv, RoundInv, RedactorInv, DiskInv, Input, RoundOf, Target
    <3>5. p \in Files /\ Redact /\ ~errs => Content(p) = "masked"
      BY <1>1, <2>1, <2>3 DEF Content
    <3>6. \A q \in keys : q \in left \/ archive'[q] # "none"
      BY <2>1, <2>3, <3>2 DEF BundleInv, TypeOK, ArchiveInv, p
    <3>7. ArchiveInv'
      BY <1>0, <2>1, <2>3, <3>1, <3>5, <3>6 DEF BundleInv, TypeOK, ArchiveInv, Paths
    <3> QED
      BY <3>3, <3>4, <3>7 DEF BundleInv
  <2> QED
    BY <2>1, <2>2, <2>3
<1>7. CASE ArchiveDone
  <2>1. /\ UNCHANGED <<keys, disk, got, stat, left, archive, response, uploaded>>
        /\ pc = "archive" /\ pc' = "deliver" /\ stat = NoFile /\ left = {}
        /\ whole' \in BOOLEAN
    BY <1>7 DEF ArchiveDone, redactVars
  <2>2. TypeOK' /\ PcInv'
    BY <1>0, <2>1 DEF BundleInv, TypeOK, PcInv
  <2>3. RoundInv' /\ RedactorInv'
    BY <1>0, <2>1 DEF BundleInv, RoundInv, RedactorInv, Input, RoundOf, Target
  <2>4. DiskInv' /\ ArchiveInv'
    BY <1>0, <2>1 DEF BundleInv, DiskInv, ArchiveInv
  <2> QED
    BY <2>2, <2>3, <2>4 DEF BundleInv
<1>9. CASE ArchiveCreate
  <2>1. CASE Return("nil")
    BY <1>2, <1>9, <2>1 DEF ArchiveCreate, BundleInv, TypeOK
  <2>2. CASE Goto("archive")
    <3>1. /\ UNCHANGED <<keys, disk, got, stat, left, archive, whole, response, uploaded>>
          /\ pc = "create" /\ pc' = "archive"
      BY <1>9, <2>2 DEF ArchiveCreate, Goto
    <3>2. TypeOK' /\ PcInv'
      BY <1>0, <3>1 DEF BundleInv, TypeOK, PcInv
    <3>3. RoundInv' /\ RedactorInv'
      BY <1>0, <3>1 DEF BundleInv, RoundInv, RedactorInv, Input, RoundOf, Target
    <3>4. DiskInv' /\ ArchiveInv'
      BY <1>0, <3>1 DEF BundleInv, DiskInv, ArchiveInv
    <3> QED
      BY <3>2, <3>3, <3>4 DEF BundleInv
  <2> QED
    BY <1>9, <2>1, <2>2 DEF ArchiveCreate
<1>8. CASE Deliver
  <2>1. PICK how \in {"ok", "error", "nil"} : Return(how) /\ (how = "ok" => ~errs)
    BY <1>8 DEF Deliver, BundleInv, TypeOK
  <2> QED
    BY <1>2, <1>8, <2>1 DEF Deliver
<1> QED
  BY <1>3, <1>4, <1>5, <1>6, <1>7, <1>8, <1>9

(***************************************************************************)
(* BundleInv is an inductive invariant of the run of a bundle: of          *)
(* CollectSupportBundleFromSpec, both calls of RedactResult and all their  *)
(* goroutines, whatever fails.                                             *)
(***************************************************************************)
THEOREM BundleInvariant == Spec => []BundleInv
<1>1. BundleInv /\ [Next]_<<vars, faults>> => BundleInv'
  <2> SUFFICES ASSUME BundleInv, [Next]_<<vars, faults>> PROVE BundleInv'
    OBVIOUS
  <2>1. CASE Caller
    BY <2>1, CollectStep, RoundStep, DeliverStep DEF Caller
  <2>2. CASE \E p \in Paths : Redactor(p)
    BY <2>2, RedactorStep
  <2>3. CASE UNCHANGED vars
    <3>1. TypeOK' /\ PcInv' /\ RedactorInv'
      BY <2>3 DEF vars, BundleInv, TypeOK, PcInv, RedactorInv, RoundOf, Target
    <3>2. RoundInv' /\ DiskInv' /\ ArchiveInv'
      BY <2>3 DEF vars, BundleInv, RoundInv, DiskInv, ArchiveInv, Input, RoundOf, Target
    <3> QED
      BY <3>1, <3>2 DEF BundleInv
  <2> QED
    BY <2>1, <2>2, <2>3 DEF Next
<1> QED
  BY <1>1, BundleInit, PTL DEF Spec

(***************************************************************************)
(* The variables have their types; a redactor is only started for, and an  *)
(* error only reported of, a result that was collected.                    *)
(***************************************************************************)
THEOREM BundleTypeCorrect == Spec => []TypeOK
<1>1. BundleInv => TypeOK
  BY DEF BundleInv
<1> QED
  BY <1>1, BundleInvariant, PTL

(***************************************************************************)
(* RedactResult returning nil means that its goroutines have ended and     *)
(* left no file as it was collected or half written.                       *)
(***************************************************************************)
THEOREM RedactedWhenNil == Spec => []NilMeansRedacted
<1>1. BundleInv => NilMeansRedacted
  <2> SUFFICES ASSUME BundleInv, NEW r \in Rounds, round[r] = "ok", NEW p \in Input(r)
               PROVE  Ended(p) /\ disk[Target(p)] \in {"masked", "absent"}
    BY DEF NilMeansRedacted
  <2>1. red[p] = "done" /\ p \in Paths
    BY DEF BundleInv, RoundInv, Input
  <2>2. Target(p) \in Files /\ (Target(p) \in Tars => Target(p) = p)
    BY <2>1, Targets
  <2>3. disk[Target(p)] \notin {"raw", "torn", "own", "dir"}
    BY <2>1, <2>2 DEF BundleInv, RedactorInv, DiskInv
  <2> QED
    BY <2>1, <2>2, <2>3 DEF Ended, BundleInv, TypeOK, Stored
<1> QED
  BY <1>1, BundleInvariant, PTL

(***************************************************************************)
(* A bundle returned without an error is complete and, if redaction is on, *)
(* redacted in every file (CollectSupportBundleFromSpec, ArchiveBundle).   *)
(***************************************************************************)
THEOREM BundleIsClean == Spec => []CleanBundle
<1>1. BundleInv => CleanBundle
  BY DEF BundleInv, ArchiveInv, CleanBundle
<1> QED
  BY <1>1, BundleInvariant, PTL

(***************************************************************************)
(* No redactor makes the bundle directory again after a run that returned  *)
(* without an error has removed it.                                        *)
(***************************************************************************)
THEOREM DirectoryStaysGone == Spec => []DirectoryGone
<1>1. BundleInv => DirectoryGone
  BY DEF BundleInv, ArchiveInv, DirectoryGone
<1> QED
  BY <1>1, BundleInvariant, PTL

-----------------------------------------------------------------------------
(***************************************************************************)
(* The archive is empty before ArchiveBundle, which writes a result only   *)
(* when it comes to it, and comes to it only once.                         *)
(***************************************************************************)
CopyInv ==
    /\ Stage = "gather" => stat = NoFile /\ \A p \in Paths \cup {Summary} : archive[p] = "none"
    /\ pc = "create" => stat = NoFile
    /\ pc \in {"create", "archive"} => \A p \in left : archive[p] = "none" /\ (stat # NoFile => stat.path # p)
    /\ pc = "archive" /\ stat # NoFile => archive[stat.path] = "none"

(***************************************************************************)
(* A step of a redactor, or one of the caller that is neither analysis nor *)
(* archive nor delivery, leaves the archive and its bookkeeping alone.     *)
(***************************************************************************)
Early ==
    \/ \E r \in Rounds :
         \/ NoCollectors(r) \/ CollectorsReturnError(r)
         \/ SpawnedAll(r) \/ ReturnFirstError(r) \/ ReturnNil(r)
         \/ \E p \in Paths : Spawn(r, p)
    \/ \E p \in Paths : Redactor(p)

LEMMA EarlySteps ==
    ASSUME BundleInv, Early
    PROVE  UNCHANGED <<keys, Stage, archiveVars>> /\ (pc' = pc \/ Stage = "gather")
<1>1. CASE \E p \in Paths : Redactor(p)
  BY <1>1 DEF Redactor, Stat, Open, Mask, Remove, Rename, Unpack, CreateTar, CompressTar,
              SendError, Quiet, Stage
<1>2. ASSUME NEW r \in Rounds,
             \/ NoCollectors(r) \/ CollectorsReturnError(r)
             \/ SpawnedAll(r) \/ \E p \in Paths : Spawn(r, p)
      PROVE  UNCHANGED <<keys, Stage, archiveVars>> /\ (pc' = pc \/ Stage = "gather")
  BY <1>2 DEF NoCollectors, CollectorsReturnError, SpawnedAll, Spawn, NextAfter, Stage, Rounds
<1>3. ASSUME NEW r \in Rounds, ReturnFirstError(r) \/ ReturnNil(r)
      PROVE  UNCHANGED <<keys, Stage, archiveVars>> /\ (pc' = pc \/ Stage = "gather")
  <2>1. pc = "redact"
    BY <1>3 DEF ReturnFirstError, ReturnNil, BundleInv, PcInv
  <2> QED
    BY <1>3, <2>1 DEF ReturnFirstError, ReturnNil, NextAfter, Stage, Rounds
<1> QED
  BY <1>1, <1>2, <1>3 DEF Early

LEMMA CopyStep ==
    ASSUME BundleInv, CopyInv, [Next]_<<vars, faults>>
    PROVE  CopyInv'
<1>1. CASE Early
  <2>1. UNCHANGED <<keys, Stage, stat, left, archive>> /\ (pc' = pc \/ Stage = "gather")
    BY <1>1, EarlySteps DEF archiveVars
  <2> QED
    BY <2>1 DEF CopyInv, Stage
<1>2. CASE SetUp
  BY <1>2 DEF SetUp, Goto, Return, CopyInv, Stage
<1>3. CASE \E r \in Rounds : RunCollectors(r)
  BY <1>3 DEF RunCollectors, archiveVars, NextAfter, CopyInv, Stage
<1>4. CASE Analyze
  <2>1. stat = NoFile /\ stat' = NoFile /\ archive' = archive
        /\ \A p \in Paths \cup {Summary} : archive[p] = "none"
    BY <1>4 DEF Analyze, CopyInv, Stage
  <2>2. CASE Return("nil")
    BY <2>1, <2>2 DEF Return, CopyInv, Stage
  <2>3. CASE pc' = "create" /\ left' = keys' /\ keys' = keys \cup {Summary}
    BY <2>1, <2>3 DEF CopyInv, Stage, BundleInv, TypeOK
  <2> QED
    BY <1>4, <2>2, <2>3 DEF Analyze
<1>5. CASE ArchiveStat
  <2>1. CASE Return("nil")
    BY <2>1 DEF Return, CopyInv, Stage
  <2>2. PICK p \in left :
          /\ left' = left \ {p}
          /\ \/ Return("nil")
             \/ stat' = stat /\ archive' = [archive EXCEPT ![p] = "dir"] /\ Goto("archive")
             \/ /\ stat' = [path |-> p, content |-> Content(p)] /\ archive' = archive
                /\ Goto("archive")
    BY <1>5 DEF ArchiveStat
  <2>3. CASE /\ stat' = [path |-> p, content |-> Content(p)] /\ archive' = archive
             /\ Goto("archive")
    BY <1>5, <2>2, <2>3 DEF ArchiveStat, Goto, CopyInv, Stage
  <2>4. CASE stat' = stat /\ archive' = [archive EXCEPT ![p] = "dir"] /\ Goto("archive")
    <3>1. \A q \in left' : archive'[q] = archive[q]
      BY <2>2, <2>4 DEF BundleInv, TypeOK
    <3> QED
      BY <1>5, <2>2, <2>4, <3>1 DEF ArchiveStat, Goto, CopyInv, Stage
  <2> QED
    BY <2>1, <2>2, <2>3, <2>4
<1>6. CASE ArchiveCopy
  <2>1. CASE Return("nil")
    BY <2>1 DEF Return, CopyInv, Stage
  <2>2. CASE archive' = [archive EXCEPT ![stat.path] = Content(stat.path)]
             /\ stat' = NoFile /\ Goto("archive")
    <3>1. \A p \in left : archive'[p] = archive[p]
      BY <1>6, <2>2 DEF ArchiveCopy, CopyInv, BundleInv, TypeOK
    <3> QED
      BY <1>6, <2>2, <3>1 DEF ArchiveCopy, Goto, CopyInv, Stage
  <2> QED
    BY <1>6, <2>1, <2>2 DEF ArchiveCopy
<1>7. CASE ArchiveCreate \/ ArchiveDone \/ Deliver
  BY <1>7 DEF ArchiveCreate, ArchiveDone, Deliver, Goto, Return, CopyInv, Stage
<1>8. CASE UNCHANGED vars
  BY <1>8 DEF vars, CopyInv, Stage
<1> QED
  BY <1>1, <1>2, <1>3, <1>4, <1>5, <1>6, <1>7, <1>8 DEF Next, Caller, Early

-----------------------------------------------------------------------------
(***************************************************************************)
(* Every step of a run is one of the contract, or changes nothing that the *)
(* contract speaks of.                                                     *)
(***************************************************************************)
LEMMA ContractStep ==
    ASSUME BundleInv, BundleInv', CopyInv, [Next]_<<vars, faults>>
    PROVE  [Contract!Next]_(Contract!vars)
<1>1. CASE Early \/ UNCHANGED vars
  <2>1. UNCHANGED <<keys, Stage, archive, whole, response, uploaded>>
    BY <1>1, EarlySteps DEF archiveVars, vars, Stage
  <2> QED
    BY <2>1 DEF Contract!vars
<1>2. ASSUME Return("nil"), pc \notin {"deliver", "returned"},
             UNCHANGED <<keys, archive, whole, uploaded>>
      PROVE  Contract!Next
  BY <1>2 DEF Return, Stage, Contract!Next, Contract!GiveUp
<1>3. CASE SetUp
  <2>1. CASE Return("nil")
    BY <1>2, <1>3, <2>1 DEF SetUp
  <2>2. CASE Goto("collectHost")
    BY <1>3, <2>2 DEF SetUp, Goto, Stage, Contract!vars
  <2> QED
    BY <1>3, <2>1, <2>2 DEF SetUp
<1>4. CASE \E r \in Rounds : RunCollectors(r)
  <2>1. /\ keys \subseteq keys' /\ Stage = "gather" /\ Stage' = "gather"
        /\ UNCHANGED <<archive, whole, response, uploaded>>
    BY <1>4 DEF RunCollectors, Collected, NextAfter, archiveVars, Stage
  <2>2. Contract!Gather
    BY <2>1 DEF Contract!Gather, Contract!More, BundleInv, TypeOK
  <2> QED
    BY <2>2 DEF Contract!Next
<1>5. CASE Analyze
  <2>1. CASE Return("nil") /\ UNCHANGED keys
    BY <1>2, <1>5, <2>1 DEF Analyze
  <2>2. CASE pc' = "create" /\ keys' = keys \cup {Summary} /\ response' = response
    <3>1. Stage = "gather" /\ Stage' = "archive" /\ UNCHANGED <<archive, whole, uploaded>>
      BY <1>5, <2>2 DEF Analyze, Stage
    <3>2. Contract!Seal
      BY <2>2, <3>1 DEF Contract!Seal, Contract!More, BundleInv, TypeOK
    <3> QED
      BY <3>2 DEF Contract!Next
  <2> QED
    BY <1>5, <2>1, <2>2 DEF Analyze
<1>6. CASE ArchiveStat
  <2>1. PICK p \in left :
          \/ Return("nil") /\ UNCHANGED <<stat, archive>>
          \/ archive' = [archive EXCEPT ![p] = "dir"] /\ Goto("archive")
          \/ Goto("archive") /\ UNCHANGED archive
    BY <1>6 DEF ArchiveStat
  <2>2. CASE Return("nil") /\ UNCHANGED archive
    BY <1>2, <1>6, <2>2 DEF ArchiveStat
  <2>3. CASE Goto("archive") /\ UNCHANGED archive
    BY <1>6, <2>3 DEF ArchiveStat, Goto, Stage, Contract!vars
  <2>4. CASE archive' = [archive EXCEPT ![p] = "dir"] /\ Goto("archive")
    <3>1. p \in keys /\ keys \subseteq Paths \cup {Summary} /\ archive[p] = "none"
      BY <1>6 DEF ArchiveStat, BundleInv, TypeOK, CopyInv
    <3>2. archive'[p] = "dir" /\ \A q \in (Paths \cup {Summary}) \ {p} : archive'[q] = archive[q]
      BY <2>4, <3>1 DEF BundleInv, TypeOK
    <3>3. Contract!Add(p)
      BY <1>6, <2>4, <3>1, <3>2 DEF ArchiveStat, Goto, Stage, Contract!Add
    <3> QED
      BY <3>1, <3>3 DEF Contract!Next
  <2> QED
    BY <2>1, <2>2, <2>3, <2>4
<1>7. CASE ArchiveCopy
  <2> DEFINE p == stat.path
  <2>1. p \in keys /\ keys \subseteq Paths \cup {Summary} /\ archive[p] = "none"
    BY <1>7 DEF ArchiveCopy, BundleInv, TypeOK, CopyInv
  <2>2. CASE Return("nil") /\ UNCHANGED archive
    BY <1>2, <1>7, <2>2 DEF ArchiveCopy
  <2>3. CASE archive' = [archive EXCEPT ![p] = Content(p)] /\ stat' = NoFile /\ Goto("archive")
    <3>1. archive'[p] = Content(p) /\ \A q \in (Paths \cup {Summary}) \ {p} : archive'[q] = archive[q]
      BY <2>1, <2>3 DEF BundleInv, TypeOK
    <3>2. archive'[p] # "none"
      BY <2>1, <3>1 DEF Content, BundleInv, TypeOK, Stored, Paths
    <3>3. Contract!Add(p)
      BY <1>7, <2>1, <2>3, <3>1, <3>2 DEF ArchiveCopy, Goto, Stage, Contract!Add
    <3> QED
      BY <2>1, <3>3 DEF Contract!Next
  <2> QED
    BY <1>7, <2>2, <2>3 DEF ArchiveCopy
<1>8. CASE ArchiveDone
  <2>1. \A p \in keys : archive[p] # "none"
    BY <1>8 DEF ArchiveDone, BundleInv, ArchiveInv
  <2>2. Contract!Close
    BY <1>8, <2>1 DEF ArchiveDone, Stage, Contract!Close
  <2> QED
    BY <2>2 DEF Contract!Next
<1>9. CASE Deliver
  <2>1. response' \in {"ok", "error", "nil"} /\ (response' = "ok" => ~errs)
    BY <1>9 DEF Deliver, Return, BundleInv, TypeOK
  <2>2. response' = "ok" => Contract!Clean
    BY <2>1 DEF Contract!Clean, BundleInv, ArchiveInv
  <2>3. Contract!Deliver
    BY <1>9, <2>1, <2>2 DEF Deliver, Return, Stage, Contract!Deliver
  <2> QED
    BY <2>3 DEF Contract!Next
<1>10. CASE ArchiveCreate
  <2>1. CASE Return("nil")
    BY <1>2, <1>10, <2>1 DEF ArchiveCreate
  <2>2. CASE Goto("archive")
    BY <1>10, <2>2 DEF ArchiveCreate, Goto, Stage, Contract!vars
  <2> QED
    BY <1>10, <2>1, <2>2 DEF ArchiveCreate
<1> QED
  BY <1>1, <1>3, <1>4, <1>5, <1>6, <1>7, <1>8, <1>9, <1>10 DEF Next, Caller, Early

(***************************************************************************)
(* The run of a bundle, with its redactors at work behind its back,        *)
(* implements the contract of CollectSupportBundleFromSpec.                *)
(***************************************************************************)
THEOREM BundleRefinesContract == Spec => ImplementsContract
<1>1. Init => CopyInv
  BY DEF Init, CopyInv, Stage
<1>2. Init => Contract!Init
  BY DEF Init, Stage, Contract!Init
<1>3. Spec => []CopyInv
  BY <1>1, CopyStep, BundleInvariant, PTL DEF Spec
<1> QED
  BY <1>2, <1>3, ContractStep, BundleInvariant, PTL DEF Spec, ImplementsContract, Contract!Spec
=============================================================================
