------------------------------- MODULE Bundle -------------------------------
(***************************************************************************)
(* How a support bundle is put together (pkg/supportbundle and the result  *)
(* and redaction code of pkg/collect): host collectors, in-cluster         *)
(* collectors, after each of them RedactResult with one goroutine for      *)
(* every result, then analysis, archive and delivery.                      *)
(*                                                                         *)
(* The results are files of a temporary directory.  RedactResult returns   *)
(* at the first error it receives and does not wait for the goroutines     *)
(* that are still at work, so they run on while the next steps read the    *)
(* same directory.  Of a file's content the model keeps whether it is raw, *)
(* masked, or a truncated archive that is being written; the name of a     *)
(* result may also be that of a directory, which other results made.       *)
(***************************************************************************)
EXTENDS Naturals, FiniteSets

CONSTANTS
    HostFiles,      \* files of host collectors
    ClusterFiles,   \* files of in-cluster collectors
    Reports,        \* collector error reports, kept in memory too
    Tars,           \* collected files that are themselves tar archives
    Links,          \* symbolic links the logs collector makes
    LinkTo,         \* the file each link points to
    Summary,        \* execution-data/summary.txt
    MaxRedactors,   \* MAX_CONCURRENT_REDACTORS
    Redact,         \* opts.Redact
    FromCLI,        \* opts.FromCLI
    FaultSets       \* the failures a run may meet, one set for each

Files == HostFiles \cup ClusterFiles
Paths == Files \cup Links
Stored == Files \cup {Summary}
Rounds == {"host", "cluster"}

FaultKinds == {"collector", "save", "stat", "redact", "replace", "step", "archive", "upload"}

ASSUME BundleAssumption ==
    /\ IsFiniteSet(Files) /\ IsFiniteSet(Links)
    /\ HostFiles \cap ClusterFiles = {} /\ Files \cap Links = {}
    /\ Summary \notin Paths
    /\ Reports \subseteq Files /\ Tars \subseteq Files \ Reports
    /\ LinkTo \in [Links -> Files \ (Tars \cup Reports)]
    /\ MaxRedactors \in Nat \ {0}
    /\ Redact \in BOOLEAN /\ FromCLI \in BOOLEAN
    /\ FaultSets \subseteq SUBSET FaultKinds

VARIABLES
    pc,        \* CollectSupportBundleFromSpec
    keys,      \* keys of the collector results
    mem,       \* the keys whose value is in memory
    disk,      \* disk[f]: the file in the bundle directory
    round,     \* round[r]: the RedactResult call after the collectors r
    todo,      \* todo[r]: results it has not started a goroutine for
    errorCh,   \* errorCh[r]: the results whose errors wait in its channel
    red,       \* red[p]: where the goroutine of result p is
    got,       \* got[p]: what it has read
    errs,      \* collectorsErrs is not empty
    stat,      \* the result ArchiveBundle copies, and what Lstat saw of it
    left,      \* results it has not come to
    archive,   \* archive[p]: what it wrote; "dir" if it passed the result over
    whole,     \* what it wrote is on disk, to the last byte
    response,  \* what the caller gets
    uploaded,  \* the archive was sent
    faults     \* which failures may happen; fixed from the start

vars == <<pc, keys, mem, disk, round, todo, errorCh, red, got, errs, stat, left,
          archive, whole, response, uploaded>>

redactVars == <<round, todo, errorCh, red, got>>
archiveVars == <<stat, left, archive, whole, response, uploaded>>

Fails(kind) == kind \in faults

Target(p) == IF p \in Links THEN LinkTo[p] ELSE p
RoundOf(p) == IF Target(p) \in HostFiles THEN "host" ELSE "cluster"
Input(r) == {p \in keys \cap Paths : RoundOf(p) = r}

NoFile == [path |-> "none", content |-> "absent"]

Init ==
    /\ pc = "setup"
    /\ keys = {} /\ mem = {}
    /\ disk = [f \in Stored |-> "absent"]
    /\ round = [r \in Rounds |-> "idle"]
    /\ todo = [r \in Rounds |-> {}]
    /\ errorCh = [r \in Rounds |-> {}]
    /\ red = [p \in Paths |-> "idle"]
    /\ got = [p \in Paths |-> "absent"]
    /\ errs = FALSE
    /\ stat = NoFile /\ left = {}
    /\ archive = [p \in Paths \cup {Summary} |-> "none"] /\ whole = FALSE
    /\ response = "none" /\ uploaded = FALSE
    /\ faults \in FaultSets

-----------------------------------------------------------------------------
(***************************************************************************)
(* CollectSupportBundleFromSpec goes on, or returns.  On return the        *)
(* deferred RemoveAll takes the bundle directory away: the results, and    *)
(* the files that redactors have open in it.                               *)
(***************************************************************************)
Goto(to) == pc' = to /\ UNCHANGED <<response, disk, got>>

\* mutant of Return: the directory is not removed
ReturnOnly(r) == pc' = "returned" /\ response' = r /\ UNCHANGED <<disk, got>>

Return(r) ==
    /\ pc' = "returned" /\ response' = r
    /\ disk' = [f \in Stored |-> "absent"]
    /\ got' = [p \in Paths |-> IF red[p] \in {"remove", "rename", "compress"}
                               THEN "absent" ELSE got[p]]

\* options are checked, the temporary directory and the file name are made
SetUp ==
    /\ pc = "setup"
    /\ Goto("collectHost") \/ (Fails("step") /\ Return("nil"))
    /\ UNCHANGED <<keys, mem, round, todo, errorCh, red, errs, stat, left, archive, whole, uploaded>>

(***************************************************************************)
(* Collection.  saved is what SaveResult wrote, keyed what it only entered *)
(* in the map because making the file failed, or because its name is that  *)
(* of a directory of other results; a report of a collector error is       *)
(* entered with its bytes, and written to disk if possible.  The logs      *)
(* collector links to files that are on disk.                              *)
(***************************************************************************)
NextAfter(r) == IF r = "host" THEN "collectCluster" ELSE "analyze"

\* mutant of Collected: SymLinkResult does not enter the link in the results
CollectedNoLinks(saved, reports, links) ==
    /\ disk' = [f \in Stored |-> IF f \in saved \cup reports THEN "raw" ELSE disk[f]]
    /\ keys' = keys \cup saved \cup reports
    /\ mem' = mem \cup reports

Collected(saved, reports, links) ==
    /\ links \subseteq {l \in Links : LinkTo[l] \in saved}
    /\ \E unsaved \in SUBSET (saved \cup reports) : \E dirs \in SUBSET unsaved :
         /\ unsaved # {} => Fails("save")
         /\ \A l \in links : LinkTo[l] \notin unsaved
         /\ disk' = [f \in Stored |-> IF f \in dirs THEN "dir"
                                     ELSE IF f \in (saved \cup reports) \ unsaved
                                     THEN "raw" ELSE disk[f]]
    /\ keys' = keys \cup saved \cup reports \cup links
    /\ mem' = mem \cup reports

CollectorFiles(r) == {f \in Files : RoundOf(f) = r}

RunCollectors(r) ==
    /\ pc = IF r = "host" THEN "collectHost" ELSE "collectCluster"
    /\ \E saved \in SUBSET (CollectorFiles(r) \ Reports),
          reports \in SUBSET (CollectorFiles(r) \cap Reports),
          links \in SUBSET {l \in Links : RoundOf(l) = r} :
         /\ reports # {} => Fails("collector")
         /\ Collected(saved, reports, links)
         /\ IF Redact
            THEN /\ pc' = "redact"
                 /\ round' = [round EXCEPT ![r] = "spawn"]
                 /\ todo' = [todo EXCEPT ![r] = saved \cup reports \cup links]
            ELSE pc' = NextAfter(r) /\ UNCHANGED <<round, todo>>
    /\ UNCHANGED <<errorCh, red, got, errs, archiveVars>>

\* the specification has no such collectors
NoCollectors(r) ==
    /\ pc = IF r = "host" THEN "collectHost" ELSE "collectCluster"
    /\ pc' = NextAfter(r)
    /\ UNCHANGED <<keys, mem, disk, redactVars, errs, archiveVars>>

\* no client, no permission, no daemon set: an error and no results
CollectorsReturnError(r) ==
    /\ Fails("collector")
    /\ pc = IF r = "host" THEN "collectHost" ELSE "collectCluster"
    /\ errs' = TRUE
    /\ pc' = NextAfter(r)
    /\ UNCHANGED <<keys, mem, disk, redactVars, archiveVars>>

-----------------------------------------------------------------------------
(***************************************************************************)
(* RedactResult: the caller's side.                                        *)
(***************************************************************************)
Ended(p) == red[p] \in {"done", "failed"}

Active(r) == {p \in Input(r) : red[p] # "idle" /\ ~Ended(p)}

Spawn(r, p) ==
    /\ round[r] = "spawn" /\ p \in todo[r]
    /\ Cardinality(Active(r)) < MaxRedactors
    /\ todo' = [todo EXCEPT ![r] = @ \ {p}]
    /\ red' = [red EXCEPT ![p] = "stat"]
    /\ UNCHANGED <<pc, keys, mem, disk, round, errorCh, got, errs, archiveVars>>

SpawnedAll(r) ==
    /\ round[r] = "spawn" /\ todo[r] = {}
    /\ round' = [round EXCEPT ![r] = "drain"]
    /\ UNCHANGED <<pc, keys, mem, disk, todo, errorCh, red, got, errs, archiveVars>>

\* mutant of ReturnFirstError: the error is not put into collectorsErrs
FirstErrorDropped(r) ==
    /\ round[r] = "drain"
    /\ \E p \in errorCh[r] : errorCh' = [errorCh EXCEPT ![r] = @ \ {p}]
    /\ round' = [round EXCEPT ![r] = "failed"]
    /\ pc' = NextAfter(r)
    /\ UNCHANGED <<keys, mem, disk, todo, red, got, errs, archiveVars>>

ReturnFirstError(r) ==
    /\ round[r] = "drain"
    /\ \E p \in errorCh[r] : errorCh' = [errorCh EXCEPT ![r] = @ \ {p}]
    /\ round' = [round EXCEPT ![r] = "failed"]
    /\ errs' = TRUE
    /\ pc' = NextAfter(r)
    /\ UNCHANGED <<keys, mem, disk, todo, red, got, archiveVars>>

NobodyWaited(r) == TRUE   \* mutant of AllRedacted: there is no wg.Wait

\* wg.Wait has returned and errorCh is closed and empty
AllRedacted(r) == \A p \in Input(r) : Ended(p)

ReturnNil(r) ==
    /\ round[r] = "drain" /\ errorCh[r] = {} /\ AllRedacted(r)
    /\ round' = [round EXCEPT ![r] = "ok"]
    /\ pc' = NextAfter(r)
    /\ UNCHANGED <<keys, mem, disk, todo, errorCh, red, got, errs, archiveVars>>

-----------------------------------------------------------------------------
(***************************************************************************)
(* RedactResult: the goroutine of result p, which works on Target(p).      *)
(***************************************************************************)
\* what Lstat and a copy see: a link is not followed
Content(p) ==
    IF p \notin Links THEN disk[p] ELSE IF pc = "returned" THEN "absent" ELSE "link"

Step(p, from, to) == red[p] = from /\ red' = [red EXCEPT ![p] = to]

Quiet == UNCHANGED <<pc, keys, mem, round, todo, errs, archiveVars>>

Stat(p) ==
    /\ \/ p \in mem /\ Step(p, "stat", "redact") /\ got' = [got EXCEPT ![p] = "raw"]
       \/ p \notin mem /\ UNCHANGED got
          /\ \/ Content(p) # "absent" /\ Step(p, "stat", "open")
             \/ Content(p) = "absent" /\ Step(p, "stat", "done")
             \/ Fails("stat") /\ Step(p, "stat", "send")
    /\ UNCHANGED <<disk, errorCh>> /\ Quiet

\* mutant of Open: a file that is not there is an error
OpenStrict(p) ==
    /\ IF disk[Target(p)] = "absent"
       THEN Step(p, "open", "send") /\ UNCHANGED got
       ELSE /\ Step(p, "open", IF p \in Tars THEN "unpack" ELSE "redact")
            /\ got' = [got EXCEPT ![p] = disk[Target(p)]]
    /\ UNCHANGED <<disk, errorCh>> /\ Quiet

Open(p) ==
    /\ IF disk[Target(p)] = "absent"
       THEN Step(p, "open", "done") /\ UNCHANGED got
       ELSE /\ Step(p, "open", IF p \in Tars THEN "unpack" ELSE "redact")
            /\ got' = [got EXCEPT ![p] = disk[Target(p)]]
    /\ UNCHANGED <<disk, errorCh>> /\ Quiet

Mask(p) ==
    /\ \/ /\ got[p] # "dir" /\ Step(p, "redact", "remove")
          /\ got' = [got EXCEPT ![p] = "masked"]
       \/ /\ got[p] = "dir" \/ Fails("redact")
          /\ Step(p, "redact", "send") /\ UNCHANGED got
    /\ UNCHANGED <<disk, errorCh>> /\ Quiet

(***************************************************************************)
(* ReplaceResult has written a temporary file beside the target, making    *)
(* the directory if need be; it removes the target, which may not be a     *)
(* directory with results in it, and renames.  The temporary file is gone  *)
(* if the directory was removed meanwhile.                                 *)
(***************************************************************************)
Remove(p) ==
    /\ \/ /\ disk[Target(p)] # "dir" /\ Step(p, "remove", "rename")
          /\ disk' = [disk EXCEPT ![Target(p)] = "absent"]
       \/ /\ disk[Target(p)] = "dir" \/ Fails("replace")
          /\ Step(p, "remove", "send") /\ UNCHANGED disk
    /\ UNCHANGED <<got, errorCh>> /\ Quiet

Rename(p) ==
    /\ \/ /\ got[p] # "absent" /\ Step(p, "rename", "done")
          /\ disk' = [disk EXCEPT ![Target(p)] = got[p]]
       \/ /\ got[p] = "absent" \/ Fails("replace")
          /\ Step(p, "rename", "send") /\ UNCHANGED disk
    /\ UNCHANGED <<got, errorCh>> /\ Quiet

(***************************************************************************)
(* A tar archive is unpacked, its files are redacted by a RedactResult of  *)
(* their own, and it is written again in place: not into a directory that  *)
(* was removed, unless another redactor has made it again, and to no       *)
(* effect if it is removed while it is written.                            *)
(***************************************************************************)
Unpack(p) ==
    /\ \/ /\ got[p] # "dir" /\ Step(p, "unpack", "create")
          /\ got' = [got EXCEPT ![p] = "masked"]
       \/ /\ got[p] = "dir" \/ Fails("redact")
          /\ Step(p, "unpack", "send") /\ UNCHANGED got
    /\ UNCHANGED <<disk, errorCh>> /\ Quiet

CreateTar(p) ==
    /\ \/ /\ Step(p, "create", "compress")
          /\ disk' = [disk EXCEPT ![p] = "torn"]
       \/ /\ pc = "returned" \/ Fails("replace")
          /\ Step(p, "create", "send") /\ UNCHANGED disk
    /\ UNCHANGED <<got, errorCh>> /\ Quiet

CompressTar(p) ==
    /\ \/ /\ Step(p, "compress", "done")
          /\ IF got[p] = "absent" THEN UNCHANGED disk
             ELSE disk' = [disk EXCEPT ![p] = got[p]]
       \/ Fails("replace") /\ Step(p, "compress", "send") /\ UNCHANGED disk
    /\ UNCHANGED <<got, errorCh>> /\ Quiet

CapacityOne(r) == 1   \* mutant of Capacity: a channel of a fixed size

Capacity(r) == Cardinality(Input(r))

SendError(p) ==
    /\ Cardinality(errorCh[RoundOf(p)]) < Capacity(RoundOf(p))
    /\ Step(p, "send", "failed")
    /\ errorCh' = [errorCh EXCEPT ![RoundOf(p)] = @ \cup {p}]
    /\ UNCHANGED <<disk, got>> /\ Quiet

Redactor(p) ==
    \/ Stat(p) \/ Open(p) \/ Mask(p) \/ Remove(p) \/ Rename(p)
    \/ Unpack(p) \/ CreateTar(p) \/ CompressTar(p) \/ SendError(p)

-----------------------------------------------------------------------------
(***************************************************************************)
(* Analysis, archive and delivery.                                         *)
(***************************************************************************)
(***************************************************************************)
(* Version, analysis and summary are written and the tokenization features *)
(* are processed; a failure there ends the run, except that the CLI goes   *)
(* on after failures of the analysis and of the tokenization, and that a   *)
(* summary which cannot be saved is only logged.                           *)
(***************************************************************************)
Analyze ==
    /\ pc = "analyze"
    /\ \/ /\ keys # {}
          /\ \E content \in {"own"} \cup (IF Fails("save") THEN {"absent"} ELSE {}) :
               disk' = [disk EXCEPT ![Summary] = content]
          /\ keys' = keys \cup {Summary} /\ left' = keys'
          /\ pc' = "create" /\ UNCHANGED <<response, got>>
       \/ (keys = {} \/ Fails("step")) /\ Return("nil") /\ UNCHANGED <<keys, left>>
    /\ UNCHANGED <<mem, round, todo, errorCh, red, errs, stat, archive, whole, uploaded>>

\* the file of the archive is made
ArchiveCreate ==
    /\ pc = "create"
    /\ Goto("archive") \/ (Fails("archive") /\ Return("nil"))
    /\ UNCHANGED <<keys, mem, round, todo, errorCh, red, errs, stat, left, archive, whole, uploaded>>

\* mutant of ArchiveStat: a result that is not on disk is passed over
ArchiveStatLenient ==
    /\ pc = "archive" /\ stat = NoFile
    /\ \E p \in left :
         /\ left' = left \ {p}
         /\ stat' = IF Content(p) = "absent" THEN NoFile
                    ELSE [path |-> p, content |-> Content(p)]
    /\ Goto("archive")
    /\ UNCHANGED <<keys, mem, round, todo, errorCh, red, errs, archive, whole, uploaded>>

(***************************************************************************)
(* Lstat of the next result: what is not there ends the archive, what is   *)
(* neither a file nor a link is passed over.                               *)
(***************************************************************************)
ArchiveStat ==
    /\ pc = "archive" /\ stat = NoFile
    /\ \E p \in left :
         /\ left' = left \ {p}
         /\ \/ /\ Content(p) = "absent"
               /\ Return("nil") /\ UNCHANGED <<stat, archive>>
            \/ /\ Content(p) = "dir"
               /\ archive' = [archive EXCEPT ![p] = "dir"]
               /\ Goto("archive") /\ UNCHANGED stat
            \/ /\ Content(p) \notin {"absent", "dir"}
               /\ stat' = [path |-> p, content |-> Content(p)]
               /\ Goto("archive") /\ UNCHANGED archive
    /\ UNCHANGED <<keys, mem, round, todo, errorCh, red, errs, whole, uploaded>>

(***************************************************************************)
(* A file that changed after Lstat may have another size than the header   *)
(* says, which the tar writer refuses; and the disk may be full.           *)
(***************************************************************************)
ArchiveCopy ==
    /\ pc = "archive" /\ stat # NoFile
    /\ LET p == stat.path IN
         \/ /\ Content(p) # "absent"
            /\ archive' = [archive EXCEPT ![p] = Content(p)]
            /\ stat' = NoFile /\ Goto("archive")
         \/ /\ Content(p) # stat.content \/ Fails("archive")
            /\ Return("nil") /\ UNCHANGED <<archive, stat>>
    /\ UNCHANGED <<keys, mem, round, todo, errorCh, red, errs, left, whole, uploaded>>

(***************************************************************************)
(* The tar and gzip writers and the file are closed by deferred calls,     *)
(* which write what the writers have left and whose errors nobody sees.    *)
(***************************************************************************)
ArchiveDone ==
    /\ pc = "archive" /\ stat = NoFile /\ left = {}
    /\ pc' = "deliver"
    /\ whole' = TRUE \/ (Fails("archive") /\ whole' = FALSE)
    /\ UNCHANGED <<keys, mem, disk, redactVars, errs, stat, left, archive, response, uploaded>>

(***************************************************************************)
(* ProcessSupportBundleAfterCollection uploads and calls back as the       *)
(* specification says, up to the first failure; then the collectors'       *)
(* errors that were put aside are returned with the response.              *)
(***************************************************************************)
Deliver ==
    /\ pc = "deliver"
    /\ uploaded' \in BOOLEAN
    /\ \/ Return(IF errs THEN "error" ELSE "ok")
       \/ Fails("upload") /\ ~FromCLI /\ Return("nil")
    /\ UNCHANGED <<keys, mem, round, todo, errorCh, red, errs, stat, left, archive, whole>>

-----------------------------------------------------------------------------
Caller ==
    \/ SetUp
    \/ \E r \in Rounds :
         \/ RunCollectors(r) \/ NoCollectors(r) \/ CollectorsReturnError(r)
         \/ SpawnedAll(r) \/ ReturnFirstError(r) \/ ReturnNil(r)
         \/ \E p \in Paths : Spawn(r, p)
    \/ Analyze \/ ArchiveCreate \/ ArchiveStat \/ ArchiveCopy \/ ArchiveDone \/ Deliver

Next == (Caller \/ \E p \in Paths : Redactor(p)) /\ UNCHANGED faults

Spec == Init /\ [][Next]_<<vars, faults>>

(***************************************************************************)
(* The caller and every goroutine are scheduled.                           *)
(***************************************************************************)
Fairness == WF_vars(Caller) /\ \A p \in Paths : WF_vars(Redactor(p))

FairSpec == Spec /\ Fairness
-----------------------------------------------------------------------------
\* The types of the variables, and which results each of them speaks of.
TypeOK ==
    /\ pc \in {"setup", "collectHost", "collectCluster", "redact", "analyze", "create",
               "archive", "deliver", "returned"}
    /\ keys \subseteq Paths \cup {Summary} /\ mem \subseteq keys \cap Reports
    /\ disk \in [Stored -> {"absent", "raw", "masked", "torn", "own", "dir"}]
    /\ round \in [Rounds -> {"idle", "spawn", "drain", "ok", "failed"}]
    /\ todo \in [Rounds -> SUBSET keys]
    /\ errorCh \in [Rounds -> SUBSET keys]
    /\ red \in [Paths -> {"idle", "stat", "open", "redact", "remove", "rename",
                          "unpack", "create", "compress", "send", "done", "failed"}]
    /\ got \in [Paths -> {"absent", "raw", "masked", "torn", "own", "dir"}]
    /\ errs \in BOOLEAN /\ uploaded \in BOOLEAN
    /\ stat = NoFile \/ stat \in [path : keys, content : {"raw", "masked", "torn", "own", "link"}]
    /\ left \subseteq keys
    /\ archive \in [Paths \cup {Summary} -> {"none", "raw", "masked", "torn", "own", "link", "dir"}]
    /\ whole \in BOOLEAN
    /\ response \in {"none", "ok", "error", "nil"}

(***************************************************************************)
(* When RedactResult returns nil, its goroutines have all ended and no     *)
(* result is left as it was collected or half written, although a link     *)
(* and its file are redacted concurrently and either may find the file     *)
(* removed by the other (collect/redact.go and ReplaceResult).             *)
(***************************************************************************)
NilMeansRedacted ==
    \A r \in Rounds : round[r] = "ok" =>
      \A p \in Input(r) : Ended(p) /\ disk[Target(p)] \in {"masked", "absent"}

(***************************************************************************)
(* When a bundle is returned without an error, ArchiveBundle has come to   *)
(* every result and written it, or passed over one that is a directory;    *)
(* and with redaction on, it wrote and passed over none that is not        *)
(* redacted.  Whether the end of what it wrote is on disk nobody has       *)
(* looked: see ArchiveIsWhole.                                             *)
(***************************************************************************)
CleanBundle ==
    response = "ok" =>
      /\ \A p \in keys : archive[p] # "none"
      /\ Redact => \A f \in Files : archive[f] \in {"none", "masked"}

(***************************************************************************)
(* A bundle that is returned without an error is a whole archive: what     *)
(* "creates an archive of the files" promises, and what the errors dropped *)
(* by the deferred calls of Close break.                                   *)
(***************************************************************************)
ArchiveIsWhole == response = "ok" => whole

(***************************************************************************)
(* Nothing of the bundle directory is left when a run without an error has *)
(* returned: no redactor is still at work that would make it again, which  *)
(* MkdirAll in ReplaceResult does after the deferred RemoveAll.            *)
(***************************************************************************)
DirectoryGone == response = "ok" => \A f \in Stored : disk[f] = "absent"

(***************************************************************************)
(* The run ends whatever fails, and no redactor hangs: the error channel   *)
(* has room for all goroutines although nobody receives after the first    *)
(* error ("Any condition that causes Troubleshoot to hang or not complete  *)
(* a run is considered a bug", docs/design/design-principles.md).          *)
(***************************************************************************)
RunEnds == <>(pc = "returned")

RedactorsEnd == \A p \in Paths : red[p] # "idle" ~> Ended(p)

\* The run returns and its goroutines end, also the ones it left behind.
EverythingEnds == RunEnds /\ RedactorsEnd

(***************************************************************************)
(* Without failures a run that collects anything delivers a clean bundle:  *)
(* the races between redactors never turn into an error of their own.      *)
(***************************************************************************)
BundleDelivered == faults = {} => <>(pc = "returned" /\ (response = "ok" \/ keys = {}))

-----------------------------------------------------------------------------
Stage ==
    CASE pc \in {"deliver", "returned"} -> pc
      [] pc \in {"create", "archive"} -> "archive"
      [] OTHER -> "gather"

Contract == INSTANCE BundleContract WITH
    Result <- Paths \cup {Summary}, Sensitive <- IF Redact THEN Files ELSE {}, Masked <- "masked",
    None <- "none", stage <- Stage, gathered <- keys, written <- archive, sent <- uploaded

(***************************************************************************)
(* The run of a bundle implements BundleContract: whatever fails, and      *)
(* whatever goroutines are still at work, ArchiveBundle comes to every     *)
(* result once and only to what was collected before, the archive is sent  *)
(* only after that, and it stays as it was returned.                       *)
(***************************************************************************)
ImplementsContract == Contract!Spec
(***************************************************************************)
(* A bundle that is delivered was redacted, if redaction is on: what the   *)
(* README says of a bundle and the code does not do.                       *)
(***************************************************************************)
DeliveredIsRedacted ==
    uploaded /\ Redact => \A f \in Files : archive[f] \in {"none", "masked"}
=============================================================================
