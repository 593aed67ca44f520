--------------------------- MODULE BundleContract ---------------------------
(***************************************************************************)
(* What CollectSupportBundleFromSpec promises, without the goroutines and  *)
(* the files it works with: results are gathered, each of them is written  *)
(* into an archive, or passed over, and not twice; only after that may the *)
(* archive be sent and returned, and it is returned as good only if all of *)
(* its files are clean.  That the end of the archive has come to the disk  *)
(* is not promised: nobody looks.  Once it has returned, nothing of this   *)
(* changes any more.                                                       *)
(***************************************************************************)
CONSTANTS
    Result,     \* what a bundle may hold
    Sensitive,  \* results that have to be redacted
    Masked,     \* how a redacted result looks
    None        \* a result that is not in the archive

VARIABLES
    stage,      \* "gather", "archive", "deliver" or "returned"
    gathered,   \* the results
    written,    \* written[p]: what the archive has of it, or that it has nothing
    whole,      \* the archive is on disk to its end
    response,   \* "none", "ok", "error" or "nil"
    sent        \* the archive has left this machine

vars == <<stage, gathered, written, whole, response, sent>>

Init ==
    /\ stage = "gather" /\ gathered = {}
    /\ written = [p \in Result |-> None]
    /\ whole = FALSE /\ response = "none" /\ sent = FALSE

More == gathered' \in SUBSET Result /\ gathered \subseteq gathered'

Gather == stage = "gather" /\ More /\ UNCHANGED <<stage, written, whole, response, sent>>

\* nothing is added afterwards
Seal == /\ stage = "gather" /\ stage' = "archive"
        /\ More /\ gathered' # {} /\ UNCHANGED <<written, whole, response, sent>>

Add(p) ==
    /\ stage = "archive" /\ written[p] = None
    /\ written'[p] # None /\ \A q \in Result \ {p} : written'[q] = written[q]
    /\ UNCHANGED <<stage, gathered, whole, response, sent>>

Close ==
    /\ stage = "archive" /\ \A p \in gathered : written[p] # None
    /\ stage' = "deliver" /\ whole' \in BOOLEAN
    /\ UNCHANGED <<gathered, written, response, sent>>

Clean == \A p \in Sensitive : written[p] \in {None, Masked}

Deliver ==
    /\ stage = "deliver" /\ stage' = "returned"
    /\ sent' \in BOOLEAN
    /\ response' \in {"ok", "error", "nil"} /\ (response' = "ok" => Clean)
    /\ UNCHANGED <<gathered, written, whole>>

GiveUp ==
    /\ stage \in {"gather", "archive"} /\ stage' = "returned" /\ response' = "nil"
    /\ UNCHANGED <<gathered, written, whole, sent>>

Next == Gather \/ Seal \/ (\E p \in gathered : Add(p)) \/ Close \/ Deliver \/ GiveUp

Spec == Init /\ [][Next]_vars
=============================================================================
