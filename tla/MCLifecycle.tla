---------------------------- MODULE MCLifecycle ----------------------------
(* Instances of Lifecycle for TLC: which requests meet on one ledger.      *)
EXTENDS Lifecycle, TLC

CONSTANTS r1, r2, r3, r4, r5, r6, r7, f1, f2, f3, f4

(* Two elements of a parallel bulk, a dry run, an import and the import    *)
(* that resumes it, sending one log again; two atomic bulks.  A dry run    *)
(* took an id of the ledger that was exported.                             *)
MCExported == {1, 3, 4}
MCKind == r1 :> "write" @@ r2 :> "write" @@ r3 :> "dry" @@ r4 :> "import" @@ r5 :> "import"
            @@ r6 :> "bulk" @@ r7 :> "bulk"
MCFacade == r1 :> f1 @@ r2 :> f1 @@ r3 :> f2 @@ r4 :> f3 @@ r5 :> f4 @@ r6 :> f2 @@ r7 :> f3
MCStream == [r \in Requests |-> CASE r = r4 -> <<1, 3>> [] r = r5 -> <<3, 4>> [] OTHER -> <<>>]

(* Writes and imports on a new ledger, and bulks on one that is in use: an *)
(* atomic bulk on a new ledger escapes the state tracker.  The hashes      *)
(* refuse some imports that the state of the ledger should refuse: without *)
(* them, the state alone does.                                             *)
MCMeetings == { [requests |-> {r1, r2, r3, r4, r5}, used |-> FALSE, sync |-> TRUE],
                [requests |-> {r1, r3, r4, r5}, used |-> FALSE, sync |-> FALSE],
                [requests |-> {r1, r2, r6, r7}, used |-> TRUE, sync |-> TRUE] }
============================================================================
