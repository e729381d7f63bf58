------------------------------ MODULE Startup ------------------------------
(***************************************************************************)
(* How a replica of the API server starts, serves and stops.  Before it    *)
(* listens it goes through all approvals, page by page, and replaces every *)
(* decision token the prototype stored in the clear by its digest, while   *)
(* other replicas do the same, serve, stop and crash.                      *)
(***************************************************************************)
EXTENDS Naturals, FiniteSets

CONSTANTS
    Replicas,
    Approvals,   \* ids in the order of the pages
    BatchSize    \* approvals per page (250 in the code)

ASSUME StartupAssumption ==
    Approvals \subseteq Nat \ {0} /\ IsFiniteSet(Approvals) /\ BatchSize \in Nat \ {0}

VARIABLES
    config,   \* NODE_ENV and whether the other variables are as it needs them
    token,    \* approvalToken: how often it has been hashed
    phase,    \* of each replica
    page,     \* copies of the rows of a page still to be looked at
    cursor,   \* id of the last row of the page before
    full      \* the page was as long as BatchSize

vars == <<config, token, phase, page, cursor, full>>

Absent == 99   \* no such approval yet

Init ==
    /\ config \in [production : BOOLEAN, complete : BOOLEAN]
    /\ token \in [Approvals -> {0, 1, Absent}]
    /\ phase = [r \in Replicas |-> "down"]
    /\ page = [r \in Replicas |-> {}]
    /\ cursor = [r \in Replicas |-> 0]
    /\ full = [r \in Replicas |-> FALSE]

(* validateEnvironment does not throw. *)
Valid == config.production => config.complete

-----------------------------------------------------------------------------
Boot(r) ==
    /\ phase[r] = "down" /\ Valid
    /\ phase' = [phase EXCEPT ![r] = "reading"]
    /\ cursor' = [cursor EXCEPT ![r] = 0]
    /\ UNCHANGED <<config, token, page, full>>

(* findMany: the rows after the cursor by id, BatchSize at most. *)
Remaining(r) == {a \in Approvals : token[a] # Absent /\ a > cursor[r]}

IsPage(ids, rows) ==
    /\ ids \subseteq rows
    /\ \A a \in ids, b \in rows \ ids : a < b
    /\ Cardinality(ids) = BatchSize \/ (ids = rows /\ Cardinality(ids) < BatchSize)

CursorKept(r, last) == cursor[r]   \* defect: every page is the first
CursorAfter(r, last) == last

ReadNothing(r) ==
    /\ phase[r] = "reading" /\ Remaining(r) = {}
    /\ phase' = [phase EXCEPT ![r] = "serving"]
    /\ UNCHANGED <<config, token, page, cursor, full>>

TakePage(r, ids, last) ==
    /\ IsPage(ids, Remaining(r)) /\ last \in ids /\ \A a \in ids : a <= last
    /\ page' = [page EXCEPT ![r] = {[id |-> a, token |-> token[a]] : a \in ids}]
    /\ cursor' = [cursor EXCEPT ![r] = CursorAfter(r, last)]
    /\ full' = [full EXCEPT ![r] = (Cardinality(ids) = BatchSize)]

ReadPage(r) ==
    /\ phase[r] = "reading"
    /\ \E ids \in SUBSET Remaining(r), last \in Approvals : TakePage(r, ids, last)
    /\ phase' = [phase EXCEPT ![r] = "hashing"]
    /\ UNCHANGED <<config, token>>

LegacyAlways(copy) == TRUE   \* defect: the pattern of a digest is not looked for
Legacy(copy) == copy.token = 0

AfterFullPage(r) == "serving"   \* defect: one page is taken for all
AfterPage(r) == IF full[r] THEN "reading" ELSE "serving"

(* updateMany where the token is still the one read. *)
HashOne(r) ==
    /\ phase[r] = "hashing"
    /\ \E copy \in page[r] :
          /\ \A other \in page[r] : copy.id <= other.id
          /\ token' = [token EXCEPT ![copy.id] =
                          IF Legacy(copy) /\ @ = copy.token THEN copy.token + 1 ELSE @]
          /\ page' = [page EXCEPT ![r] = @ \ {copy}]
          /\ phase' = [phase EXCEPT ![r] = IF page[r] = {copy} THEN AfterPage(r) ELSE @]
    /\ UNCHANGED <<config, cursor, full>>

(* POST /v1/approvals stores the digest of the token it makes. *)
CreateApproval(r, a) ==
    /\ phase[r] = "serving" /\ token[a] = Absent
    /\ token' = [token EXCEPT ![a] = 1]
    /\ UNCHANGED <<config, phase, page, cursor, full>>

(* SIGTERM: workers stop, the server accepts no more. *)
Signal(r) ==
    /\ phase[r] = "serving"
    /\ phase' = [phase EXCEPT ![r] = "stopping"]
    /\ UNCHANGED <<config, token, page, cursor, full>>

Down(r) ==
    /\ phase' = [phase EXCEPT ![r] = "down"]
    /\ page' = [page EXCEPT ![r] = {}]
    /\ full' = [full EXCEPT ![r] = FALSE]
    /\ UNCHANGED <<config, token, cursor>>

(* server.close has drained, or ten seconds have passed. *)
Exit(r)  == phase[r] = "stopping" /\ Down(r)
Crash(r) == phase[r] \notin {"down", "stopping"} /\ Down(r)

Go(r) == ReadNothing(r) \/ ReadPage(r) \/ HashOne(r) \/ Exit(r)

Next == \E r \in Replicas :
            \/ Boot(r) \/ Go(r) \/ Signal(r) \/ Crash(r)
            \/ \E a \in Approvals : CreateApproval(r, a)

(* A replica that has started or was told to stop goes on with it. *)
Fairness == \A r \in Replicas : WF_vars(Go(r))
Spec == Init /\ [][Next]_vars /\ Fairness

-----------------------------------------------------------------------------
(* Properties.                                                             *)

Phases == {"down", "reading", "hashing", "serving", "stopping"}

(* Tokens are hashed at most once, whatever the replicas do to a page they *)
(* have read while others hash the same rows.                              *)
StartupTypeOK ==
    /\ token \in [Approvals -> {0, 1, Absent}]
    /\ phase \in [Replicas -> Phases]
    /\ \A r \in Replicas : page[r] \subseteq [id : Approvals, token : {0, 1}]

(* Once any replica serves, every link ever sent works: the lookup by      *)
(* digest finds each approval, old or new, and nothing is left in the      *)
(* clear, although pages are read while others create and hash rows.       *)
ServedLinksWork ==
    \A r \in Replicas : phase[r] \in {"serving", "stopping"} =>
        \A a \in Approvals : token[a] \in {1, Absent}

(* A replica that starts ends up serving, and one that is told to stop is  *)
(* down in the end, unless it crashes: the migration always ends, however  *)
(* many approvals the others create meanwhile.                             *)
StartsAndStops ==
    \A r \in Replicas :
        phase[r] \in {"reading", "hashing", "stopping"} ~> phase[r] \in {"serving", "down"}

(* Why it does, for any number of approvals: each step a replica takes     *)
(* before it serves makes its page shorter or moves its cursor on to the   *)
(* id of a later approval, and no step of another takes that back.         *)
StartsAdvance ==
    [][\A r \in Replicas :
          LET before == <<phase[r], page[r], cursor[r]>>
              after  == <<phase'[r], page'[r], cursor'[r]>>
          IN  phase[r] \in {"reading", "hashing"} /\ after # before =>
                  \/ phase'[r] \in {"serving", "down"}
                  \/ cursor'[r] \in Approvals /\ cursor'[r] > cursor[r]
                  \/ cursor'[r] = cursor[r] /\ page'[r] \subseteq page[r] /\ page'[r] # page[r]]_vars
=============================================================================
