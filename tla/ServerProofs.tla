---------------------------- MODULE ServerProofs ----------------------------
(***************************************************************************)
(* Proofs about Startup, for every number of replicas and approvals and    *)
(* every length of a page; about RateLimiter, for every number of          *)
(* replicas, requests, keys and windows, every limit and every time a      *)
(* counter is kept; and about the two side by side, as MCServer has them.  *)
(***************************************************************************)
EXTENDS MCServer, TLAPS

-----------------------------------------------------------------------------
(* Startup: the inductive invariant.                                       *)

Local ==
    /\ phase \in [Replicas -> Phases]
    /\ page \in [Replicas -> SUBSET [id : Approvals, token : {0, 1}]]
    /\ cursor \in [Replicas -> Nat]
    /\ full \in [Replicas -> BOOLEAN]

StartupTypes == token \in [Approvals -> {0, 1, Absent}] /\ Local

(* No link of the prototype waits to be found by its digest.               *)
Hashed(a) == token[a] \in {1, Absent}

(* How far a replica has come: behind its cursor everything is hashed or   *)
(* on its page as it was in the clear, and a page that is not full is the  *)
(* last one.                                                               *)
OnPage(r, a) == \E copy \in page[r] : copy.id = a /\ copy.token = 0
Progress(r) ==
    /\ phase[r] = "reading" => \A a \in Approvals : a <= cursor[r] => Hashed(a)
    /\ phase[r] = "hashing" =>
          /\ \A a \in Approvals : a <= cursor[r] => Hashed(a) \/ OnPage(r, a)
          /\ ~full[r] => \A a \in Approvals : a > cursor[r] => Hashed(a)
    /\ phase[r] \in {"serving", "stopping"} => \A a \in Approvals : Hashed(a)

StartupInv == StartupTypes /\ \A r \in Replicas : Progress(r)

-----------------------------------------------------------------------------
LEMMA StartupInitSound == Init => StartupInv
BY DEF Init, StartupInv, StartupTypes, Local, Phases, Progress

(* What is hashed, or not there yet, is not put in the clear again.        *)
Kept == token' \in [Approvals -> {0, 1, Absent}] /\ \A a \in Approvals : Hashed(a) => Hashed(a)'

(* A step of one replica leaves the progress of the others as it is.       *)
LEMMA OthersProgress ==
    ASSUME StartupInv, Kept, NEW r \in Replicas, NEW s \in Replicas \ {r},
           phase'[s] = phase[s], page'[s] = page[s], cursor'[s] = cursor[s], full'[s] = full[s]
    PROVE  Progress(s)'
BY DEF StartupInv, Kept, Progress, OnPage

LEMMA StepOf ==
    ASSUME StartupInv, Kept, Local', NEW r \in Replicas, Progress(r)',
           \A s \in Replicas \ {r} : /\ phase'[s] = phase[s] /\ page'[s] = page[s]
                                     /\ cursor'[s] = cursor[s] /\ full'[s] = full[s]
    PROVE  StartupInv'
BY OthersProgress DEF StartupInv, StartupTypes, Kept

LEMMA Unhashed ==
    ASSUME StartupTypes, NEW a \in Approvals
    PROVE  token[a] = 0 \/ Hashed(a)
BY DEF StartupTypes, Hashed

-----------------------------------------------------------------------------
LEMMA BootSound == ASSUME StartupInv, NEW r \in Replicas, Boot(r) PROVE StartupInv'
<1>1. Kept
  BY DEF Boot, Kept, StartupInv, StartupTypes, Hashed
<1>2. Local'
  BY DEF Boot, StartupInv, StartupTypes, Local, Phases
<1>3. phase'[r] = "reading" /\ cursor'[r] = 0
  BY DEF Boot, StartupInv, StartupTypes, Local
<1>4. Progress(r)'
  BY <1>3, StartupAssumption DEF Progress
<1>5. QED
  BY <1>1, <1>2, <1>4, StepOf DEF Boot, StartupInv, StartupTypes, Local

LEMMA ReadNothingSound == ASSUME StartupInv, NEW r \in Replicas, ReadNothing(r) PROVE StartupInv'
<1>1. Kept
  BY DEF ReadNothing, Kept, StartupInv, StartupTypes, Hashed
<1>2. Local'
  BY DEF ReadNothing, StartupInv, StartupTypes, Local, Phases
<1>3. phase'[r] = "serving" /\ token' = token
  BY DEF ReadNothing, StartupInv, StartupTypes, Local
<1>4. \A a \in Approvals : Hashed(a)
  <2> SUFFICES ASSUME NEW a \in Approvals PROVE Hashed(a)
    OBVIOUS
  <2>1. a <= cursor[r] \/ a > cursor[r]
    BY StartupAssumption DEF StartupInv, StartupTypes, Local
  <2>2. token[a] = Absent \/ a <= cursor[r]
    BY <2>1 DEF ReadNothing, Remaining
  <2>3. QED
    BY <2>2 DEF ReadNothing, StartupInv, Progress, Hashed
<1>5. Progress(r)'
  BY <1>3, <1>4 DEF Progress, Hashed
<1>6. QED
  BY <1>1, <1>2, <1>5, StepOf DEF ReadNothing, StartupInv, StartupTypes, Local

LEMMA ReadPageSound == ASSUME StartupInv, NEW r \in Replicas, ReadPage(r) PROVE StartupInv'
<1>1. Kept
  BY DEF ReadPage, Kept, StartupInv, StartupTypes, Hashed
<1>0. PICK ids \in SUBSET Remaining(r), last \in Approvals : TakePage(r, ids, last)
  BY DEF ReadPage
<1>2. /\ IsPage(ids, Remaining(r)) /\ last \in ids /\ \A a \in ids : a <= last
      /\ page' = [page EXCEPT ![r] = {[id |-> a, token |-> token[a]] : a \in ids}]
      /\ cursor' = [cursor EXCEPT ![r] = last]
      /\ full' = [full EXCEPT ![r] = (Cardinality(ids) = BatchSize)]
  BY <1>0 DEF TakePage, CursorAfter
<1>3. /\ phase[r] = "reading" /\ phase' = [phase EXCEPT ![r] = "hashing"]
      /\ UNCHANGED <<config, token>>
  BY DEF ReadPage
<1>4. /\ ids \subseteq Approvals /\ Approvals \subseteq Nat /\ last \in Nat /\ cursor[r] \in Nat
      /\ \A a \in ids : token[a] \in {0, 1} /\ token[a] # Absent
  BY StartupAssumption DEF Remaining, StartupInv, StartupTypes, Local
<1>5. Local'
  <2>1. {[id |-> a, token |-> token[a]] : a \in ids} \in SUBSET [id : Approvals, token : {0, 1}]
    BY <1>4
  <2>2. (Cardinality(ids) = BatchSize) \in BOOLEAN
    OBVIOUS
  <2>3. page' \in [Replicas -> SUBSET [id : Approvals, token : {0, 1}]]
    BY <1>2, <2>1 DEF StartupInv, StartupTypes, Local
  <2>4. full' \in [Replicas -> BOOLEAN]
    BY <1>2, <2>2 DEF StartupInv, StartupTypes, Local
  <2>5. cursor' \in [Replicas -> Nat] /\ phase' \in [Replicas -> Phases]
    BY <1>2, <1>3, <1>4 DEF StartupInv, StartupTypes, Local, Phases
  <2>6. QED
    BY <2>3, <2>4, <2>5 DEF Local
<1>6. /\ phase'[r] = "hashing" /\ cursor'[r] = last /\ token' = token
      /\ page'[r] = {[id |-> a, token |-> token[a]] : a \in ids}
  BY <1>2, <1>3 DEF StartupInv, StartupTypes, Local
<1>7. \A a \in Approvals : a \notin Remaining(r) => Hashed(a)
  <2> SUFFICES ASSUME NEW a \in Approvals, a \notin Remaining(r) PROVE Hashed(a)
    OBVIOUS
  <2>1. token[a] = Absent \/ a <= cursor[r]
    BY <1>4 DEF Remaining
  <2>2. QED
    BY <1>3, <2>1 DEF StartupInv, Progress, Hashed
<1>8. ASSUME NEW a \in Approvals, a <= last PROVE Hashed(a) \/ OnPage(r, a)'
  <2>1. CASE a \in ids
    <3>1. [id |-> a, token |-> token[a]] \in page'[r]
      BY <1>6, <2>1
    <3>2. token[a] = 0 => OnPage(r, a)'
      BY <3>1 DEF OnPage
    <3>3. QED
      BY <3>2, Unhashed DEF StartupInv
  <2>2. CASE a \notin ids
    <3>1. a \in Remaining(r) => last < a
      BY <1>2, <2>2 DEF IsPage
    <3>2. a \notin Remaining(r)
      BY <1>4, <1>8, <3>1
    <3>3. QED
      BY <1>7, <3>2
  <2>3. QED
    BY <2>1, <2>2
<1>9. ASSUME NEW a \in Approvals, a > last, ~full'[r] PROVE Hashed(a)
  <2>1. ~(Cardinality(ids) = BatchSize)
    BY <1>2, <1>9 DEF StartupInv, StartupTypes, Local
  <2>2. ids = Remaining(r)
    BY <1>2, <2>1 DEF IsPage
  <2>3. a \notin ids
    BY <1>2, <1>4, <1>9
  <2>4. QED
    BY <1>7, <2>2, <2>3
<1>10. Progress(r)'
  BY <1>6, <1>8, <1>9 DEF Progress, Hashed
<1>11. QED
  BY <1>1, <1>2, <1>3, <1>5, <1>10, StepOf DEF StartupInv, StartupTypes, Local

LEMMA HashOneSound == ASSUME StartupInv, NEW r \in Replicas, HashOne(r) PROVE StartupInv'
<1>1. PICK copy \in page[r] :
          /\ token' = [token EXCEPT ![copy.id] =
                          IF Legacy(copy) /\ @ = copy.token THEN copy.token + 1 ELSE @]
          /\ page' = [page EXCEPT ![r] = @ \ {copy}]
          /\ phase' = [phase EXCEPT ![r] = IF page[r] = {copy} THEN AfterPage(r) ELSE @]
  BY DEF HashOne
<1>2. phase[r] = "hashing" /\ UNCHANGED <<config, cursor, full>>
  BY DEF HashOne
<1>3. copy.id \in Approvals /\ copy.token \in {0, 1}
  BY DEF StartupInv, StartupTypes, Local
<1>4. /\ token' \in [Approvals -> {0, 1, Absent}]
      /\ \A a \in Approvals : token'[a] = token[a] \/ token'[a] = 1
      /\ copy.token = 0 => Hashed(copy.id)'
  <2>1. CASE copy.token = 0 /\ token[copy.id] = 0
    BY <1>1, <1>3, <2>1 DEF Legacy, Hashed, StartupInv, StartupTypes
  <2>2. CASE ~(copy.token = 0 /\ token[copy.id] = 0)
    <3>1. token' = token
      BY <1>1, <1>3, <2>2 DEF Legacy, StartupInv, StartupTypes
    <3>2. copy.token = 0 => Hashed(copy.id)
      BY <1>3, <2>2, Unhashed DEF StartupInv
    <3>3. QED
      BY <3>1, <3>2 DEF Hashed, StartupInv, StartupTypes
  <2>3. QED
    BY <2>1, <2>2
<1>5. Kept
  BY <1>4 DEF Kept, Hashed
<1>6. AfterPage(r) \in {"reading", "serving"} /\ (AfterPage(r) = "serving" <=> ~full[r])
  BY DEF AfterPage, StartupInv, StartupTypes, Local
<1>7. /\ page'[r] = page[r] \ {copy} /\ cursor'[r] = cursor[r] /\ full'[r] = full[r]
      /\ phase'[r] = (IF page[r] = {copy} THEN AfterPage(r) ELSE "hashing")
  BY <1>1, <1>2 DEF StartupInv, StartupTypes, Local
<1>8. Local'
  <2>1. phase' \in [Replicas -> Phases]
    BY <1>1, <1>2, <1>6 DEF StartupInv, StartupTypes, Local, Phases
  <2>2. page' \in [Replicas -> SUBSET [id : Approvals, token : {0, 1}]]
    BY <1>1 DEF StartupInv, StartupTypes, Local
  <2>3. QED
    BY <1>2, <2>1, <2>2 DEF StartupInv, StartupTypes, Local
<1>9. ASSUME NEW a \in Approvals, a <= cursor[r]
      PROVE  Hashed(a)' \/ OnPage(r, a)'
  <2>1. CASE Hashed(a)
    BY <1>5, <2>1 DEF Kept
  <2>2. CASE OnPage(r, a)
    <3>1. PICK other \in page[r] : other.id = a /\ other.token = 0
      BY <2>2 DEF OnPage
    <3>2. CASE other = copy
      BY <1>4, <3>1, <3>2
    <3>3. CASE other # copy
      BY <1>7, <3>1, <3>3 DEF OnPage
    <3>4. QED
      BY <3>2, <3>3
  <2>3. QED
    BY <1>2, <1>9, <2>1, <2>2 DEF StartupInv, Progress
<1>10. ASSUME NEW a \in Approvals, a > cursor[r], ~full[r]
       PROVE  Hashed(a)'
  <2>1. Hashed(a)
    BY <1>2, <1>10 DEF StartupInv, Progress
  <2>2. QED
    BY <1>5, <2>1 DEF Kept
<1>11. page[r] = {copy} => \A a \in Approvals : ~OnPage(r, a)'
  BY <1>7 DEF OnPage
<1>12. \A a \in Approvals : a <= cursor[r] \/ a > cursor[r]
  BY StartupAssumption DEF StartupInv, StartupTypes, Local
<1>13. Progress(r)'
  <2>1. CASE page[r] # {copy}
    BY <1>7, <1>9, <1>10, <2>1 DEF Progress
  <2>2. CASE page[r] = {copy} /\ full[r]
    BY <1>6, <1>7, <1>9, <1>11, <2>2 DEF Progress
  <2>3. CASE page[r] = {copy} /\ ~full[r]
    <3>1. phase'[r] = "serving"
      BY <1>6, <1>7, <2>3
    <3>2. \A a \in Approvals : Hashed(a)'
      BY <1>9, <1>10, <1>11, <1>12, <2>3
    <3>3. QED
      BY <3>1, <3>2 DEF Progress
  <2>4. QED
    BY <2>1, <2>2, <2>3
<1>14. QED
  BY <1>1, <1>2, <1>5, <1>8, <1>13, StepOf DEF StartupInv, StartupTypes, Local

LEMMA CreateApprovalSound ==
    ASSUME StartupInv, NEW r \in Replicas, NEW a \in Approvals, CreateApproval(r, a)
    PROVE  StartupInv'
<1>1. Kept
  BY DEF CreateApproval, Kept, StartupInv, StartupTypes, Hashed
<1>2. UNCHANGED <<phase, page, cursor, full>>
  BY DEF CreateApproval
<1>3. Local'
  BY <1>2 DEF StartupInv, StartupTypes, Local
<1>4. Progress(r)'
  BY <1>1, <1>2 DEF StartupInv, Kept, Progress, OnPage
<1>5. QED
  BY <1>1, <1>2, <1>3, <1>4, StepOf

LEMMA SignalSound == ASSUME StartupInv, NEW r \in Replicas, Signal(r) PROVE StartupInv'
<1>1. Kept
  BY DEF Signal, Kept, StartupInv, StartupTypes, Hashed
<1>2. Local'
  BY DEF Signal, StartupInv, StartupTypes, Local, Phases
<1>3. phase[r] = "serving" /\ phase'[r] = "stopping" /\ token' = token
  BY DEF Signal, StartupInv, StartupTypes, Local
<1>4. Progress(r)'
  BY <1>3 DEF StartupInv, Progress, Hashed
<1>5. QED
  BY <1>1, <1>2, <1>4, StepOf DEF Signal, StartupInv, StartupTypes, Local

LEMMA DownSound == ASSUME StartupInv, NEW r \in Replicas, Down(r) PROVE StartupInv'
<1>1. Kept
  BY DEF Down, Kept, StartupInv, StartupTypes, Hashed
<1>2. Local'
  BY DEF Down, StartupInv, StartupTypes, Local, Phases
<1>3. phase'[r] = "down"
  BY DEF Down, StartupInv, StartupTypes, Local
<1>4. Progress(r)'
  BY <1>3 DEF Progress
<1>5. QED
  BY <1>1, <1>2, <1>4, StepOf DEF Down, StartupInv, StartupTypes, Local

LEMMA StartupStepSound == StartupInv /\ [Next]_vars => StartupInv'
<1> SUFFICES ASSUME StartupInv, [Next]_vars PROVE StartupInv'
  OBVIOUS
<1>1. CASE Next
  BY <1>1, BootSound, ReadNothingSound, ReadPageSound, HashOneSound, SignalSound, DownSound,
     CreateApprovalSound DEF Next, Go, Exit, Crash
<1>2. CASE UNCHANGED vars
  BY <1>2 DEF vars, StartupInv, StartupTypes, Local, Progress, Hashed, OnPage
<1>3. QED
  BY <1>1, <1>2

LEMMA StartupInvariant == Spec => []StartupInv
BY StartupInitSound, StartupStepSound, PTL DEF Spec

-----------------------------------------------------------------------------
(* A decision token is hashed at most once, by whichever replica is first, *)
(* and no replica leaves the phases of its life: no link is made that a    *)
(* lookup cannot find (migrateLegacyApprovalTokens).                       *)
THEOREM StartupTypeCorrect == Spec => []StartupTypeOK
<1>1. StartupInv => StartupTypeOK
  BY DEF StartupInv, StartupTypes, Local, StartupTypeOK
<1>2. QED
  BY <1>1, StartupInvariant, PTL

(* When any replica serves, every approval's link is found by its digest,  *)
(* for any number of replicas that migrate, create, stop and crash at once.*)
THEOREM LinksCorrect == Spec => []ServedLinksWork
<1>1. StartupInv => ServedLinksWork
  BY DEF StartupInv, Progress, Hashed, ServedLinksWork
<1>2. QED
  BY <1>1, StartupInvariant, PTL

(* What a step of one replica does to its way through the pages.           *)
Onward(r) ==
    \/ phase'[r] \in {"serving", "down"}
    \/ cursor'[r] \in Approvals /\ cursor'[r] > cursor[r]
    \/ cursor'[r] = cursor[r] /\ page'[r] \subseteq page[r] /\ page'[r] # page[r]

LEMMA ReadPageOnward == ASSUME StartupInv, NEW r \in Replicas, ReadPage(r) PROVE Onward(r)
<1>1. PICK ids \in SUBSET Remaining(r), last \in Approvals : TakePage(r, ids, last)
  BY DEF ReadPage
<1>2. last \in Remaining(r) /\ cursor' = [cursor EXCEPT ![r] = last]
  BY <1>1 DEF TakePage, CursorAfter
<1>3. cursor'[r] = last /\ last > cursor[r]
  BY <1>2 DEF Remaining, StartupInv, StartupTypes, Local
<1>4. QED
  BY <1>3 DEF Onward

LEMMA HashOneOnward == ASSUME StartupInv, NEW r \in Replicas, HashOne(r) PROVE Onward(r)
<1>1. PICK copy \in page[r] : page' = [page EXCEPT ![r] = page[r] \ {copy}]
  BY DEF HashOne
<1>2. page'[r] = page[r] \ {copy} /\ cursor'[r] = cursor[r]
  BY <1>1 DEF HashOne, StartupInv, StartupTypes, Local
<1>3. QED
  BY <1>2 DEF Onward

(* The loop of migrateLegacyApprovalTokens ends, whatever other replicas   *)
(* hash and create meanwhile: its page shrinks or its cursor grows.        *)
THEOREM StartsGetOn == Spec => StartsAdvance
<1>1. ASSUME StartupInv, [Next]_vars, NEW r \in Replicas, phase[r] \in {"reading", "hashing"},
             <<phase'[r], page'[r], cursor'[r]>> # <<phase[r], page[r], cursor[r]>>
      PROVE  Onward(r)
  <2> DEFINE Same(s) == <<phase'[s], page'[s], cursor'[s]>> = <<phase[s], page[s], cursor[s]>>
  <2>1. ASSUME NEW s \in Replicas,
               \/ Boot(s) \/ Go(s) \/ Signal(s) \/ Crash(s)
               \/ \E a \in Approvals : CreateApproval(s, a)
        PROVE  \A t \in Replicas \ {s} : Same(t)
    BY <1>1, <2>1 DEF Boot, Go, ReadNothing, ReadPage, TakePage, HashOne, Exit, Crash, Down,
       Signal, CreateApproval, StartupInv, StartupTypes, Local
  <2>2. CASE Next
    <3>1. PICK s \in Replicas : \/ Boot(s) \/ Go(s) \/ Signal(s) \/ Crash(s)
                               \/ \E a \in Approvals : CreateApproval(s, a)
      BY <2>2 DEF Next
    <3>2. s = r
      BY <1>1, <2>1, <3>1
    <3>3. ~Boot(r) /\ ~Signal(r) /\ ~Exit(r)
      BY <1>1 DEF Boot, Signal, Exit
    <3>4. ~\E a \in Approvals : CreateApproval(r, a)
      BY <1>1 DEF CreateApproval
    <3>5. CASE ReadNothing(r) \/ Crash(r)
      BY <1>1, <3>5 DEF ReadNothing, Crash, Down, Onward, StartupInv, StartupTypes, Local
    <3>6. CASE ReadPage(r) \/ HashOne(r)
      BY <1>1, <3>6, ReadPageOnward, HashOneOnward
    <3>7. QED
      BY <3>1, <3>2, <3>3, <3>4, <3>5, <3>6 DEF Go
  <2>3. CASE UNCHANGED vars
    BY <1>1, <2>3 DEF vars
  <2>4. QED
    BY <1>1, <2>2, <2>3
<1>2. ASSUME StartupInv, [Next]_vars
      PROVE  \A r \in Replicas :
                LET before == <<phase[r], page[r], cursor[r]>>
                    after  == <<phase'[r], page'[r], cursor'[r]>>
                IN  phase[r] \in {"reading", "hashing"} /\ after # before =>
                        \/ phase'[r] \in {"serving", "down"}
                        \/ cursor'[r] \in Approvals /\ cursor'[r] > cursor[r]
                        \/ cursor'[r] = cursor[r] /\ page'[r] \subseteq page[r] /\ page'[r] # page[r]
  BY <1>1, <1>2 DEF Onward
<1>3. QED
  BY <1>2, StartupInvariant, PTL DEF Spec, StartsAdvance

-----------------------------------------------------------------------------
(* RateLimiter: the inductive invariant.                                   *)

Held == [stage : {"limit", "fallback", "handler"}, replica : Servers, key : Keys,
         window : Windows]

LimiterTypes == LimiterTypeOK /\ req \in [Requests -> {Nobody} \cup Held]

(* No query outlives the counter it is to increment, and the clock of a    *)
(* cleanup is that of a request that was there before.                     *)
ClocksSound ==
    /\ \A q \in Requests : req[q].stage = "limit" =>
          req[q].window <= now /\ now < req[q].window + Keep
    /\ \A t \in sweeps : t <= now

(* A counter that can still be incremented has counted all it let through. *)
CountersSound ==
    \A k \in Keys, w \in Windows :
        /\ admitted[k][w] <= Limit
        /\ now < w + Keep => admitted[k][w] <= bucket[k][w]

(* So has the map of each replica, which production never uses.            *)
MapsSound ==
    /\ \A r \in Servers, k \in Keys : alone[r][k] <= local[r][k] /\ alone[r][k] <= Limit
    /\ production => /\ \A q \in Requests : req[q].stage # "fallback"
                     /\ \A r \in Servers, k \in Keys : alone[r][k] = 0

LimiterInv == LimiterTypes /\ ClocksSound /\ CountersSound /\ MapsSound

-----------------------------------------------------------------------------
LEMMA CappedCounts ==
    ASSUME NEW n \in Counts
    PROVE  /\ Capped(n + 1) \in Counts
           /\ Capped(n + 1) >= n
           /\ n + 1 <= Limit => Capped(n + 1) = n + 1
BY LimiterAssumption DEF Counts, Capped

(* A request that has been counted goes on to the handler or is refused.   *)
LEMMA EnterTyped ==
    ASSUME LimiterTypes, NEW q \in Requests, req[q] \in Held, NEW count, Enter(q, count)
    PROVE  /\ req' \in [Requests -> {Nobody} \cup Held]
           /\ req'[q].stage \in {"none", "handler"}
           /\ \A p \in Requests \ {q} : req'[p] = req[p]
BY DEF Enter, LimiterTypes, Held, Nobody

LEMMA LimiterInitSound == LimiterInit => LimiterInv
<1> SUFFICES ASSUME LimiterInit PROVE LimiterInv
  OBVIOUS
<1>1. LimiterTypeOK
  BY LimiterAssumption DEF LimiterInit, LimiterTypeOK, Windows, Counts, Unused
<1>2. LimiterTypes
  BY <1>1 DEF LimiterInit, LimiterTypes
<1>3. ClocksSound
  BY DEF LimiterInit, ClocksSound, Nobody
<1>4. CountersSound
  BY LimiterAssumption DEF LimiterInit, CountersSound
<1>5. MapsSound
  BY LimiterAssumption DEF LimiterInit, MapsSound, Nobody, Unused
<1>6. QED
  BY <1>2, <1>3, <1>4, <1>5 DEF LimiterInv
-----------------------------------------------------------------------------
(* Each step of a request.                                                 *)

(* A stage is a field of a request that has been authenticated. *)
LEMMA InFlight ==
    ASSUME LimiterTypes, NEW q \in Requests, req[q].stage # "none"
    PROVE  /\ req[q] \in Held
           /\ req[q].key \in Keys /\ req[q].window \in Windows /\ req[q].replica \in Servers
BY DEF LimiterTypes, Nobody, Held

LEMMA CountSound ==
    ASSUME LimiterInv, NEW q \in Requests, CountRequest(q)
    PROVE  LimiterInv'
<1> DEFINE k == req[q].key
           w == req[q].window
           count == bucket[k][w] + 1
<1>1. /\ req[q] \in Held /\ req[q].stage = "limit" /\ k \in Keys /\ w \in Windows
      /\ w <= now /\ now < w + Keep
  BY InFlight DEF CountRequest, LimiterInv, ClocksSound
<1>2. /\ bucket[k][w] \in Counts /\ admitted[k][w] \in Counts
      /\ admitted[k][w] <= bucket[k][w] /\ admitted[k][w] <= Limit
  BY <1>1 DEF LimiterInv, LimiterTypes, LimiterTypeOK, CountersSound
<1>3. Enter(q, count)
  BY DEF CountRequest
<1>4. /\ req' \in [Requests -> {Nobody} \cup Held]
      /\ req'[q].stage \in {"none", "handler"} /\ \A p \in Requests \ {q} : req'[p] = req[p]
  BY <1>1, <1>3, EnterTyped DEF LimiterInv
<1>5. /\ bucket' \in [Keys -> [Windows -> Counts]]
      /\ \A j \in Keys, v \in Windows : bucket'[j][v] >= bucket[j][v]
      /\ bucket'[k][w] = Capped(count)
  <2>1. bucket' = [bucket EXCEPT ![k][w] = Capped(count)]
    BY DEF CountRequest
  <2>2. Capped(count) \in Counts /\ Capped(count) >= bucket[k][w]
    BY <1>2, CappedCounts
  <2>3. \A j \in Keys, v \in Windows : bucket[j][v] \in Counts /\ bucket[j][v] >= bucket[j][v]
    BY DEF LimiterInv, LimiterTypes, LimiterTypeOK, Counts
  <2>4. bucket \in [Keys -> [Windows -> Counts]]
    BY DEF LimiterInv, LimiterTypes, LimiterTypeOK
  <2>5. QED
    BY <1>1, <2>1, <2>2, <2>3, <2>4
<1>6. /\ admitted' \in [Keys -> [Windows -> Counts]]
      /\ admitted'[k][w] <= Limit /\ admitted'[k][w] <= Capped(count)
      /\ \A j \in Keys, v \in Windows : <<j, v>> # <<k, w>> => admitted'[j][v] = admitted[j][v]
  <2> DEFINE new == IF Allowed(count) THEN Capped(admitted[k][w] + 1) ELSE admitted[k][w]
  <2>1. admitted' = [admitted EXCEPT ![k][w] = new]
    BY DEF CountRequest
  <2>2. new \in Counts /\ new <= Limit /\ new <= Capped(count)
    BY <1>2, LimiterAssumption DEF Allowed, Capped, Counts
  <2>3. admitted \in [Keys -> [Windows -> Counts]]
    BY DEF LimiterInv, LimiterTypes, LimiterTypeOK
  <2> HIDE DEF new
  <2>4. QED
    BY <1>1, <2>1, <2>2, <2>3
<1>7. now' = now /\ sweeps' \subseteq sweeps \cup {w}
  BY DEF CountRequest
<1>8. LimiterTypes'
  BY <1>1, <1>4, <1>5, <1>6, <1>7 DEF CountRequest, LimiterInv, LimiterTypes, LimiterTypeOK
<1>9. ClocksSound'
  BY <1>1, <1>4, <1>7 DEF LimiterInv, ClocksSound
<1>10. CountersSound'
  <2> SUFFICES ASSUME NEW j \in Keys, NEW v \in Windows
               PROVE  /\ admitted'[j][v] <= Limit
                      /\ now < v + Keep => admitted'[j][v] <= bucket'[j][v]
    BY <1>7 DEF CountersSound
  <2>1. CASE j = k /\ v = w
    BY <2>1, <1>5, <1>6
  <2>2. CASE ~(j = k /\ v = w)
    <3>1. admitted'[j][v] = admitted[j][v] /\ bucket'[j][v] >= bucket[j][v]
      BY <2>2, <1>5, <1>6
    <3>2. bucket'[j][v] \in Counts /\ bucket[j][v] \in Counts /\ admitted[j][v] \in Counts
      BY <1>5 DEF LimiterInv, LimiterTypes, LimiterTypeOK
    <3>3. /\ admitted[j][v] <= Limit
          /\ now < v + Keep => admitted[j][v] <= bucket[j][v]
      BY DEF LimiterInv, CountersSound
    <3>4. QED
      BY <3>1, <3>2, <3>3, LimiterAssumption DEF Counts
  <2>3. QED
    BY <2>1, <2>2
<1>11. MapsSound'
  BY <1>1, <1>4 DEF CountRequest, LimiterInv, MapsSound
<1>12. QED
  BY <1>8, <1>9, <1>10, <1>11 DEF LimiterInv
LEMMA QueryFailsSound ==
    ASSUME LimiterInv, NEW q \in Requests, QueryFails(q)
    PROVE  LimiterInv'
<1> DEFINE k == req[q].key
           w == req[q].window
           count == bucket[k][w] + 1
<1>1. /\ req[q] \in Held /\ req[q].stage = "limit" /\ k \in Keys /\ w \in Windows
  BY InFlight DEF QueryFails, LimiterInv
<1>2. /\ req' \in [Requests -> {Nobody} \cup Held]
      /\ req'[q].stage # "limit" /\ (production => req'[q].stage # "fallback")
      /\ \A p \in Requests \ {q} : req'[p] = req[p]
  BY <1>1 DEF QueryFails, LimiterInv, LimiterTypes, Held, Nobody
<1>3. /\ bucket' \in [Keys -> [Windows -> Counts]]
      /\ \A j \in Keys, v \in Windows : bucket'[j][v] >= bucket[j][v]
  <2>1. bucket' \in {bucket, [bucket EXCEPT ![k][w] = Capped(count)]}
    BY DEF QueryFails
  <2>2. bucket \in [Keys -> [Windows -> Counts]]
    BY DEF LimiterInv, LimiterTypes, LimiterTypeOK
  <2>3. Capped(count) \in Counts /\ Capped(count) >= bucket[k][w]
    BY <1>1, <2>2, CappedCounts
  <2>4. \A j \in Keys, v \in Windows : bucket[j][v] \in Counts /\ bucket[j][v] >= bucket[j][v]
    BY <2>2 DEF Counts
  <2>5. QED
    BY <1>1, <2>1, <2>2, <2>3, <2>4
<1>4. UNCHANGED <<production, key, local, sweeps, admitted, alone, now>>
  BY DEF QueryFails
<1>5. LimiterTypes'
  BY <1>2, <1>3, <1>4 DEF LimiterInv, LimiterTypes, LimiterTypeOK
<1>6. ClocksSound'
  BY <1>2, <1>4 DEF LimiterInv, ClocksSound
<1>7. CountersSound'
  <2> SUFFICES ASSUME NEW j \in Keys, NEW v \in Windows
               PROVE  /\ admitted[j][v] <= Limit
                      /\ now < v + Keep => admitted[j][v] <= bucket'[j][v]
    BY <1>4 DEF CountersSound
  <2>1. bucket'[j][v] \in Counts /\ bucket[j][v] \in Counts /\ admitted[j][v] \in Counts
    BY <1>3 DEF LimiterInv, LimiterTypes, LimiterTypeOK
  <2>2. QED
    BY <1>3, <2>1, LimiterAssumption DEF LimiterInv, CountersSound, Counts
<1>8. MapsSound'
  BY <1>2, <1>4 DEF LimiterInv, MapsSound
<1>9. QED
  BY <1>5, <1>6, <1>7, <1>8 DEF LimiterInv

LEMMA CountLocallySound ==
    ASSUME LimiterInv, NEW q \in Requests, CountLocally(q)
    PROVE  LimiterInv'
<1> DEFINE k == req[q].key
           r == req[q].replica
           count == local[r][k] + 1
           new == IF Allowed(count) THEN Capped(alone[r][k] + 1) ELSE alone[r][k]
<1>1. /\ req[q] \in Held /\ req[q].stage = "fallback" /\ k \in Keys /\ r \in Servers
      /\ ~production
  BY InFlight DEF CountLocally, LimiterInv, MapsSound
<1>2. /\ local \in [Servers -> [Keys -> Counts]] /\ alone \in [Servers -> [Keys -> Counts]]
      /\ alone[r][k] <= local[r][k] /\ alone[r][k] <= Limit
  BY <1>1 DEF LimiterInv, LimiterTypes, LimiterTypeOK, MapsSound
<1>3. Enter(q, count) /\ UNCHANGED <<production, key, bucket, sweeps, admitted, now>>
  BY DEF CountLocally
<1>4. /\ req' \in [Requests -> {Nobody} \cup Held]
      /\ req'[q].stage \in {"none", "handler"} /\ \A p \in Requests \ {q} : req'[p] = req[p]
  BY <1>1, <1>3, EnterTyped DEF LimiterInv
<1>5. Capped(count) \in Counts /\ new \in Counts /\ new <= Limit /\ new <= Capped(count)
  BY <1>1, <1>2, LimiterAssumption DEF Allowed, Capped, Counts
<1>6. local' = [local EXCEPT ![r][k] = Capped(count)] /\ alone' = [alone EXCEPT ![r][k] = new]
  BY DEF CountLocally
<1> HIDE DEF new, count
<1>7. local' \in [Servers -> [Keys -> Counts]] /\ alone' \in [Servers -> [Keys -> Counts]]
  BY <1>1, <1>2, <1>5, <1>6
<1>8. LimiterTypes'
  BY <1>3, <1>4, <1>7 DEF LimiterInv, LimiterTypes, LimiterTypeOK
<1>9. ClocksSound'
  BY <1>3, <1>4 DEF LimiterInv, ClocksSound
<1>10. CountersSound'
  BY <1>3 DEF LimiterInv, CountersSound
<1>11. MapsSound'
  <2>1. ASSUME NEW s \in Servers, NEW j \in Keys
        PROVE  alone'[s][j] <= local'[s][j] /\ alone'[s][j] <= Limit
    <3>1. CASE s = r /\ j = k
      BY <1>1, <1>2, <1>5, <1>6, <3>1
    <3>2. CASE ~(s = r /\ j = k)
      <4>1. alone'[s][j] = alone[s][j] /\ local'[s][j] = local[s][j]
        BY <1>1, <1>2, <1>6, <3>2
      <4>2. QED
        BY <4>1 DEF LimiterInv, MapsSound
    <3>3. QED
      BY <3>1, <3>2
  <2>2. QED
    BY <1>1, <1>3, <2>1 DEF MapsSound
<1>12. QED
  BY <1>8, <1>9, <1>10, <1>11 DEF LimiterInv

LEMMA SweepSound ==
    ASSUME LimiterInv, NEW time \in sweeps, Sweep(time)
    PROVE  LimiterInv'
<1>1. time \in Windows /\ time <= now /\ now \in Windows
  BY DEF LimiterInv, LimiterTypes, LimiterTypeOK, ClocksSound
<1>2. UNCHANGED <<production, key, req, local, admitted, alone, now>> /\ sweeps' \subseteq sweeps
  BY DEF Sweep
<1>3. bucket' \in [Keys -> [Windows -> Counts]]
  BY LimiterAssumption DEF Sweep, LimiterInv, LimiterTypes, LimiterTypeOK, Counts
<1>4. LimiterTypes'
  BY <1>2, <1>3 DEF LimiterInv, LimiterTypes, LimiterTypeOK
<1>5. ClocksSound' /\ MapsSound'
  BY <1>2 DEF LimiterInv, ClocksSound, MapsSound
<1>6. CountersSound'
  <2> SUFFICES ASSUME NEW j \in Keys, NEW v \in Windows, now < v + Keep
               PROVE  bucket'[j][v] = bucket[j][v]
    BY <1>2 DEF LimiterInv, CountersSound
  <2>1. ~Stale(v, time)
    BY <1>1, LimiterAssumption DEF Stale, Windows
  <2>2. QED
    BY <2>1 DEF Sweep, LimiterInv, LimiterTypes, LimiterTypeOK
<1>7. QED
  BY <1>4, <1>5, <1>6 DEF LimiterInv

LEMMA TickSound ==
    ASSUME LimiterInv, Tick
    PROVE  LimiterInv'
<1>1. now' = now + 1 /\ now \in Windows /\ now' \in Windows
  BY LimiterAssumption DEF Tick, LimiterInv, LimiterTypes, LimiterTypeOK, Windows
<1>2. UNCHANGED <<production, key, req, bucket, sweeps, admitted>>
  BY DEF Tick
<1>3. local' = Unused /\ alone' = Unused /\ Unused \in [Servers -> [Keys -> Counts]]
  BY LimiterAssumption DEF Tick, Unused, Counts
<1>4. LimiterTypes'
  BY <1>1, <1>2, <1>3 DEF LimiterInv, LimiterTypes, LimiterTypeOK
<1>5. ClocksSound'
  <2>1. \A q \in Requests : req[q].stage = "limit" => req[q].window \in Windows
    BY InFlight DEF LimiterInv
  <2>2. \A q \in Requests : req[q].stage = "limit" => now + 1 < req[q].window + Keep
    BY DEF Tick
  <2>3. \A q \in Requests : req[q].stage = "limit" =>
           req[q].window <= now + 1 /\ now + 1 < req[q].window + Keep
    BY <1>1, <2>1, <2>2, LimiterAssumption DEF LimiterInv, ClocksSound, Windows
  <2>4. \A t \in sweeps : t <= now + 1
    BY <1>1 DEF LimiterInv, ClocksSound, LimiterTypes, LimiterTypeOK, Windows
  <2>5. QED
    BY <1>1, <1>2, <2>3, <2>4 DEF ClocksSound
<1>6. CountersSound'
  <2>1. \A w \in Windows : now + 1 < w + Keep => now < w + Keep
    BY <1>1, LimiterAssumption DEF Windows
  <2>2. QED
    BY <1>1, <1>2, <2>1 DEF LimiterInv, CountersSound
<1>7. MapsSound'
  BY <1>2, <1>3, LimiterAssumption DEF LimiterInv, MapsSound, Unused
<1>8. QED
  BY <1>4, <1>5, <1>6, <1>7 DEF LimiterInv

(* A replica that dies takes its requests and its map along. *)
LEMMA RestartSound ==
    ASSUME LimiterInv, NEW r \in Servers, Restart(r)
    PROVE  LimiterInv'
<1>1. UNCHANGED <<production, key, bucket, sweeps, admitted, now>>
  BY DEF Restart
<1>2. /\ req' \in [Requests -> {Nobody} \cup Held]
      /\ \A q \in Requests : req'[q] \in {req[q], Nobody}
  BY DEF Restart, LimiterInv, LimiterTypes
<1>3. /\ local' \in [Servers -> [Keys -> Counts]] /\ alone' \in [Servers -> [Keys -> Counts]]
      /\ \A s \in Servers, k \in Keys :
            \/ alone'[s][k] = alone[s][k] /\ local'[s][k] = local[s][k]
            \/ alone'[s][k] = 0 /\ local'[s][k] = 0
  BY LimiterAssumption DEF Restart, LimiterInv, LimiterTypes, LimiterTypeOK, Unused, Counts
<1>4. LimiterTypes'
  BY <1>1, <1>2, <1>3 DEF LimiterInv, LimiterTypes, LimiterTypeOK
<1>5. ClocksSound' /\ CountersSound'
  BY <1>1, <1>2 DEF LimiterInv, ClocksSound, CountersSound, Nobody
<1>6. MapsSound'
  <2>1. \A s \in Servers, k \in Keys : alone'[s][k] <= local'[s][k] /\ alone'[s][k] <= Limit
    BY <1>3, LimiterAssumption DEF LimiterInv, MapsSound
  <2>2. production => \A s \in Servers, k \in Keys : alone'[s][k] = 0
    BY <1>3 DEF LimiterInv, MapsSound
  <2>3. production => \A q \in Requests : req'[q].stage # "fallback"
    BY <1>2 DEF LimiterInv, MapsSound, Nobody
  <2>4. QED
    BY <1>1, <2>1, <2>2, <2>3 DEF MapsSound
<1>7. QED
  BY <1>4, <1>5, <1>6 DEF LimiterInv

LEMMA OtherStepsSound ==
    ASSUME LimiterInv,
           \/ \E k \in Keys : CreateKey(k) \/ RevokeKey(k)
           \/ \E q \in Requests : Respond(q)
           \/ \E q \in Requests, r \in Servers, k \in Keys : Authenticate(q, r, k)
    PROVE  LimiterInv'
<1>1. ASSUME NEW k \in Keys, CreateKey(k) \/ RevokeKey(k) PROVE LimiterInv'
  <2>1. UNCHANGED <<production, limiter, now>>
    BY <1>1 DEF CreateKey, RevokeKey
  <2>2. key' \in [Keys -> {"none", "live", "revoked"}]
    BY <1>1 DEF CreateKey, RevokeKey, LimiterInv, LimiterTypes, LimiterTypeOK
  <2>3. LimiterTypes'
    BY <2>1, <2>2 DEF limiter, LimiterInv, LimiterTypes, LimiterTypeOK
  <2>4. ClocksSound' /\ CountersSound' /\ MapsSound'
    BY <2>1 DEF limiter, LimiterInv, ClocksSound, CountersSound, MapsSound
  <2>5. QED
    BY <2>3, <2>4 DEF LimiterInv
<1>2. ASSUME NEW q \in Requests, Respond(q) PROVE LimiterInv'
  BY <1>2 DEF Respond, LimiterInv, LimiterTypes, LimiterTypeOK, ClocksSound, CountersSound,
              MapsSound, Nobody
<1>3. ASSUME NEW q \in Requests, NEW r \in Servers, NEW k \in Keys, Authenticate(q, r, k)
      PROVE  LimiterInv'
  <2>1. /\ req' = [req EXCEPT ![q] = [stage |-> "limit", replica |-> r, key |-> k, window |-> now]]
        /\ UNCHANGED <<production, key, bucket, local, sweeps, admitted, alone, now>>
    BY <1>3 DEF Authenticate
  <2>2. now \in Windows /\ now <= now /\ now < now + Keep
    BY LimiterAssumption DEF LimiterInv, LimiterTypes, LimiterTypeOK, Windows
  <2>3. LimiterTypes'
    BY <2>1, <2>2 DEF LimiterInv, LimiterTypes, LimiterTypeOK, Held
  <2>4. ClocksSound'
    BY <2>1, <2>2 DEF LimiterInv, LimiterTypes, ClocksSound
  <2>5. CountersSound' /\ MapsSound'
    BY <2>1 DEF LimiterInv, LimiterTypes, CountersSound, MapsSound
  <2>6. QED
    BY <2>3, <2>4, <2>5 DEF LimiterInv
<1>4. QED
  BY <1>1, <1>2, <1>3

-----------------------------------------------------------------------------
LEMMA LimiterStepSound == LimiterInv /\ [LimiterNext]_limiterVars => LimiterInv'
<1> SUFFICES ASSUME LimiterInv, [LimiterNext]_limiterVars PROVE LimiterInv'
  OBVIOUS
<1>1. CASE LimiterNext
  BY <1>1, TickSound, OtherStepsSound, SweepSound, RestartSound, CountSound, QueryFailsSound,
     CountLocallySound DEF LimiterNext
<1>2. CASE UNCHANGED limiterVars
  BY <1>2 DEF limiterVars, limiter, LimiterInv, LimiterTypes, LimiterTypeOK, ClocksSound, CountersSound,
              MapsSound
<1>3. QED
  BY <1>1, <1>2

LEMMA LimiterInvariant == LimiterSpec => []LimiterInv
BY LimiterInitSound, LimiterStepSound, PTL DEF LimiterSpec

(* Counters, keys and clocks have their types in every reachable state:    *)
(* consumeRateLimit never counts a request in a window there is not.       *)
THEOREM LimiterTypeCorrect == LimiterSpec => []LimiterTypeOK
<1>1. LimiterInv => LimiterTypeOK
  BY DEF LimiterInv, LimiterTypes
<1>2. QED
  BY <1>1, LimiterInvariant, PTL

(* No window of any key admits more than its limit, with any number of     *)
(* replicas and requests, whatever queries fail and whenever counters are  *)
(* swept; in production nothing passes that PostgreSQL has not counted.    *)
THEOREM WindowsCorrect == LimiterSpec => []WindowRespected
<1>1. LimiterInv => WindowRespected
  BY DEF LimiterInv, CountersSound, MapsSound, WindowRespected
<1>2. QED
  BY <1>1, LimiterInvariant, PTL

-----------------------------------------------------------------------------
(* The two side by side: each is a stuttering step of the other.           *)

LEMMA StartupPart == MCSpec => Spec
<1>1. MCInit => Init
  BY DEF MCInit
<1>2. [MCNext]_<<part, vars, limiterVars>> => [Next]_vars
  BY DEF MCNext
<1>3. QED
  BY <1>1, <1>2, PTL DEF MCSpec, Spec

LEMMA LimiterPart == MCSpec => LimiterSpec
<1>1. MCInit => LimiterInit
  BY DEF MCInit
<1>2. [MCNext]_<<part, vars, limiterVars>> => [LimiterNext]_limiterVars
  BY DEF MCNext
<1>3. QED
  BY <1>1, <1>2, PTL DEF MCSpec, LimiterSpec

(* What a replica keeps while it starts, and what it keeps while it counts *)
(* requests, is of its type in every state of the instance that is model-  *)
(* checked, for all values of the constants.                               *)
THEOREM ServerTypeCorrect == MCSpec => []TypeOK
<1>1. StartupTypeOK /\ LimiterTypeOK => TypeOK
  BY DEF TypeOK
<1>2. QED
  BY <1>1, StartupPart, LimiterPart, StartupTypeCorrect, LimiterTypeCorrect, PTL
=============================================================================
