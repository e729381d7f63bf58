---------------------------- MODULE AccountsProofs ----------------------------
(***************************************************************************)
(* Proofs about Accounts, for every number of clients, TOTP secrets,       *)
(* guesses, codes and changes of the session version.                      *)
(***************************************************************************)
EXTENDS Accounts, FiniteSetTheorems, TLAPS

-----------------------------------------------------------------------------
(* The inductive invariant.                                                *)

Creating == {"create", "issue", "issuing"}
Changing == {"reset", "enable"}

(* The bounds of the model hold with what is under way.                    *)
RoomLeft ==
    /\ Len(codes) + Under(Creating) <= MaxCodes
    /\ user.sessionVersion + Under(Changing) <= MaxVersion
    /\ resets <= user.sessionVersion

(* Some code sent to the address of the account has come back.             *)
Verified == ClaimedCodes("EMAIL_VERIFICATION") # {}

(* What is true of a token of version v is true as long as that version is *)
(* the account's: it was earned after the last reset.                      *)
Current(v, seen) == v <= user.sessionVersion /\ (v = user.sessionVersion => seen = resets)

CookieSound(t) ==
    Signed(t) =>
        /\ Verified /\ t.version <= user.sessionVersion /\ t.by # "nobody"
        /\ t.version = user.sessionVersion =>
              /\ t.by # "enabling" => t.resets = resets
              /\ t.by = "password" => ~user.twoFactorEnabled

ChallengeSound(t) == Signed(t) => Verified /\ Current(t.version, t.resets)

(* The id a request has read is that of a code of the type it is about.    *)
IdSound(r) ==
    /\ r.op \in {"consume", "record", "verify", "reset"} => r.id \in DOMAIN codes
    /\ r.op = "verify" => codes[r.id].type = "EMAIL_VERIFICATION"
    /\ r.op = "reset" => codes[r.id].type = "PASSWORD_RESET"

(* What a request has read, wherever it is used later.                     *)
RequestSound(r) ==
    /\ IdSound(r)
    /\ r.op \in {"issue", "issuing"} =>
          r.type \in Types /\ (r.signup => r.type = "EMAIL_VERIFICATION")
    /\ r.op = "issuing" => r.found = {i \in DOMAIN r.seen : ~r.seen[i].consumed}
    /\ r.op = "login" => /\ Verified /\ Current(r.version, r.resets)
                         /\ r.version = user.sessionVersion /\ ~r.second =>
                               ~user.twoFactorEnabled
    /\ r.op = "generate" => Verified
    /\ r.op = "enable" => Verified /\ r.secret \in confirmed

Sessions ==
    /\ user.emailVerified => Verified
    /\ user.twoFactorEnabled => user.twoFactorSecret \in confirmed
    /\ \A c \in Clients : CookieSound(cookie[c]) /\ ChallengeSound(challenge[c])
    /\ \A c \in Clients : RequestSound(req[c])

CodesSound ==
    /\ OneUsableCode
    /\ \A i \in DOMAIN codes : codes[i].claims <= 1 /\ (codes[i].claims = 1 => codes[i].consumed)
    /\ Cardinality(ClaimedCodes("PASSWORD_RESET")) = resets
    /\ welcomed => \E i \in DOMAIN codes : codes[i].type = "EMAIL_VERIFICATION"

IndInv == TypeOK /\ RoomLeft /\ CodesSound /\ Sessions

-----------------------------------------------------------------------------
(* How many requests are under way.                                        *)

LEMMA UnderType == ASSUME NEW ops PROVE Under(ops) \in Nat
BY AccountAssumption, FS_Subset, FS_CardinalityType DEF Under

LEMMA UnderMoves ==
    ASSUME req \in [Clients -> Requests], NEW c \in Clients, NEW ops,
           \A d \in Clients \ {c} : req'[d] = req[d]
    PROVE  /\ Under(ops)' \in Nat /\ Under(ops)' <= Under(ops) + 1
           /\ (req'[c].op \in ops => req[c].op \in ops) => Under(ops)' <= Under(ops)
           /\ req[c].op \in ops /\ req'[c].op \notin ops => Under(ops)' + 1 = Under(ops)
<1> DEFINE old == {d \in Clients : req[d].op \in ops}
           new == {d \in Clients : req'[d].op \in ops}
<1>1. /\ IsFiniteSet(old) /\ IsFiniteSet(new) /\ IsFiniteSet(old \cup {c})
      /\ Cardinality(old) \in Nat /\ Cardinality(new) \in Nat
  BY AccountAssumption, FS_Subset, FS_CardinalityType, FS_AddElement
<1>2. Under(ops) = Cardinality(old) /\ Under(ops)' = Cardinality(new)
  BY DEF Under
<1>3. Cardinality(new) <= Cardinality(old) + 1
  <2>1. new \subseteq old \cup {c}
    OBVIOUS
  <2>2. Cardinality(new) <= Cardinality(old \cup {c})
    BY <1>1, <2>1, FS_Subset
  <2>3. Cardinality(old \cup {c}) \in {Cardinality(old), Cardinality(old) + 1}
    BY <1>1, FS_AddElement
  <2>4. QED
    BY <1>1, <2>2, <2>3
<1>4. ASSUME req'[c].op \in ops => req[c].op \in ops
      PROVE  Cardinality(new) <= Cardinality(old)
  <2>1. new \subseteq old
    BY <1>4
  <2>2. QED
    BY <1>1, <2>1, FS_Subset
<1>5. ASSUME req[c].op \in ops, req'[c].op \notin ops
      PROVE  Cardinality(new) + 1 = Cardinality(old)
  <2>1. new = old \ {c} /\ c \in old
    BY <1>5
  <2>2. Cardinality(new) = Cardinality(old) - 1
    BY <1>1, <2>1, FS_RemoveElement
  <2>3. QED
    BY <1>1, <2>2
<1>6. QED
  BY <1>1, <1>2, <1>3, <1>4, <1>5

-----------------------------------------------------------------------------
(* What every step respects.                                               *)

(* Codes are not forgotten, versions grow, and within one version neither  *)
(* is a password reset nor the second factor switched on.                  *)
Forward ==
    /\ Len(codes') >= Len(codes)
    /\ \A i \in DOMAIN codes : /\ i \in DOMAIN codes' /\ codes'[i].type = codes[i].type
                               /\ codes[i].claims > 0 => codes'[i].claims > 0
    /\ user'.sessionVersion >= user.sessionVersion
    /\ user'.sessionVersion = user.sessionVersion =>
          resets' = resets /\ (user'.twoFactorEnabled => user.twoFactorEnabled)
    /\ confirmed \subseteq confirmed'

LEMMA VerifiedStable == ASSUME Forward, Verified PROVE Verified'
BY DEF Forward, Verified, ClaimedCodes

(* Tokens are made of versions the account has had. *)
LEMMA Versions ==
    ASSUME IndInv
    PROVE  /\ user.sessionVersion \in Nat /\ resets \in Nat
           /\ \A c \in Clients : /\ cookie[c].version \in Nat /\ challenge[c].version \in Nat
                                /\ req[c].version \in Nat
BY AccountAssumption DEF IndInv, TypeOK, Users, Tokens, Requests

LEMMA CookieStable ==
    ASSUME IndInv, Forward, user'.sessionVersion \in Nat,
           NEW c \in Clients, cookie'[c] = cookie[c]
    PROVE  CookieSound(cookie[c])'
<1>1. CookieSound(cookie[c])
  BY DEF IndInv, Sessions
<1>2. QED
  BY <1>1, VerifiedStable, Versions DEF CookieSound, Signed, NoToken, Token, Forward

LEMMA ChallengeStable ==
    ASSUME IndInv, Forward, user'.sessionVersion \in Nat,
           NEW c \in Clients, challenge'[c] = challenge[c]
    PROVE  ChallengeSound(challenge[c])'
<1>1. ChallengeSound(challenge[c])
  BY DEF IndInv, Sessions
<1>2. QED
  BY <1>1, VerifiedStable, Versions
     DEF ChallengeSound, Current, Signed, NoToken, Token, Forward

LEMMA RequestStable ==
    ASSUME IndInv, Forward, user'.sessionVersion \in Nat,
           NEW c \in Clients, req'[c] = req[c]
    PROVE  RequestSound(req[c])'
<1>1. RequestSound(req[c])
  BY DEF IndInv, Sessions
<1>2. IdSound(req[c])'
  BY <1>1 DEF RequestSound, IdSound, Forward
<1>3. req[c].op = "login" =>
          /\ Verified' /\ Current(req[c].version, req[c].resets)'
          /\ req[c].version = user'.sessionVersion /\ ~req[c].second => ~user'.twoFactorEnabled
  BY <1>1, VerifiedStable, Versions DEF RequestSound, Current, Forward
<1>4. QED
  BY <1>1, <1>2, <1>3, VerifiedStable DEF RequestSound, Forward

-----------------------------------------------------------------------------
(* Steps of one client, and what is left to show of each.                  *)

OthersWait(c) ==
    \A d \in Clients \ {c} : /\ req'[d] = req[d] /\ cookie'[d] = cookie[d]
                            /\ challenge'[d] = challenge[d]

LEMMA SessionsStep ==
    ASSUME IndInv, Forward, NEW c \in Clients, OthersWait(c), user'.sessionVersion \in Nat,
           CookieSound(cookie[c])', ChallengeSound(challenge[c])', RequestSound(req[c])',
           user'.emailVerified => Verified',
           user'.twoFactorEnabled => user'.twoFactorSecret \in confirmed'
    PROVE  Sessions'
<1>1. ASSUME NEW d \in Clients
      PROVE  CookieSound(cookie[d])' /\ ChallengeSound(challenge[d])' /\ RequestSound(req[d])'
  <2>1. CASE d = c
    BY <2>1
  <2>2. CASE d # c
    BY <2>2, CookieStable, ChallengeStable, RequestStable DEF OthersWait
  <2>3. QED
    BY <2>1, <2>2
<1>2. QED
  BY <1>1 DEF Sessions

(* A step that only hands a request over to the next step of its handler,  *)
(* or ends it, and touches at most user columns that decide nothing.       *)
Quiet(c) ==
    /\ c \in Clients
    /\ \A d \in Clients \ {c} : req'[d] = req[d]
    /\ req' \in [Clients -> Requests]
    /\ UNCHANGED <<codes, cookie, challenge, resets, welcomed>>
    /\ confirmed \subseteq confirmed' /\ confirmed' \subseteq Secrets
    /\ user' \in Users
    /\ user'.emailVerified = user.emailVerified
    /\ user'.sessionVersion = user.sessionVersion
    /\ user'.twoFactorEnabled = user.twoFactorEnabled
    /\ user'.twoFactorSecret = user.twoFactorSecret

RoomKept(c) ==
    /\ \/ req'[c].op \in Creating => req[c].op \in Creating
       \/ RoomForCode
    /\ \/ req'[c].op \in Changing => req[c].op \in Changing
       \/ RoomForVersion

LEMMA QuietForward == ASSUME IndInv, NEW c, Quiet(c) PROVE Forward
BY Versions DEF Quiet, Forward, IndInv, TypeOK

LEMMA QuietSound ==
    ASSUME IndInv, NEW c, Quiet(c), RoomKept(c), RequestSound(req[c])'
    PROVE  IndInv'
<1>1. Forward /\ c \in Clients /\ user'.sessionVersion \in Nat
  BY QuietForward, Versions DEF Quiet
<1>2. TypeOK'
  BY DEF Quiet, IndInv, TypeOK
<1>3. RoomLeft'
  <2>1. /\ Under(Creating)' \in Nat /\ Under(Creating)' <= Under(Creating) + 1
        /\ Under(Changing)' \in Nat /\ Under(Changing)' <= Under(Changing) + 1
        /\ (req'[c].op \in Creating => req[c].op \in Creating) =>
              Under(Creating)' <= Under(Creating)
        /\ (req'[c].op \in Changing => req[c].op \in Changing) =>
              Under(Changing)' <= Under(Changing)
    BY <1>1, UnderMoves DEF Quiet, IndInv, TypeOK
  <2>2. Under(Creating) \in Nat /\ Under(Changing) \in Nat
    BY UnderType
  <2>3. Len(codes) \in Nat
    BY DEF IndInv, TypeOK
  <2>4. Len(codes) + Under(Creating)' <= MaxCodes
    BY <2>1, <2>2, <2>3, AccountAssumption DEF RoomKept, RoomForCode, Creating, IndInv, RoomLeft
  <2>5. user.sessionVersion + Under(Changing)' <= MaxVersion
    BY <2>1, <2>2, Versions, AccountAssumption
       DEF RoomKept, RoomForVersion, Changing, IndInv, RoomLeft
  <2>6. QED
    BY <2>4, <2>5 DEF Quiet, IndInv, RoomLeft
<1>4. CodesSound'
  BY DEF Quiet, IndInv, CodesSound, OneUsableCode, ClaimedCodes
<1>5. Sessions'
  <2>1. CookieSound(cookie[c])' /\ ChallengeSound(challenge[c])'
    BY <1>1, CookieStable, ChallengeStable DEF Quiet
  <2>2. /\ user'.emailVerified => Verified'
        /\ user'.twoFactorEnabled => user'.twoFactorSecret \in confirmed'
    BY <1>1, VerifiedStable DEF Quiet, IndInv, Sessions
  <2>3. OthersWait(c)
    BY DEF Quiet, OthersWait
  <2>4. QED
    BY <1>1, <2>1, <2>2, <2>3, SessionsStep
<1>6. QED
  BY <1>2, <1>3, <1>4, <1>5 DEF IndInv

-----------------------------------------------------------------------------
(* Quiet steps.                                                            *)

LEMMA RestType ==
    /\ Nothing \in UNION {[ids -> [consumed : BOOLEAN, attempts : 0..MaxAttempts]] :
                             ids \in SUBSET (1..MaxCodes)}
    /\ Rest \in Requests /\ Rest.op = "none"
    /\ Rest.id = 0 /\ Rest.type = "none" /\ ~Rest.signup
<1>1. Nothing \in [{} -> [consumed : BOOLEAN, attempts : 0..MaxAttempts]]
  BY DEF Nothing
<1>2. Nothing \in UNION {[ids -> [consumed : BOOLEAN, attempts : 0..MaxAttempts]] :
                             ids \in SUBSET (1..MaxCodes)}
  BY <1>1
<1>3. QED
  BY <1>2, AccountAssumption DEF Rest, Requests, Ops

LEMMA Proceeds ==
    ASSUME IndInv, NEW c \in Clients, NEW r \in Requests, Proceed(c, r)
    PROVE  /\ req'[c] = r /\ \A d \in Clients \ {c} : req'[d] = req[d]
           /\ req' \in [Clients -> Requests]
BY DEF Proceed, IndInv, TypeOK

LEMMA DoneSound ==
    ASSUME IndInv, NEW c \in Clients, Done(c)
    PROVE  /\ req'[c] = Rest /\ req'[c].op = "none" /\ RequestSound(req[c])'
           /\ RoomKept(c) /\ req' \in [Clients -> Requests]
           /\ \A d \in Clients \ {c} : req'[d] = req[d]
BY RestType, Proceeds DEF Done, RequestSound, IdSound, RoomKept, Creating, Changing

LEMMA FailSound == ASSUME IndInv, NEW c \in Clients, Fail(c) PROVE IndInv'
<1>1. Quiet(c)
  BY DoneSound DEF Fail, history, Quiet, IndInv, TypeOK
<1>2. QED
  BY <1>1, DoneSound, QuietSound DEF Fail

(* Starting anew with a request that has read nothing yet. *)
LEMMA StartSound ==
    ASSUME IndInv, NEW c \in Clients, Idle(c),
           NEW r \in Requests, Proceed(c, r),
           r.op \in {"create", "issue"} => RoomForCode,
           r.op = "create" \/ (r.op = "issue" /\ r.type \in Types /\ ~r.signup),
           UNCHANGED <<user, codes, cookie, challenge, history>>
    PROVE  IndInv'
<1>1. Quiet(c)
  BY Proceeds DEF history, Quiet, IndInv, TypeOK
<1>2. req'[c] = r
  BY Proceeds
<1>3. RoomKept(c)
  BY <1>2 DEF RoomKept, Changing
<1>4. RequestSound(req[c])'
  BY <1>2 DEF RequestSound, IdSound
<1>5. QED
  BY <1>1, <1>3, <1>4, QuietSound

LEMMA SignupSound == ASSUME IndInv, NEW c \in Clients, Signup(c) PROVE IndInv'
<1> DEFINE r == [Rest EXCEPT !.op = "create"]
<1>1. r \in Requests /\ r.op = "create"
  BY RestType DEF Rest, Requests, Ops
<1>2. Proceed(c, r) /\ Idle(c) /\ RoomForCode
  BY DEF Signup
<1> HIDE DEF r
<1>3. QED
  BY <1>1, <1>2, StartSound DEF Signup

LEMMA AskForCodeSound ==
    ASSUME IndInv, NEW c \in Clients, NEW type \in Types, AskForCode(c, type)
    PROVE  IndInv'
<1> DEFINE r == [Rest EXCEPT !.op = "issue", !.type = type]
<1>1. r \in Requests /\ r.op = "issue" /\ r.type = type /\ ~r.signup
  BY RestType DEF Rest, Requests, Ops
<1>2. Proceed(c, r) /\ Idle(c) /\ RoomForCode
  BY DEF AskForCode
<1> HIDE DEF r
<1>3. QED
  BY <1>1, <1>2, StartSound DEF AskForCode

LEMMA CreateUserSound == ASSUME IndInv, NEW c \in Clients, CreateUser(c) PROVE IndInv'
<1>1. CASE user.exists
  <2>1. Done(c) /\ UNCHANGED <<user, codes, cookie, challenge, history>>
    BY <1>1 DEF CreateUser
  <2>2. Quiet(c)
    BY <2>1, DoneSound DEF history, Quiet, IndInv, TypeOK
  <2>3. QED
    BY <2>1, <2>2, DoneSound, QuietSound
<1>2. CASE ~user.exists
  <2> DEFINE r == [Rest EXCEPT !.op = "issue", !.type = "EMAIL_VERIFICATION", !.signup = TRUE]
  <2>1. r \in Requests /\ r.op = "issue" /\ r.type = "EMAIL_VERIFICATION"
    BY RestType DEF Rest, Requests, Ops, Types
  <2>2. /\ Proceed(c, r) /\ req[c].op = "create" /\ user' = [user EXCEPT !.exists = TRUE]
        /\ UNCHANGED <<codes, cookie, challenge, history>>
    BY <1>2 DEF CreateUser, Doing
  <2> HIDE DEF r
  <2>3. req'[c] = r
    BY <2>1, <2>2, Proceeds
  <2>4. Quiet(c)
    BY <2>1, <2>2, Proceeds DEF history, Quiet, IndInv, TypeOK, Users
  <2>5. RoomKept(c)
    BY <2>1, <2>2, <2>3 DEF RoomKept, Creating, Changing
  <2>6. RequestSound(req[c])'
    BY <2>1, <2>3 DEF RequestSound, IdSound, Types
  <2>7. QED
    BY <2>4, <2>5, <2>6, QuietSound
<1>3. QED
  BY <1>1, <1>2

-----------------------------------------------------------------------------
(* Issuing a code.                                                         *)

LEMMA IssuingType ==
    ASSUME IndInv, NEW c \in Clients, req[c].op \in {"issue", "issuing"}
    PROVE  req[c] \in Requests /\ req[c].type \in Types
           /\ (req[c].signup => req[c].type = "EMAIL_VERIFICATION")
BY DEF IndInv, TypeOK, Sessions, RequestSound

LEMMA ReadType ==
    ASSUME IndInv, NEW type \in Types
    PROVE  /\ Outstanding(type) \in SUBSET (1..MaxCodes)
           /\ OfType(type) \in UNION {[ids -> [consumed : BOOLEAN, attempts : 0..MaxAttempts]] :
                                          ids \in SUBSET (1..MaxCodes)}
           /\ Outstanding(type) = {i \in DOMAIN OfType(type) : ~OfType(type)[i].consumed}
<1> DEFINE ids == {j \in DOMAIN codes : codes[j].type = type}
<1>1. /\ codes \in Seq(Code) /\ DOMAIN codes = 1..Len(codes)
      /\ Len(codes) \in Nat /\ Len(codes) <= MaxCodes
  BY DEF IndInv, TypeOK
<1>2. \A i \in DOMAIN codes : codes[i] \in Code
  BY <1>1
<1>3. DOMAIN codes \subseteq 1..MaxCodes
  BY <1>1, AccountAssumption
<1>4. OfType(type) \in [ids -> [consumed : BOOLEAN, attempts : 0..MaxAttempts]]
  BY <1>2 DEF OfType, Code
<1>5. ids \in SUBSET (1..MaxCodes)
  BY <1>3
<1>6. Outstanding(type) = {i \in DOMAIN OfType(type) : ~OfType(type)[i].consumed}
  BY DEF Outstanding, OfType
<1>7. QED
  BY <1>3, <1>4, <1>5, <1>6 DEF Outstanding

LEMMA IssueBeginSound == ASSUME IndInv, NEW c \in Clients, IssueBegin(c) PROVE IndInv'
<1> DEFINE type == req[c].type
           r == [req[c] EXCEPT !.op = "issuing", !.found = Outstanding(type),
                               !.seen = OfType(type)]
<1>1. /\ req[c].op = "issue" /\ Proceed(c, r)
      /\ UNCHANGED <<user, codes, cookie, challenge, history>>
  BY DEF IssueBegin, Doing
<1>2. req[c] \in Requests /\ type \in Types /\ (req[c].signup => type = "EMAIL_VERIFICATION")
  BY <1>1, IssuingType
<1>3. r \in Requests
  BY <1>2, ReadType DEF Requests, Ops
<1>4. /\ r.op = "issuing" /\ r.type = type /\ r.signup = req[c].signup
      /\ r.found = Outstanding(type) /\ r.seen = OfType(type)
  BY <1>2 DEF Requests
<1> HIDE DEF r
<1>5. req'[c] = r
  BY <1>1, <1>3, Proceeds
<1>6. Quiet(c)
  BY <1>1, <1>3, Proceeds DEF history, Quiet, IndInv, TypeOK
<1>7. RoomKept(c)
  BY <1>1, <1>4, <1>5 DEF RoomKept, Creating, Changing
<1>8. RequestSound(req[c])'
  BY <1>2, <1>4, <1>5, ReadType DEF RequestSound, IdSound
<1>9. QED
  BY <1>6, <1>7, <1>8, QuietSound

LEMMA IssueConflictSound == ASSUME IndInv, NEW c \in Clients, IssueConflict(c) PROVE IndInv'
<1>1. /\ req[c].op = "issuing"
      /\ UNCHANGED <<user, codes, cookie, challenge, history>>
  BY DEF IssueConflict, Doing
<1>2. CASE ~(req[c].tries < 2)
  <2>1. Done(c)
    BY <1>2 DEF IssueConflict
  <2>2. Quiet(c)
    BY <1>1, <2>1, DoneSound DEF history, Quiet, IndInv, TypeOK
  <2>3. QED
    BY <2>1, <2>2, DoneSound, QuietSound
<1>3. CASE req[c].tries < 2
  <2> DEFINE r == TriedAgain(req[c])
  <2>1. req[c] \in Requests /\ req[c].type \in Types
        /\ (req[c].signup => req[c].type = "EMAIL_VERIFICATION")
    BY <1>1, IssuingType
  <2>2. Nothing \in UNION {[ids -> [consumed : BOOLEAN, attempts : 0..MaxAttempts]] :
                              ids \in SUBSET (1..MaxCodes)}
    BY RestType
  <2>3. r \in Requests /\ r.op = "issue" /\ r.type = req[c].type /\ r.signup = req[c].signup
    <3>1. r = [req[c] EXCEPT !.op = "issue", !.tries = req[c].tries + 1, !.found = {},
                             !.seen = Nothing]
      BY <2>1 DEF TriedAgain, Requests
    <3>2. req[c].tries + 1 \in 0..2 /\ {} \in SUBSET (1..MaxCodes) /\ "issue" \in Ops
      BY <1>3, <2>1 DEF Requests, Ops
    <3>3. r \in Requests
      BY <2>1, <2>2, <3>1, <3>2 DEF Requests
    <3>4. QED
      BY <2>1, <3>1, <3>3 DEF Requests
  <2>4. Proceed(c, r)
    BY <1>3 DEF IssueConflict
  <2> HIDE DEF r
  <2>5. req'[c] = r
    BY <2>3, <2>4, Proceeds
  <2>6. Quiet(c)
    BY <1>1, <2>3, <2>4, Proceeds DEF history, Quiet, IndInv, TypeOK
  <2>7. RoomKept(c)
    BY <1>1, <2>3, <2>5 DEF RoomKept, Creating, Changing
  <2>8. RequestSound(req[c])'
    BY <2>1, <2>3, <2>5 DEF RequestSound, IdSound
  <2>9. QED
    BY <2>6, <2>7, <2>8, QuietSound
<1>4. QED
  BY <1>2, <1>3

LEMMA IssuedShape ==
    ASSUME IndInv, NEW c \in Clients, req[c].op = "issuing", Len(codes) < MaxCodes,
           codes' = Issued(req[c])
    PROVE  /\ codes' \in Seq(Code) /\ Len(codes') = Len(codes) + 1
           /\ DOMAIN codes = 1..Len(codes) /\ DOMAIN codes' = DOMAIN codes \cup {Len(codes) + 1}
           /\ Len(codes) \in Nat
           /\ \A i \in DOMAIN codes :
                 /\ codes'[i].type = codes[i].type /\ codes'[i].claims = codes[i].claims
                 /\ i \in req[c].found => codes'[i].consumed
                 /\ i \notin req[c].found => codes'[i] = codes[i]
           /\ LET last == codes'[Len(codes) + 1] IN
              /\ last.type = req[c].type /\ ~last.consumed /\ ~last.discarded /\ last.claims = 0
              /\ ~last.expired /\ last.attempts = 0
<1> DEFINE r == req[c]
           old == [i \in DOMAIN codes |->
                     IF i \in r.found
                     THEN [codes[i] EXCEPT !.consumed = TRUE, !.discarded = TRUE]
                     ELSE codes[i]]
           new == [type |-> r.type, attempts |-> 0, expired |-> FALSE, consumed |-> FALSE,
                   discarded |-> FALSE, claims |-> 0]
<1>1. /\ codes \in Seq(Code) /\ DOMAIN codes = 1..Len(codes) /\ Len(codes) \in Nat
      /\ \A i \in DOMAIN codes : codes[i] \in Code
  BY DEF IndInv, TypeOK
<1>2. new \in Code
  BY IssuingType, AccountAssumption DEF Code
<1>3. ASSUME NEW i \in DOMAIN codes
      PROVE  /\ old[i] \in Code /\ old[i].type = codes[i].type /\ old[i].claims = codes[i].claims
             /\ i \in r.found => old[i].consumed
             /\ i \notin r.found => old[i] = codes[i]
  <2>1. codes[i] \in Code
    BY <1>1
  <2>2. CASE i \in r.found
    BY <2>1, <2>2 DEF Code
  <2>3. CASE i \notin r.found
    BY <2>1, <2>3
  <2>4. QED
    BY <2>2, <2>3
<1>4. old \in Seq(Code) /\ Len(old) = Len(codes)
  <2>1. old \in [1..Len(codes) -> Code]
    BY <1>1, <1>3
  <2> HIDE DEF old
  <2>2. QED
    BY <1>1, <2>1
<1>5. codes' = Append(old, new)
  BY DEF Issued
<1> HIDE DEF old, new
<1>6. /\ codes' \in Seq(Code) /\ Len(codes') = Len(codes) + 1
      /\ \A i \in 1..Len(codes) : codes'[i] = old[i]
      /\ codes'[Len(codes) + 1] = new
  BY <1>1, <1>2, <1>4, <1>5
<1>7. DOMAIN codes' = DOMAIN codes \cup {Len(codes) + 1}
  <2>1. DOMAIN codes' = 1..(Len(codes) + 1)
    BY <1>6
  <2>2. QED
    BY <1>1, <2>1
<1>8. QED
  BY <1>1, <1>3, <1>6, <1>7 DEF new

LEMMA IssueCommitSound == ASSUME IndInv, NEW c \in Clients, IssueCommit(c) PROVE IndInv'
<1> DEFINE r == req[c]
           n == Len(codes)
<1>1. /\ r.op = "issuing" /\ r.seen = OfType(r.type) /\ codes' = Issued(r)
      /\ welcomed' = (welcomed \/ r.signup) /\ Done(c)
      /\ UNCHANGED <<user, cookie, challenge, resets, confirmed>>
  BY DEF IssueCommit, Doing, Unchanged
<1>2. r \in Requests /\ r.type \in Types /\ (r.signup => r.type = "EMAIL_VERIFICATION")
  BY <1>1, IssuingType
<1>3. r.found = Outstanding(r.type)
  BY <1>1, <1>2, ReadType DEF IndInv, Sessions, RequestSound
<1>4. /\ req'[c] = Rest /\ req'[c].op = "none" /\ RequestSound(req[c])'
      /\ req' \in [Clients -> Requests] /\ \A d \in Clients \ {c} : req'[d] = req[d]
  BY <1>1, DoneSound
<1>5. /\ Under(Creating)' \in Nat /\ Under(Creating)' + 1 = Under(Creating)
      /\ Under(Changing)' \in Nat /\ Under(Changing)' <= Under(Changing)
  BY <1>1, <1>4, UnderMoves DEF IndInv, TypeOK, Creating, Changing
<1>6. Under(Creating) \in Nat /\ Under(Changing) \in Nat /\ n \in Nat
  BY UnderType DEF IndInv, TypeOK
<1>7. n < MaxCodes
  BY <1>5, <1>6, AccountAssumption DEF IndInv, RoomLeft
<1>8. /\ codes' \in Seq(Code) /\ Len(codes') = n + 1
      /\ DOMAIN codes = 1..n /\ DOMAIN codes' = DOMAIN codes \cup {n + 1}
      /\ \A i \in DOMAIN codes :
            /\ codes'[i].type = codes[i].type /\ codes'[i].claims = codes[i].claims
            /\ i \in r.found => codes'[i].consumed
            /\ i \notin r.found => codes'[i] = codes[i]
      /\ codes'[n + 1].type = r.type /\ ~codes'[n + 1].consumed
      /\ ~codes'[n + 1].discarded /\ codes'[n + 1].claims = 0
  BY <1>1, <1>7, IssuedShape
<1>9. TypeOK'
  <2>1. Len(codes') <= MaxCodes
    BY <1>6, <1>7, <1>8, AccountAssumption
  <2>2. welcomed' \in BOOLEAN
    BY <1>1
  <2>3. QED
    BY <1>1, <1>4, <1>8, <2>1, <2>2 DEF IndInv, TypeOK
<1>10. RoomLeft'
  BY <1>1, <1>5, <1>6, <1>8, Versions, AccountAssumption DEF IndInv, RoomLeft
<1>11. CodesSound'
  <2>1. OneUsableCode'
    <3> SUFFICES ASSUME NEW i \in DOMAIN codes', NEW j \in DOMAIN codes',
                        codes'[i].type = codes'[j].type,
                        ~codes'[i].consumed, ~codes'[j].consumed
                 PROVE  i = j /\ ~codes'[i].discarded
      BY DEF OneUsableCode
    <3>1. CASE codes'[i].type = r.type
      <4>1. \A k \in DOMAIN codes : codes'[k].type = r.type => codes'[k].consumed
        BY <1>3, <1>8 DEF Outstanding
      <4>2. i = n + 1 /\ j = n + 1
        BY <1>8, <3>1, <4>1
      <4>3. codes'[i] = codes'[n + 1]
        BY <4>2
      <4>4. QED
        BY <1>8, <4>2, <4>3
    <3>2. CASE codes'[i].type # r.type
      <4>1. i \in DOMAIN codes /\ j \in DOMAIN codes
        BY <1>8, <3>2
      <4>2. i \notin r.found /\ j \notin r.found
        BY <1>8, <4>1
      <4>3. codes'[i] = codes[i] /\ codes'[j] = codes[j]
        BY <1>8, <4>1, <4>2
      <4>4. QED
        BY <4>1, <4>3 DEF IndInv, CodesSound, OneUsableCode
    <3>3. QED
      BY <3>1, <3>2
  <2>2. ASSUME NEW i \in DOMAIN codes'
        PROVE  codes'[i].claims <= 1 /\ (codes'[i].claims = 1 => codes'[i].consumed)
    <3>1. CASE i \in DOMAIN codes
      BY <1>8, <3>1 DEF IndInv, CodesSound
    <3>2. CASE i = n + 1
      BY <1>8, <3>2
    <3>3. QED
      BY <1>8, <3>1, <3>2
  <2>3. ClaimedCodes("PASSWORD_RESET")' = ClaimedCodes("PASSWORD_RESET")
    BY <1>8 DEF ClaimedCodes
  <2>4. welcomed' => \E i \in DOMAIN codes' : codes'[i].type = "EMAIL_VERIFICATION"
    <3>1. CASE r.signup
      BY <1>2, <1>8, <3>1
    <3>2. CASE ~r.signup /\ welcomed
      <4>1. PICK i \in DOMAIN codes : codes[i].type = "EMAIL_VERIFICATION"
        BY <3>2 DEF IndInv, CodesSound
      <4>2. QED
        BY <1>8, <4>1
    <3>3. QED
      BY <1>1, <3>1, <3>2
  <2>5. Cardinality(ClaimedCodes("PASSWORD_RESET"))' = resets'
    BY <1>1, <2>3 DEF IndInv, CodesSound
  <2>6. QED
    BY <2>1, <2>2, <2>4, <2>5 DEF CodesSound
<1>12. Forward
  BY <1>1, <1>6, <1>8, Versions DEF Forward
<1>13. Sessions'
  <2>1. OthersWait(c) /\ user'.sessionVersion \in Nat
    BY <1>1, <1>4, Versions DEF OthersWait
  <2>2. CookieSound(cookie[c])' /\ ChallengeSound(challenge[c])'
    BY <1>1, <1>12, <2>1, CookieStable, ChallengeStable
  <2>3. /\ user'.emailVerified => Verified'
        /\ user'.twoFactorEnabled => user'.twoFactorSecret \in confirmed'
    BY <1>1, <1>12, VerifiedStable DEF IndInv, Sessions
  <2>4. QED
    BY <1>4, <1>12, <2>1, <2>2, <2>3, SessionsStep
<1>14. QED
  BY <1>9, <1>10, <1>11, <1>13 DEF IndInv

-----------------------------------------------------------------------------
(* Using a code up.                                                        *)

(* One code changes: it stays of its type and does not become usable.      *)
Marked(i, code) ==
    /\ i \in DOMAIN codes /\ code \in Code
    /\ codes' = [codes EXCEPT ![i] = code]
    /\ code.type = codes[i].type /\ code.discarded = codes[i].discarded
    /\ codes[i].consumed => code.consumed
    /\ codes[i].claims > 0 => code.claims > 0
    /\ code.claims <= 1 /\ (code.claims = 1 => code.consumed)

LEMMA MarkedShape ==
    ASSUME IndInv, NEW i, NEW code, Marked(i, code)
    PROVE  /\ codes' \in Seq(Code) /\ Len(codes') = Len(codes) /\ Len(codes) \in Nat
           /\ DOMAIN codes' = DOMAIN codes /\ codes'[i] = code
           /\ \A j \in DOMAIN codes :
                 /\ j # i => codes'[j] = codes[j]
                 /\ codes'[j].type = codes[j].type /\ codes'[j].discarded = codes[j].discarded
                 /\ codes[j].consumed => codes'[j].consumed
                 /\ codes[j].claims > 0 => codes'[j].claims > 0
                 /\ codes'[j].claims <= 1 /\ (codes'[j].claims = 1 => codes'[j].consumed)
<1>1. codes \in Seq(Code) /\ DOMAIN codes = 1..Len(codes) /\ Len(codes) \in Nat
  BY DEF IndInv, TypeOK
<1>2. codes' \in Seq(Code) /\ Len(codes') = Len(codes) /\ DOMAIN codes' = DOMAIN codes
  BY <1>1 DEF Marked
<1>3. codes'[i] = code /\ \A j \in DOMAIN codes : j # i => codes'[j] = codes[j]
  BY <1>1 DEF Marked
<1>4. ASSUME NEW j \in DOMAIN codes
      PROVE  /\ codes'[j].type = codes[j].type /\ codes'[j].discarded = codes[j].discarded
             /\ codes[j].consumed => codes'[j].consumed
             /\ codes[j].claims > 0 => codes'[j].claims > 0
             /\ codes'[j].claims <= 1 /\ (codes'[j].claims = 1 => codes'[j].consumed)
  <2>1. CASE j = i
    BY <1>3, <2>1 DEF Marked
  <2>2. CASE j # i
    BY <1>3, <2>2 DEF IndInv, CodesSound
  <2>3. QED
    BY <2>1, <2>2
<1>5. QED
  BY <1>1, <1>2, <1>3, <1>4

LEMMA MarkedSound ==
    ASSUME IndInv, NEW i, NEW code, Marked(i, code), welcomed' = welcomed,
           Cardinality(ClaimedCodes("PASSWORD_RESET"))' = resets'
    PROVE  CodesSound'
<1>1. OneUsableCode'
  <2> SUFFICES ASSUME NEW j \in DOMAIN codes', NEW k \in DOMAIN codes',
                      codes'[j].type = codes'[k].type,
                      ~codes'[j].consumed, ~codes'[k].consumed
               PROVE  j = k /\ ~codes'[j].discarded
    BY DEF OneUsableCode
  <2>1. /\ j \in DOMAIN codes /\ k \in DOMAIN codes
        /\ codes[j].type = codes[k].type /\ ~codes[j].consumed /\ ~codes[k].consumed
        /\ codes'[j].discarded = codes[j].discarded
    BY MarkedShape
  <2>2. j = k /\ ~codes[j].discarded
    BY <2>1 DEF IndInv, CodesSound, OneUsableCode
  <2>3. QED
    BY <2>1, <2>2
<1>2. welcomed' => \E j \in DOMAIN codes' : codes'[j].type = "EMAIL_VERIFICATION"
  BY MarkedShape DEF IndInv, CodesSound
<1>3. QED
  BY <1>1, <1>2, MarkedShape DEF CodesSound

LEMMA SameClaims ==
    ASSUME IndInv, NEW i, NEW code, Marked(i, code), code.claims = codes[i].claims,
           resets' = resets
    PROVE  Cardinality(ClaimedCodes("PASSWORD_RESET"))' = resets'
<1>1. \A j \in DOMAIN codes : codes'[j].claims = codes[j].claims
  BY MarkedShape
<1>2. ClaimedCodes("PASSWORD_RESET")' = ClaimedCodes("PASSWORD_RESET")
  BY <1>1, MarkedShape DEF ClaimedCodes
<1>3. QED
  BY <1>2 DEF IndInv, CodesSound

LEMMA ExpireSound == ASSUME IndInv, NEW i \in DOMAIN codes, Expire(i) PROVE IndInv'
<1> DEFINE code == [codes[i] EXCEPT !.expired = TRUE]
<1>0. codes[i] \in Code
  BY DEF IndInv, TypeOK
<1>1. codes[i] \in Code /\ code \in Code
  BY <1>0 DEF Code
<1>2. UNCHANGED <<user, cookie, challenge, req, resets, confirmed, welcomed>>
  BY DEF Expire, history
<1>3. Marked(i, code) /\ code.claims = codes[i].claims
  <2>1. codes' = [codes EXCEPT ![i] = code]
    BY DEF Expire
  <2>2. codes[i].claims <= 1 /\ (codes[i].claims = 1 => codes[i].consumed)
    BY DEF IndInv, CodesSound
  <2>3. QED
    BY <1>1, <2>1, <2>2 DEF Marked, Code
<1> HIDE DEF code
<1>4. CodesSound'
  BY <1>2, <1>3, SameClaims, MarkedSound
<1>5. /\ codes' \in Seq(Code) /\ Len(codes') = Len(codes) /\ DOMAIN codes' = DOMAIN codes
  BY <1>3, MarkedShape
<1>6. TypeOK'
  BY <1>2, <1>5 DEF IndInv, TypeOK
<1>7. RoomLeft'
  BY <1>2, <1>5 DEF IndInv, RoomLeft, Under
<1>8. Forward /\ user'.sessionVersion \in Nat
  BY <1>2, <1>3, <1>5, MarkedShape, Versions DEF Forward
<1>9. Sessions'
  <2>1. \A c \in Clients : /\ CookieSound(cookie[c])' /\ ChallengeSound(challenge[c])'
                           /\ RequestSound(req[c])'
    BY <1>2, <1>8, CookieStable, ChallengeStable, RequestStable
  <2>2. QED
    BY <1>2, <1>8, <2>1, VerifiedStable DEF IndInv, Sessions
<1>10. QED
  BY <1>4, <1>6, <1>7, <1>9 DEF IndInv

(* A request whose handler ends with marking a code. *)
LEMMA MarkSound ==
    ASSUME IndInv, NEW c \in Clients, Done(c), NEW i, NEW code, Marked(i, code),
           code.claims = codes[i].claims, UNCHANGED <<user, cookie, challenge, history>>
    PROVE  IndInv'
<1>1. UNCHANGED <<user, cookie, challenge, resets, confirmed, welcomed>>
  BY DEF history
<1>2. CodesSound'
  BY <1>1, SameClaims, MarkedSound
<1>3. /\ codes' \in Seq(Code) /\ Len(codes') = Len(codes) /\ DOMAIN codes' = DOMAIN codes
      /\ Len(codes) \in Nat
  BY MarkedShape
<1>4. TypeOK'
  BY <1>1, <1>3, DoneSound DEF IndInv, TypeOK
<1>5. RoomLeft'
  <2>1. /\ Under(Creating)' \in Nat /\ Under(Creating)' <= Under(Creating)
        /\ Under(Changing)' \in Nat /\ Under(Changing)' <= Under(Changing)
    BY DoneSound, UnderMoves DEF IndInv, TypeOK, Creating, Changing
  <2>2. QED
    BY <1>1, <1>3, <2>1, UnderType, Versions, AccountAssumption DEF IndInv, RoomLeft
<1>6. Forward /\ user'.sessionVersion \in Nat
  BY <1>1, <1>3, MarkedShape, Versions DEF Forward
<1>7. Sessions'
  <2>1. OthersWait(c) /\ RequestSound(req[c])'
    BY <1>1, DoneSound DEF OthersWait
  <2>2. CookieSound(cookie[c])' /\ ChallengeSound(challenge[c])'
    BY <1>1, <1>6, CookieStable, ChallengeStable
  <2>3. QED
    BY <1>1, <1>6, <2>1, <2>2, VerifiedStable, SessionsStep DEF IndInv, Sessions
<1>8. QED
  BY <1>2, <1>4, <1>5, <1>7 DEF IndInv

LEMMA IdType ==
    ASSUME IndInv, NEW c \in Clients, req[c].op \in {"consume", "record", "verify", "reset"}
    PROVE  req[c].id \in DOMAIN codes /\ codes[req[c].id] \in Code
           /\ codes[req[c].id].claims <= 1
           /\ (codes[req[c].id].claims = 1 => codes[req[c].id].consumed)
BY DEF IndInv, TypeOK, Sessions, RequestSound, IdSound, CodesSound

LEMMA ConsumeSound == ASSUME IndInv, NEW c \in Clients, ConsumeAuthCode(c) PROVE IndInv'
<1> DEFINE i == req[c].id
           code == [codes[i] EXCEPT !.consumed = TRUE]
<1>1. /\ req[c].op = "consume" /\ codes' = [codes EXCEPT ![i] = code] /\ Done(c)
      /\ UNCHANGED <<user, cookie, challenge, history>>
  BY DEF ConsumeAuthCode, Doing
<1>2. Marked(i, code) /\ code.claims = codes[i].claims
  BY <1>1, IdType DEF Marked, Code
<1> HIDE DEF code, i
<1>3. QED
  BY <1>1, <1>2, MarkSound

LEMMA RecordSound == ASSUME IndInv, NEW c \in Clients, RecordFailedAttempt(c) PROVE IndInv'
<1> DEFINE i == req[c].id
           n == codes[i].attempts
           code == [codes[i] EXCEPT !.attempts = IF Countable(codes[i]) THEN n + 1 ELSE n]
<1>1. /\ req[c].op = "record" /\ codes' = [codes EXCEPT ![i] = code] /\ Done(c)
      /\ UNCHANGED <<user, cookie, challenge, history>>
  BY DEF RecordFailedAttempt, Doing
<1>2. i \in DOMAIN codes /\ codes[i] \in Code /\ codes[i].claims <= 1
      /\ (codes[i].claims = 1 => codes[i].consumed)
  BY <1>1, IdType
<1>3. (IF Countable(codes[i]) THEN n + 1 ELSE n) \in 0..MaxAttempts
  BY <1>2, AccountAssumption DEF Countable, Code
<1>4. code \in Code
  BY <1>2, <1>3 DEF Code
<1>5. Marked(i, code) /\ code.claims = codes[i].claims
  BY <1>1, <1>2, <1>4 DEF Marked, Code
<1> HIDE DEF code, i
<1>6. QED
  BY <1>1, <1>5, MarkSound

-----------------------------------------------------------------------------
(* Claiming a code.                                                        *)

LEMMA ClaimShape ==
    ASSUME IndInv, NEW c \in Clients, req[c].op \in {"verify", "reset"},
           Claimable(codes[req[c].id]), codes' = Claimed(req[c].id)
    PROVE  LET i == req[c].id
               code == [codes[i] EXCEPT !.attempts = codes[i].attempts + 1, !.consumed = TRUE,
                                        !.claims = codes[i].claims + 1]
           IN /\ Marked(i, code) /\ code.claims = 1 /\ codes[i].claims = 0
              /\ code.type = codes[i].type
<1> DEFINE i == req[c].id
           code == [codes[i] EXCEPT !.attempts = codes[i].attempts + 1, !.consumed = TRUE,
                                    !.claims = codes[i].claims + 1]
<1>1. /\ i \in DOMAIN codes /\ codes[i] \in Code /\ codes[i].claims <= 1
      /\ (codes[i].claims = 1 => codes[i].consumed)
  BY IdType
<1>2. ~codes[i].consumed /\ codes[i].attempts < MaxAttempts
  BY DEF Claimable
<1>3. codes[i].claims = 0
  BY <1>1, <1>2 DEF Code
<1>4. codes[i].attempts + 1 \in 0..MaxAttempts /\ codes[i].claims + 1 = 1
  BY <1>1, <1>2, <1>3, AccountAssumption DEF Code
<1>5. code \in Code /\ code.claims = 1 /\ code.consumed /\ code.type = codes[i].type
      /\ code.discarded = codes[i].discarded
  <2> DEFINE n == codes[i].attempts + 1
             m == codes[i].claims + 1
  <2>1. n \in 0..MaxAttempts /\ m = 1 /\ m \in Nat
    BY <1>1, <1>4 DEF Code
  <2>2. code = [codes[i] EXCEPT !.attempts = n, !.consumed = TRUE, !.claims = m]
    OBVIOUS
  <2> HIDE DEF n, m, code
  <2>3. QED
    BY <1>1, <2>1, <2>2 DEF Code
<1>6. codes' = [codes EXCEPT ![i] = code]
  <2>1. [codes[i] EXCEPT !.attempts = @ + 1, !.consumed = TRUE, !.claims = @ + 1] = code
    BY <1>1 DEF Code
  <2> HIDE DEF code
  <2>2. QED
    BY <2>1 DEF Claimed
<1>7. Marked(i, code)
  <2> HIDE DEF code
  <2>1. QED
    BY <1>1, <1>3, <1>5, <1>6 DEF Marked
<1>8. QED
  BY <1>3, <1>5, <1>7

LEMMA VerifyEmailSound == ASSUME IndInv, NEW c \in Clients, VerifyEmail(c) PROVE IndInv'
<1> DEFINE i == req[c].id
           code == [codes[i] EXCEPT !.attempts = codes[i].attempts + 1, !.consumed = TRUE,
                                    !.claims = codes[i].claims + 1]
<1>1. /\ req[c].op = "verify" /\ Done(c) /\ UNCHANGED <<challenge, resets, confirmed, welcomed>>
  BY DEF VerifyEmail, Doing, history
<1>2. CASE ~Claimable(codes[i])
  <2>1. UNCHANGED <<codes, user, cookie>>
    BY <1>2 DEF VerifyEmail
  <2>2. Quiet(c)
    BY <1>1, <2>1, DoneSound DEF Quiet, IndInv, TypeOK
  <2>3. QED
    BY <1>1, <2>2, DoneSound, QuietSound
<1>3. CASE Claimable(codes[i])
  <2>1. /\ codes' = Claimed(i) /\ user' = [user EXCEPT !.emailVerified = TRUE]
        /\ cookie' = [cookie EXCEPT ![c] = Token("code", user.sessionVersion, resets)]
    BY <1>3 DEF VerifyEmail
  <2>2. /\ Marked(i, code) /\ code.claims = 1 /\ codes[i].claims = 0
        /\ code.type = codes[i].type /\ codes[i].type = "EMAIL_VERIFICATION"
    <3>1. codes[i].type = "EMAIL_VERIFICATION"
      BY <1>1 DEF IndInv, Sessions, RequestSound, IdSound
    <3>2. QED
      BY <1>1, <1>3, <2>1, <3>1, ClaimShape
  <2> HIDE DEF code
  <2>3. /\ codes' \in Seq(Code) /\ Len(codes') = Len(codes) /\ DOMAIN codes' = DOMAIN codes
        /\ codes'[i] = code /\ i \in DOMAIN codes /\ Len(codes) \in Nat
        /\ \A j \in DOMAIN codes : j # i => codes'[j] = codes[j]
    BY <2>2, MarkedShape DEF Marked
  <2>4. /\ user' \in Users /\ user'.emailVerified /\ user'.sessionVersion = user.sessionVersion
        /\ user'.twoFactorEnabled = user.twoFactorEnabled
        /\ user'.twoFactorSecret = user.twoFactorSecret
    BY <2>1 DEF IndInv, TypeOK, Users
  <2>5. /\ cookie' \in [Clients -> Tokens]
        /\ cookie'[c] = Token("code", user.sessionVersion, resets)
        /\ \A d \in Clients \ {c} : cookie'[d] = cookie[d]
    <3>1. Token("code", user.sessionVersion, resets) \in Tokens
      BY DEF Token, Tokens, Ways, IndInv, TypeOK, Users
    <3>2. QED
      BY <2>1, <3>1 DEF IndInv, TypeOK
  <2>6. TypeOK'
    BY <1>1, <2>3, <2>4, <2>5, DoneSound DEF IndInv, TypeOK
  <2>7. RoomLeft'
    <3>1. /\ Under(Creating)' \in Nat /\ Under(Creating)' <= Under(Creating)
          /\ Under(Changing)' \in Nat /\ Under(Changing)' <= Under(Changing)
      BY <1>1, DoneSound, UnderMoves DEF IndInv, TypeOK, Creating, Changing
    <3>2. QED
      BY <1>1, <2>3, <2>4, <3>1, UnderType, Versions, AccountAssumption DEF IndInv, RoomLeft
  <2>8. CodesSound'
    <3>1. ClaimedCodes("PASSWORD_RESET")' = ClaimedCodes("PASSWORD_RESET")
      BY <2>2, <2>3 DEF ClaimedCodes
    <3>2. Cardinality(ClaimedCodes("PASSWORD_RESET"))' = resets'
      BY <1>1, <3>1 DEF IndInv, CodesSound
    <3>3. QED
      BY <1>1, <2>2, <3>2, MarkedSound
  <2>9. Verified'
    BY <2>2, <2>3 DEF Verified, ClaimedCodes
  <2>10. Forward /\ user'.sessionVersion \in Nat
    BY <1>1, <2>2, <2>3, <2>4, MarkedShape, Versions DEF Forward
  <2>11. Sessions'
    <3>1. OthersWait(c) /\ RequestSound(req[c])'
      BY <1>1, <2>5, DoneSound DEF OthersWait
    <3>2. CookieSound(cookie[c])'
      BY <1>1, <2>4, <2>5, <2>9, Versions DEF CookieSound, Token
    <3>3. ChallengeSound(challenge[c])'
      BY <1>1, <2>10, ChallengeStable
    <3>4. user'.twoFactorEnabled => user'.twoFactorSecret \in confirmed'
      BY <1>1, <2>4 DEF IndInv, Sessions
    <3>5. QED
      BY <2>9, <2>10, <3>1, <3>2, <3>3, <3>4, SessionsStep
  <2>12. QED
    BY <2>6, <2>7, <2>8, <2>11 DEF IndInv
<1>4. QED
  BY <1>2, <1>3

LEMMA ResetPasswordSound == ASSUME IndInv, NEW c \in Clients, ResetPassword(c) PROVE IndInv'
<1> DEFINE i == req[c].id
           code == [codes[i] EXCEPT !.attempts = codes[i].attempts + 1, !.consumed = TRUE,
                                    !.claims = codes[i].claims + 1]
<1>1. /\ req[c].op = "reset" /\ Done(c) /\ UNCHANGED <<challenge, confirmed, welcomed>>
  BY DEF ResetPassword, Doing
<1>2. CASE ~Claimable(codes[i])
  <2>1. UNCHANGED <<codes, user, cookie, resets>>
    BY <1>2 DEF ResetPassword
  <2>2. Quiet(c)
    BY <1>1, <2>1, DoneSound DEF Quiet, IndInv, TypeOK
  <2>3. QED
    BY <1>1, <2>2, DoneSound, QuietSound
<1>3. CASE Claimable(codes[i])
  <2>1. /\ codes' = Claimed(i) /\ user' = [user EXCEPT !.sessionVersion = user.sessionVersion + 1]
        /\ cookie' = [cookie EXCEPT ![c] = NoToken] /\ resets' = resets + 1
    BY <1>3 DEF ResetPassword
  <2>2. /\ Marked(i, code) /\ code.claims = 1 /\ codes[i].claims = 0
        /\ code.type = codes[i].type /\ codes[i].type = "PASSWORD_RESET"
    <3>1. codes[i].type = "PASSWORD_RESET"
      BY <1>1 DEF IndInv, Sessions, RequestSound, IdSound
    <3>2. QED
      BY <1>1, <1>3, <2>1, <3>1, ClaimShape
  <2> HIDE DEF code
  <2>3. /\ codes' \in Seq(Code) /\ Len(codes') = Len(codes) /\ DOMAIN codes' = DOMAIN codes
        /\ codes'[i] = code /\ i \in DOMAIN codes /\ Len(codes) \in Nat
        /\ \A j \in DOMAIN codes : j # i => codes'[j] = codes[j]
    BY <2>2, MarkedShape DEF Marked
  <2>4. /\ Under(Creating)' \in Nat /\ Under(Creating)' <= Under(Creating)
        /\ Under(Changing)' \in Nat /\ Under(Changing)' + 1 = Under(Changing)
        /\ Under(Creating) \in Nat /\ Under(Changing) \in Nat
    BY <1>1, DoneSound, UnderMoves, UnderType DEF IndInv, TypeOK, Creating, Changing
  <2>5. user.sessionVersion + 1 \in 0..MaxVersion /\ resets + 1 \in 0..MaxVersion
    BY <2>4, Versions, AccountAssumption DEF IndInv, RoomLeft
  <2>6. /\ user' \in Users /\ user'.emailVerified = user.emailVerified
        /\ user'.sessionVersion = user.sessionVersion + 1
        /\ user'.twoFactorEnabled = user.twoFactorEnabled
        /\ user'.twoFactorSecret = user.twoFactorSecret
    BY <2>1, <2>5 DEF IndInv, TypeOK, Users
  <2>7. /\ cookie' \in [Clients -> Tokens] /\ cookie'[c] = NoToken
        /\ \A d \in Clients \ {c} : cookie'[d] = cookie[d]
    <3>1. NoToken \in Tokens
      BY AccountAssumption DEF NoToken, Token, Tokens, Ways
    <3>2. QED
      BY <2>1, <3>1 DEF IndInv, TypeOK
  <2>8. TypeOK'
    BY <1>1, <2>1, <2>3, <2>5, <2>6, <2>7, DoneSound DEF IndInv, TypeOK
  <2>9. RoomLeft'
    BY <2>1, <2>3, <2>4, <2>6, Versions, AccountAssumption DEF IndInv, RoomLeft
  <2>10. CodesSound'
    <3> DEFINE old == ClaimedCodes("PASSWORD_RESET")
    <3>1. ClaimedCodes("PASSWORD_RESET")' = old \cup {i}
      BY <2>2, <2>3 DEF ClaimedCodes
    <3>2. i \notin old
      BY <2>2 DEF ClaimedCodes
    <3>3. IsFiniteSet(old)
      <4>1. DOMAIN codes = 1..Len(codes) /\ IsFiniteSet(1..Len(codes))
        BY <2>3, FS_Interval DEF IndInv, TypeOK
      <4>2. QED
        BY <4>1, FS_Subset DEF ClaimedCodes
    <3>4. Cardinality(old \cup {i}) = Cardinality(old) + 1
      BY <3>2, <3>3, FS_AddElement
    <3>5. Cardinality(ClaimedCodes("PASSWORD_RESET"))' = resets'
      BY <2>1, <3>1, <3>4 DEF IndInv, CodesSound
    <3>6. QED
      BY <1>1, <2>2, <3>5, MarkedSound
  <2>11. Forward /\ user'.sessionVersion \in Nat
    BY <1>1, <2>2, <2>3, <2>6, MarkedShape, Versions DEF Forward
  <2>12. Sessions'
    <3>1. OthersWait(c) /\ RequestSound(req[c])'
      BY <1>1, <2>7, DoneSound DEF OthersWait
    <3>2. CookieSound(cookie[c])'
      BY <2>7 DEF CookieSound, Signed
    <3>3. ChallengeSound(challenge[c])'
      BY <1>1, <2>11, ChallengeStable
    <3>4. /\ user'.twoFactorEnabled => user'.twoFactorSecret \in confirmed'
          /\ user'.emailVerified => Verified'
      BY <1>1, <2>6, <2>11, VerifiedStable DEF IndInv, Sessions
    <3>5. QED
      BY <2>11, <3>1, <3>2, <3>3, <3>4, SessionsStep
  <2>13. QED
    BY <2>8, <2>9, <2>10, <2>12 DEF IndInv
<1>4. QED
  BY <1>2, <1>3

-----------------------------------------------------------------------------
(* Submitting a code.                                                      *)

LEMMA OutstandingOne ==
    ASSUME IndInv, NEW type \in Types, Outstanding(type) # {}
    PROVE  LET i == CHOOSE i \in Outstanding(type) : \A j \in Outstanding(type) : j <= i
           IN i \in DOMAIN codes /\ i \in 1..MaxCodes /\ codes[i].type = type
<1>1. PICK k \in Outstanding(type) : TRUE
  OBVIOUS
<1>2. \A j \in Outstanding(type) : j = k
  BY <1>1 DEF Outstanding, IndInv, CodesSound, OneUsableCode
<1>3. k \in 1..MaxCodes
  BY ReadType
<1>4. \A j \in Outstanding(type) : j <= k
  BY <1>2, <1>3
<1> DEFINE i == CHOOSE i \in Outstanding(type) : \A j \in Outstanding(type) : j <= i
<1>5. i \in Outstanding(type)
  BY <1>4
<1> HIDE DEF i
<1>6. QED
  BY <1>3, <1>5, <1>2 DEF Outstanding, i

LEMMA SubmitSound ==
    ASSUME IndInv, NEW c \in Clients, NEW type \in Types, NEW right \in BOOLEAN,
           Submit(c, type, right), type = "PASSWORD_RESET" => RoomForVersion
    PROVE  IndInv'
<1> DEFINE i == CHOOSE i \in Outstanding(type) : \A j \in Outstanding(type) : j <= i
           spent == codes[i].expired \/ codes[i].attempts >= MaxAttempts
           op == IF spent THEN "consume" ELSE IF ~right THEN "record"
                 ELSE IF type = "EMAIL_VERIFICATION" THEN "verify" ELSE "reset"
           r == [Rest EXCEPT !.op = op, !.id = i]
<1>1. /\ req[c].op = "none" /\ Outstanding(type) # {} /\ Proceed(c, r)
      /\ UNCHANGED <<user, codes, cookie, challenge, history>>
  BY DEF Submit, Idle
<1>2. i \in DOMAIN codes /\ i \in 1..MaxCodes /\ codes[i].type = type
  BY <1>1, OutstandingOne
<1>3. /\ op \in {"consume", "record", "verify", "reset"}
      /\ op = "verify" => type = "EMAIL_VERIFICATION"
      /\ op = "reset" => type = "PASSWORD_RESET"
  BY DEF Types
<1> HIDE DEF i, op
<1>4. r \in Requests /\ r.op = op /\ r.id = i
  <2>1. i \in 0..MaxCodes /\ op \in Ops
    BY <1>2, <1>3, AccountAssumption DEF Ops
  <2>2. r.op = op /\ r.id = i
    BY DEF Rest
  <2>3. QED
    BY <2>1, <2>2, RestType DEF Rest, Requests
<1> HIDE DEF r
<1>5. req'[c] = r
  BY <1>1, <1>4, Proceeds
<1>6. Quiet(c)
  BY <1>1, <1>4, Proceeds DEF history, Quiet, IndInv, TypeOK
<1>7. RoomKept(c)
  BY <1>3, <1>4, <1>5 DEF RoomKept, Creating, Changing
<1>8. RequestSound(req[c])'
  BY <1>1, <1>2, <1>3, <1>4, <1>5 DEF RequestSound, IdSound
<1>9. QED
  BY <1>6, <1>7, <1>8, QuietSound

LEMMA SubmitsSound ==
    ASSUME IndInv, NEW c \in Clients, NEW right \in BOOLEAN,
           SubmitVerification(c, right) \/ SubmitReset(c, right)
    PROVE  IndInv'
<1>1. "EMAIL_VERIFICATION" \in Types /\ "PASSWORD_RESET" \in Types
  BY DEF Types
<1>2. CASE SubmitVerification(c, right)
  BY <1>1, <1>2, SubmitSound DEF SubmitVerification
<1>3. CASE SubmitReset(c, right)
  BY <1>1, <1>3, SubmitSound DEF SubmitReset
<1>4. QED
  BY <1>2, <1>3

-----------------------------------------------------------------------------
(* Sessions.                                                               *)

(* A step of one client after which codes are as they were.                *)
LEMMA TurnSound ==
    ASSUME IndInv, NEW c \in Clients, OthersWait(c), TypeOK', RoomLeft', Forward,
           UNCHANGED <<codes, resets, welcomed>>,
           CookieSound(cookie[c])', ChallengeSound(challenge[c])', RequestSound(req[c])',
           user'.emailVerified = user.emailVerified,
           user'.twoFactorEnabled => user'.twoFactorSecret \in confirmed'
    PROVE  IndInv'
<1>1. CodesSound'
  BY DEF IndInv, CodesSound, OneUsableCode, ClaimedCodes
<1>2. user'.emailVerified => Verified'
  BY VerifiedStable DEF IndInv, Sessions
<1>3. user'.sessionVersion \in Nat
  BY AccountAssumption DEF TypeOK, Users
<1>4. Sessions'
  BY <1>2, <1>3, SessionsStep
<1>5. QED
  BY <1>1, <1>4 DEF IndInv

LEMMA SameForward ==
    ASSUME IndInv, UNCHANGED <<user, codes, history>>
    PROVE  /\ Forward /\ user'.sessionVersion \in Nat
           /\ UNCHANGED <<codes, resets, confirmed, welcomed>>
           /\ user'.emailVerified = user.emailVerified
           /\ user'.twoFactorEnabled => user'.twoFactorSecret \in confirmed'
BY Versions DEF Forward, history, IndInv, TypeOK, Sessions

LEMMA LoginSound == ASSUME IndInv, NEW c \in Clients, Login(c) PROVE IndInv'
<1> DEFINE r == [Rest EXCEPT !.op = "login", !.version = user.sessionVersion,
                             !.resets = resets, !.second = user.twoFactorEnabled]
<1>1. /\ user.emailVerified /\ Proceed(c, r)
      /\ UNCHANGED <<user, codes, cookie, challenge, resets, confirmed, welcomed>>
  BY DEF Login, history
<1>2. /\ r \in Requests /\ r.op = "login" /\ r.version = user.sessionVersion
      /\ r.resets = resets /\ r.second = user.twoFactorEnabled
  <2>1. /\ user.sessionVersion \in 0..MaxVersion /\ resets \in 0..MaxVersion
        /\ user.twoFactorEnabled \in BOOLEAN
    BY DEF IndInv, TypeOK, Users
  <2>2. QED
    BY <2>1, RestType DEF Rest, Requests, Ops
<1> HIDE DEF r
<1>3. req'[c] = r
  BY <1>1, <1>2, Proceeds
<1>4. Quiet(c)
  BY <1>1, <1>2, Proceeds DEF Quiet, IndInv, TypeOK
<1>5. RoomKept(c)
  BY <1>2, <1>3 DEF RoomKept, Creating, Changing
<1>6. Verified'
  BY <1>1, <1>4, QuietForward, VerifiedStable DEF IndInv, Sessions
<1>7. RequestSound(req[c])'
  <2>1. Current(req[c].version, req[c].resets)'
    BY <1>1, <1>2, <1>3, Versions DEF Current
  <2>2. QED
    BY <1>1, <1>2, <1>3, <1>6, <2>1 DEF RequestSound, IdSound
<1>8. QED
  BY <1>4, <1>5, <1>7, QuietSound

LEMMA AnswerLoginSound == ASSUME IndInv, NEW c \in Clients, AnswerLogin(c) PROVE IndInv'
<1> DEFINE token == Token("password", req[c].version, req[c].resets)
<1>1. /\ req[c].op = "login" /\ Done(c) /\ UNCHANGED <<user, codes, history>>
      /\ IF req[c].second
         THEN challenge' = [challenge EXCEPT ![c] = token] /\ UNCHANGED cookie
         ELSE cookie' = [cookie EXCEPT ![c] = token] /\ UNCHANGED challenge
  BY DEF AnswerLogin, Doing, SignedVersion
<1>2. /\ Verified /\ Current(token.version, token.resets) /\ token.by = "password"
      /\ token.version = user.sessionVersion /\ ~req[c].second => ~user.twoFactorEnabled
  BY <1>1 DEF IndInv, Sessions, RequestSound, Token
<1>3. token \in Tokens
  BY DEF IndInv, TypeOK, Requests, Token, Tokens, Ways
<1> HIDE DEF token
<1>4. /\ Forward /\ user'.sessionVersion \in Nat
      /\ UNCHANGED <<codes, resets, confirmed, welcomed>>
      /\ user'.emailVerified = user.emailVerified
      /\ user'.twoFactorEnabled => user'.twoFactorSecret \in confirmed'
  BY <1>1, SameForward
<1>5. /\ cookie' \in [Clients -> Tokens] /\ challenge' \in [Clients -> Tokens]
      /\ OthersWait(c) /\ RequestSound(req[c])' /\ req' \in [Clients -> Requests]
  BY <1>1, <1>3, DoneSound DEF IndInv, TypeOK, OthersWait
<1>6. TypeOK'
  BY <1>1, <1>4, <1>5 DEF IndInv, TypeOK
<1>7. RoomLeft'
  <2>1. /\ Under(Creating)' \in Nat /\ Under(Creating)' <= Under(Creating)
        /\ Under(Changing)' \in Nat /\ Under(Changing)' <= Under(Changing)
    BY <1>1, DoneSound, UnderMoves DEF IndInv, TypeOK, Creating, Changing
  <2>2. Len(codes) \in Nat
    BY DEF IndInv, TypeOK
  <2>3. QED
    BY <1>1, <1>4, <2>1, <2>2, UnderType, Versions, AccountAssumption DEF IndInv, RoomLeft
<1>8. Verified'
  BY <1>2, <1>4, VerifiedStable
<1>9. CookieSound(cookie[c])'
  <2>1. CASE req[c].second
    BY <1>1, <1>4, <2>1, CookieStable
  <2>2. CASE ~req[c].second
    <3>1. cookie'[c] = token
      BY <1>1, <2>2 DEF IndInv, TypeOK
    <3>2. QED
      BY <1>1, <1>2, <1>4, <1>8, <2>2, <3>1 DEF CookieSound, Current
  <2>3. QED
    BY <2>1, <2>2
<1>10. ChallengeSound(challenge[c])'
  <2>1. CASE ~req[c].second
    BY <1>1, <1>4, <2>1, ChallengeStable
  <2>2. CASE req[c].second
    <3>1. challenge'[c] = token
      BY <1>1, <2>2 DEF IndInv, TypeOK
    <3>2. QED
      BY <1>1, <1>2, <1>4, <1>8, <3>1 DEF ChallengeSound, Current
  <2>3. QED
    BY <2>1, <2>2
<1>11. QED
  BY <1>4, <1>5, <1>6, <1>7, <1>9, <1>10, TurnSound

(* A client puts another cookie in its jar, and nothing else happens.      *)
LEMMA CookieSet ==
    ASSUME IndInv, NEW c \in Clients, NEW token \in Tokens, CookieSound(token),
           cookie' = [cookie EXCEPT ![c] = token],
           UNCHANGED <<user, codes, challenge, req, history>>
    PROVE  IndInv'
<1>1. /\ Forward /\ user'.sessionVersion \in Nat
      /\ UNCHANGED <<codes, resets, confirmed, welcomed>>
      /\ user'.emailVerified = user.emailVerified
      /\ user'.twoFactorEnabled => user'.twoFactorSecret \in confirmed'
  BY SameForward
<1>2. /\ cookie' \in [Clients -> Tokens] /\ cookie'[c] = token /\ OthersWait(c)
  BY DEF IndInv, TypeOK, OthersWait
<1>3. TypeOK'
  BY <1>1, <1>2 DEF IndInv, TypeOK
<1>4. RoomLeft'
  BY <1>1 DEF IndInv, RoomLeft, Under
<1>5. CookieSound(cookie[c])'
  BY <1>1, <1>2, VerifiedStable DEF CookieSound
<1>6. ChallengeSound(challenge[c])' /\ RequestSound(req[c])'
  BY <1>1, ChallengeStable, RequestStable
<1>7. QED
  BY <1>1, <1>2, <1>3, <1>4, <1>5, <1>6, TurnSound

LEMMA LoginSecondSound == ASSUME IndInv, NEW c \in Clients, LoginSecond(c) PROVE IndInv'
<1> DEFINE token == Token("second factor", user.sessionVersion, challenge[c].resets)
<1>1. /\ Signed(challenge[c]) /\ challenge[c].version = user.sessionVersion
      /\ cookie' = [cookie EXCEPT ![c] = token]
      /\ UNCHANGED <<user, codes, challenge, req, history>>
  BY DEF LoginSecond
<1>2. Verified /\ challenge[c].resets = resets
  BY <1>1 DEF IndInv, Sessions, ChallengeSound, Current
<1>3. token \in Tokens
  BY DEF IndInv, TypeOK, Users, Token, Tokens, Ways
<1>4. CookieSound(token)
  <2>1. /\ token.by = "second factor" /\ token.version = user.sessionVersion
        /\ token.resets = resets
    BY <1>2 DEF Token
  <2> HIDE DEF token
  <2>2. token.by # "enabling" /\ token.by # "password"
    BY <2>1
  <2>3. token.version <= user.sessionVersion
    <3>1. user.sessionVersion \in Nat
      BY Versions
    <3>2. user.sessionVersion <= user.sessionVersion
      BY <3>1
    <3>3. QED
      BY <2>1, <3>2, Zenon
  <2>4. QED
    BY <1>2, <2>1, <2>2, <2>3 DEF CookieSound
<1>5. QED
  BY <1>1, <1>3, <1>4, CookieSet

LEMMA LogoutSound == ASSUME IndInv, NEW c \in Clients, Logout(c) PROVE IndInv'
<1>1. NoToken \in Tokens
  BY AccountAssumption DEF NoToken, Token, Tokens, Ways
<1>2. CookieSound(NoToken)
  BY DEF CookieSound, Signed
<1>3. QED
  BY <1>1, <1>2, CookieSet DEF Logout

-----------------------------------------------------------------------------
(* Two-factor authentication.                                              *)

LEMMA GenerateSound == ASSUME IndInv, NEW c \in Clients, Generate(c) PROVE IndInv'
<1> DEFINE r == [Rest EXCEPT !.op = "generate"]
<1>1. /\ Signed(cookie[c]) /\ Proceed(c, r)
      /\ UNCHANGED <<user, codes, cookie, challenge, resets, confirmed, welcomed>>
  BY DEF Generate, SessionRequest, Accepted, history
<1>2. r \in Requests /\ r.op = "generate"
  BY RestType DEF Rest, Requests, Ops
<1> HIDE DEF r
<1>3. req'[c] = r
  BY <1>1, <1>2, Proceeds
<1>4. Quiet(c)
  BY <1>1, <1>2, Proceeds DEF Quiet, IndInv, TypeOK
<1>5. RoomKept(c)
  BY <1>2, <1>3 DEF RoomKept, Creating, Changing
<1>6. Verified'
  BY <1>1, <1>4, QuietForward, VerifiedStable DEF IndInv, Sessions, CookieSound
<1>7. RequestSound(req[c])'
  BY <1>2, <1>3, <1>6 DEF RequestSound, IdSound
<1>8. QED
  BY <1>4, <1>5, <1>7, QuietSound

LEMMA StorePendingSound == ASSUME IndInv, NEW c \in Clients, StorePending(c) PROVE IndInv'
<1>1. PICK s \in Secrets : user' = [user EXCEPT !.pendingSecret = s]
  BY DEF StorePending
<1>2. Done(c) /\ UNCHANGED <<codes, cookie, challenge, resets, confirmed, welcomed>>
  BY DEF StorePending, history
<1>3. /\ user' \in Users /\ user'.emailVerified = user.emailVerified
      /\ user'.sessionVersion = user.sessionVersion
      /\ user'.twoFactorEnabled = user.twoFactorEnabled
      /\ user'.twoFactorSecret = user.twoFactorSecret
  BY <1>1 DEF IndInv, TypeOK, Users
<1>4. Quiet(c)
  BY <1>2, <1>3, DoneSound DEF Quiet, IndInv, TypeOK
<1>5. QED
  BY <1>2, <1>4, DoneSound, QuietSound

LEMMA ConfirmSound == ASSUME IndInv, NEW c \in Clients, Confirm(c) PROVE IndInv'
<1> DEFINE s == user.pendingSecret
           r == [Rest EXCEPT !.op = "enable", !.secret = s, !.resets = resets]
<1>1. /\ Signed(cookie[c]) /\ Proceed(c, r) /\ RoomForVersion
      /\ confirmed' = confirmed \cup {s} /\ s # 0
      /\ UNCHANGED <<user, codes, cookie, challenge, resets, welcomed>>
  BY DEF Confirm, SessionRequest, Accepted
<1>2. s \in Secrets /\ resets \in 0..MaxVersion
  BY <1>1 DEF IndInv, TypeOK, Users
<1>3. r \in Requests /\ r.op = "enable" /\ r.secret = s
  BY <1>2, RestType DEF Rest, Requests, Ops
<1> HIDE DEF r, s
<1>4. req'[c] = r
  BY <1>1, <1>3, Proceeds
<1>5. Quiet(c)
  BY <1>1, <1>2, <1>3, Proceeds DEF Quiet, IndInv, TypeOK
<1>6. RoomKept(c)
  BY <1>1, <1>3, <1>4 DEF RoomKept, Creating
<1>7. Verified'
  BY <1>1, <1>5, QuietForward, VerifiedStable DEF IndInv, Sessions, CookieSound
<1>8. req'[c].secret \in confirmed'
  BY <1>1, <1>3, <1>4
<1>9. RequestSound(req[c])'
  BY <1>3, <1>4, <1>7, <1>8 DEF RequestSound, IdSound
<1>10. QED
  BY <1>5, <1>6, <1>9, QuietSound

(* Whatever happened since the right code: the version moves on, so every  *)
(* session but the one handed out here ends.                               *)
LEMMA EnableSound == ASSUME IndInv, NEW c \in Clients, Enable(c) PROVE IndInv'
<1> DEFINE v == user.sessionVersion + 1
           token == Token("enabling", v, req[c].resets)
<1>1. /\ req[c].op = "enable" /\ user' = Enabled(c) /\ Done(c)
      /\ cookie' = [cookie EXCEPT ![c] = Token("enabling", user'.sessionVersion,
                                               req[c].resets)]
      /\ UNCHANGED <<codes, challenge, resets, confirmed, welcomed>>
  BY DEF Enable, Doing, history
<1>2. /\ Under(Creating)' \in Nat /\ Under(Creating)' <= Under(Creating)
      /\ Under(Changing)' \in Nat /\ Under(Changing)' + 1 = Under(Changing)
      /\ Under(Creating) \in Nat /\ Under(Changing) \in Nat
  BY <1>1, DoneSound, UnderMoves, UnderType DEF IndInv, TypeOK, Creating, Changing
<1>3. v \in 0..MaxVersion
  BY <1>2, Versions, AccountAssumption DEF IndInv, RoomLeft
<1>4. Verified /\ req[c].secret \in confirmed
  BY <1>1 DEF IndInv, Sessions, RequestSound
<1>5. /\ user' \in Users /\ user'.emailVerified = user.emailVerified
      /\ user'.sessionVersion = v /\ user'.twoFactorSecret = req[c].secret
  <2>1. user \in Users /\ req[c].secret \in Secrets \cup {0}
    BY DEF IndInv, TypeOK, Requests
  <2>2. user' = [user EXCEPT !.twoFactorEnabled = TRUE, !.twoFactorSecret = req[c].secret,
                             !.pendingSecret = 0, !.sessionVersion = v]
    BY <1>1, <2>1 DEF Enabled, Users
  <2> HIDE DEF v
  <2>3. QED
    BY <1>3, <2>1, <2>2 DEF Users
<1>6. /\ cookie' \in [Clients -> Tokens] /\ cookie'[c] = token
      /\ OthersWait(c) /\ RequestSound(req[c])' /\ req' \in [Clients -> Requests]
  <2>1. token \in Tokens
    <3> HIDE DEF v
    <3>1. QED
      BY <1>3 DEF IndInv, TypeOK, Requests, Token, Tokens, Ways
  <2>2. cookie' = [cookie EXCEPT ![c] = token]
    BY <1>1, <1>5
  <2> HIDE DEF token
  <2>3. QED
    BY <1>1, <2>1, <2>2, DoneSound DEF IndInv, TypeOK, OthersWait
<1>7. TypeOK'
  BY <1>1, <1>5, <1>6 DEF IndInv, TypeOK
<1>8. Len(codes) \in Nat
  BY DEF IndInv, TypeOK
<1>9. RoomLeft'
  BY <1>1, <1>2, <1>5, <1>8, Versions, AccountAssumption DEF IndInv, RoomLeft
<1>10. Forward
  BY <1>1, <1>5, <1>8, Versions DEF Forward
<1>11. CookieSound(cookie[c])'
  <2>1. /\ cookie'[c].by = "enabling" /\ cookie'[c].version = v
    BY <1>6 DEF Token
  <2>2. Verified' /\ v <= v /\ user'.sessionVersion = v
    BY <1>4, <1>5, <1>10, VerifiedStable, Versions
  <2> HIDE DEF v
  <2>3. cookie'[c].version <= user'.sessionVersion
    BY <2>1, <2>2, Zenon
  <2>4. QED
    BY <2>1, <2>2, <2>3 DEF CookieSound
<1>12. ChallengeSound(challenge[c])'
  BY <1>1, <1>3, <1>5, <1>10, ChallengeStable
<1>13. user'.twoFactorSecret \in confirmed'
  BY <1>1, <1>4, <1>5
<1>14. QED
  BY <1>1, <1>5, <1>6, <1>7, <1>9, <1>10, <1>11, <1>12, <1>13, TurnSound

-----------------------------------------------------------------------------
(* The invariant.                                                          *)

LEMMA InitSound == ASSUME Init PROVE IndInv
<1>1. /\ codes = <<>> /\ Len(codes) = 0 /\ DOMAIN codes = {} /\ resets = 0
      /\ user.sessionVersion = 0 /\ ~user.emailVerified /\ ~user.twoFactorEnabled
      /\ \A c \in Clients : cookie[c] = NoToken /\ challenge[c] = NoToken /\ req[c] = Rest
      /\ ~welcomed
  BY DEF Init
<1>2. TypeOK
  <2>1. user \in Users
    BY AccountAssumption DEF Init, Users
  <2>2. NoToken \in Tokens
    BY AccountAssumption DEF NoToken, Token, Tokens, Ways
  <2>3. codes \in Seq(Code)
    BY <1>1
  <2>4. /\ cookie \in [Clients -> Tokens] /\ challenge \in [Clients -> Tokens]
        /\ req \in [Clients -> Requests]
    BY <2>2, RestType DEF Init
  <2>5. Len(codes) <= MaxCodes /\ resets \in 0..MaxVersion
    BY <1>1, AccountAssumption
  <2>6. confirmed \subseteq Secrets /\ welcomed \in BOOLEAN
    BY DEF Init
  <2>7. QED
    BY <2>1, <2>3, <2>4, <2>5, <2>6 DEF TypeOK
<1>3. RoomLeft
  <2>1. \A ops : "none" \notin ops => Under(ops) = 0
    <3> SUFFICES ASSUME NEW ops, "none" \notin ops PROVE Under(ops) = 0
      OBVIOUS
    <3>1. {c \in Clients : req[c].op \in ops} = {}
      BY <1>1, RestType
    <3>2. QED
      BY <3>1, FS_EmptySet DEF Under
  <2>2. Under(Creating) = 0 /\ Under(Changing) = 0
    BY <2>1 DEF Creating, Changing
  <2>3. QED
    BY <1>1, <2>2, AccountAssumption DEF RoomLeft
<1>4. CodesSound
  <2>1. ClaimedCodes("PASSWORD_RESET") = {}
    BY <1>1 DEF ClaimedCodes
  <2>2. Cardinality(ClaimedCodes("PASSWORD_RESET")) = resets
    BY <1>1, <2>1, FS_EmptySet
  <2>3. QED
    BY <1>1, <2>2 DEF CodesSound, OneUsableCode
<1>5. Sessions
  BY <1>1, RestType
     DEF Sessions, CookieSound, ChallengeSound, Signed, RequestSound, IdSound
<1>6. QED
  BY <1>2, <1>3, <1>4, <1>5 DEF IndInv

LEMMA StutterSound == ASSUME IndInv, UNCHANGED vars PROVE IndInv'
<1>1. UNCHANGED <<user, codes, cookie, challenge, req, resets, confirmed, welcomed>>
  BY DEF vars
<1>2. TypeOK' /\ RoomLeft' /\ CodesSound'
  BY <1>1 DEF IndInv, TypeOK, RoomLeft, Under, CodesSound, OneUsableCode, ClaimedCodes
<1>3. Sessions'
  BY <1>1 DEF IndInv, Sessions, CookieSound, ChallengeSound, RequestSound, IdSound, Current,
              Verified, ClaimedCodes, Signed
<1>4. QED
  BY <1>2, <1>3 DEF IndInv

LEMMA ResendSound == ASSUME IndInv, NEW c \in Clients, ResendVerification(c) PROVE IndInv'
BY AskForCodeSound DEF ResendVerification, Types

LEMMA ForgotSound == ASSUME IndInv, NEW c \in Clients, ForgotPassword(c) PROVE IndInv'
BY AskForCodeSound DEF ForgotPassword, Types

LEMMA StepSound == ASSUME IndInv, [Next]_vars PROVE IndInv'
<1>1. ASSUME NEW i \in DOMAIN codes, Expire(i) PROVE IndInv'
  BY <1>1, ExpireSound
<1>2. ASSUME NEW c \in Clients, Start(c) PROVE IndInv'
  <2>1. CASE \E right \in BOOLEAN : SubmitVerification(c, right) \/ SubmitReset(c, right)
    BY <2>1, SubmitsSound
  <2>2. CASE ResendVerification(c) \/ ForgotPassword(c)
    BY <2>2, ResendSound, ForgotSound
  <2>3. QED
    BY <1>2, <2>1, <2>2, SignupSound, LoginSound, LoginSecondSound, LogoutSound,
       GenerateSound, ConfirmSound DEF Start
<1>3. ASSUME NEW c \in Clients, Handle(c) PROVE IndInv'
  BY <1>3, CreateUserSound, IssueBeginSound, IssueCommitSound, IssueConflictSound,
     ConsumeSound, RecordSound, VerifyEmailSound, ResetPasswordSound, AnswerLoginSound,
     StorePendingSound, EnableSound DEF Handle
<1>4. ASSUME NEW c \in Clients, Fail(c) PROVE IndInv'
  BY <1>4, FailSound
<1>5. QED
  BY <1>1, <1>2, <1>3, <1>4, StutterSound DEF Next

LEMMA AccountInvariant == Spec => []IndInv
BY InitSound, StepSound, PTL DEF Spec

-----------------------------------------------------------------------------
(* What no step undoes.                                                    *)

Kept ==
    /\ \A i \in DOMAIN codes : codes[i].consumed => codes'[i].consumed
    /\ user'.sessionVersion \in Nat /\ user'.sessionVersion >= user.sessionVersion
    /\ user.twoFactorEnabled => user'.twoFactorEnabled

LEMMA ClaimedKept ==
    ASSUME codes \in Seq(Code), NEW i \in DOMAIN codes
    PROVE  \A j \in DOMAIN codes : codes[j].consumed => Claimed(i)[j].consumed
BY DEF Claimed, Code

LEMMA KeptByHandlers ==
    ASSUME IndInv, NEW c \in Clients, Handle(c)
    PROVE  Kept
<1>1. /\ user \in Users /\ codes \in Seq(Code) /\ user.sessionVersion \in Nat
      /\ req[c].op \in {"consume", "record", "verify", "reset"} => req[c].id \in DOMAIN codes
  BY DEF IndInv, TypeOK, Users, Sessions, RequestSound, IdSound
<1>2. ASSUME codes' = codes, UNCHANGED user PROVE Kept
  BY <1>1, <1>2 DEF Kept
<1>3. CASE CreateUser(c)
  BY <1>1, <1>3 DEF CreateUser, Kept, Users
<1>4. CASE IssueBegin(c) \/ IssueConflict(c) \/ AnswerLogin(c)
  BY <1>2, <1>4 DEF IssueBegin, IssueConflict, AnswerLogin
<1>5. CASE IssueCommit(c)
  <2>1. req[c].op = "issuing" /\ codes' = Issued(req[c]) /\ UNCHANGED user
    BY <1>5 DEF IssueCommit, Doing
  <2>2. Len(codes) < MaxCodes
    <3>1. Done(c)
      BY <1>5 DEF IssueCommit
    <3>2. /\ req'[c].op = "none" /\ req' \in [Clients -> Requests]
          /\ \A d \in Clients \ {c} : req'[d] = req[d]
      BY <3>1, DoneSound
    <3>3. Under(Creating)' \in Nat /\ Under(Creating)' + 1 = Under(Creating)
      BY <2>1, <3>2, UnderMoves DEF IndInv, TypeOK, Creating
    <3>4. Under(Creating) \in Nat /\ Len(codes) \in Nat
      BY UnderType DEF IndInv, TypeOK
    <3>5. QED
      BY <3>3, <3>4, AccountAssumption DEF IndInv, RoomLeft
  <2>3. \A i \in DOMAIN codes : /\ i \in req[c].found => codes'[i].consumed
                                /\ i \notin req[c].found => codes'[i] = codes[i]
    BY <2>1, <2>2, IssuedShape
  <2>4. QED
    BY <1>1, <2>1, <2>3 DEF Kept
<1>6. CASE ConsumeAuthCode(c)
  BY <1>1, <1>6 DEF ConsumeAuthCode, Doing, Kept, Code
<1>7. CASE RecordFailedAttempt(c)
  BY <1>1, <1>7 DEF RecordFailedAttempt, Doing, Kept, Code
<1>8. CASE VerifyEmail(c)
  <2>1. req[c].id \in DOMAIN codes
    BY <1>1, <1>8 DEF VerifyEmail, Doing
  <2>2. QED
    BY <1>1, <1>8, <2>1, ClaimedKept DEF VerifyEmail, Kept, Users
<1>9. CASE ResetPassword(c)
  <2>1. req[c].id \in DOMAIN codes
    BY <1>1, <1>9 DEF ResetPassword, Doing
  <2>2. QED
    BY <1>1, <1>9, <2>1, ClaimedKept DEF ResetPassword, Kept, Users
<1>10. CASE StorePending(c)
  BY <1>1, <1>10 DEF StorePending, Kept, Users
<1>11. CASE Enable(c)
  BY <1>1, <1>11 DEF Enable, Enabled, Kept, Users
<1>12. QED
  BY <1>3, <1>4, <1>5, <1>6, <1>7, <1>8, <1>9, <1>10, <1>11 DEF Handle

LEMMA KeptByStep == ASSUME IndInv, [Next]_vars PROVE Kept
<1>1. user \in Users /\ codes \in Seq(Code) /\ user.sessionVersion \in Nat
  BY DEF IndInv, TypeOK, Users
<1>2. ASSUME codes' = codes, UNCHANGED user PROVE Kept
  BY <1>1, <1>2 DEF Kept
<1>3. ASSUME NEW i \in DOMAIN codes, Expire(i) PROVE Kept
  BY <1>1, <1>3 DEF Expire, Kept, Code
<1>4. ASSUME NEW c \in Clients, Start(c) PROVE Kept
  BY <1>2, <1>4 DEF Start, Signup, Login, LoginSecond, Logout, Generate, Confirm,
     SessionRequest, ResendVerification, ForgotPassword, AskForCode, SubmitVerification,
     SubmitReset, Submit
<1>5. ASSUME NEW c \in Clients, Fail(c) PROVE Kept
  BY <1>2, <1>5 DEF Fail
<1>6. CASE UNCHANGED vars
  BY <1>2, <1>6 DEF vars
<1>7. QED
  BY <1>3, <1>4, <1>5, <1>6, KeptByHandlers DEF Next

-----------------------------------------------------------------------------
(* Every row, cookie, challenge and copy a handler keeps has a value of    *)
(* its type: in particular no guess is counted beyond MAX_RESET_ATTEMPTS,  *)
(* no issue is tried a fourth time and no version outgrows its bound.      *)
THEOREM AccountTypeCorrect == Spec => []TypeOK
<1>1. IndInv => TypeOK
  BY DEF IndInv
<1>2. QED
  BY <1>1, AccountInvariant, PTL

(* createAuthCode, run by any number of requests at once and retried on    *)
(* conflict: at most one code of a type is usable, and its email is not    *)
(* discarded.                                                              *)
THEOREM OneCodeAtATime == Spec => []OneUsableCode
<1>1. IndInv => OneUsableCode
  BY DEF IndInv, CodesSound
<1>2. QED
  BY <1>1, AccountInvariant, PTL

(* The claim of verify-email and reset-password, the only ways to a        *)
(* verified email and a new password: each takes a code nobody took before.*)
THEOREM CodesGuard == Spec => []CodesGuardAccount
<1>1. IndInv => CodesGuardAccount
  BY DEF IndInv, CodesSound, Sessions, CookieSound, Verified, CodesGuardAccount
<1>2. QED
  BY <1>1, AccountInvariant, PTL

(* Every session that is accepted and does not stem from 2fa/enable was    *)
(* earned after the last password reset, whatever was awaited when.        *)
THEOREM ResetsEndLogins == Spec => []ResetEndsLogins
<1>1. IndInv => ResetEndsLogins
  BY DEF IndInv, Sessions, CookieSound, Accepted, ResetEndsLogins
<1>2. QED
  BY <1>1, AccountInvariant, PTL

(* With two-factor authentication on, a password alone opens no session,   *)
(* and the secret is one that was confirmed.                               *)
THEOREM SecondFactorSound == Spec => []TwoFactorSound
<1>1. IndInv => TwoFactorSound
  BY DEF IndInv, Sessions, CookieSound, Accepted, TwoFactorSound
<1>2. QED
  BY <1>1, AccountInvariant, PTL

(* consumedAt, sessionVersion and twoFactorEnabled are written by handlers *)
(* that read them long before: none of them undoes what another has done.  *)
THEOREM EndingsLast == Spec => EndedForGood
<1>1. ASSUME IndInv, [Next]_vars
      PROVE  /\ \A i \in DOMAIN codes : codes[i].consumed => codes'[i].consumed
             /\ \A c \in Clients :
                    ~Accepted(cookie[c]) => cookie'[c] # cookie[c] \/ ~Accepted(cookie[c])'
             /\ \A c \in Clients :
                    challenge[c].version # user.sessionVersion /\ challenge'[c] = challenge[c] =>
                        challenge[c].version # user'.sessionVersion
             /\ user.twoFactorEnabled => user'.twoFactorEnabled
  <2>1. Kept
    BY <1>1, KeptByStep
  <2>2. /\ user.sessionVersion \in Nat
        /\ \A c \in Clients : cookie[c].version \in Nat /\ challenge[c].version \in Nat
    BY <1>1, Versions
  <2>3. \A c \in Clients : /\ Signed(cookie[c]) => cookie[c].version <= user.sessionVersion
                           /\ challenge[c].version <= user.sessionVersion
    <3>1. \A c \in Clients : CookieSound(cookie[c]) /\ ChallengeSound(challenge[c])
      BY <1>1 DEF IndInv, Sessions
    <3>2. NoToken.version = 0
      BY DEF NoToken, Token
    <3>3. QED
      BY <2>2, <3>1, <3>2 DEF CookieSound, ChallengeSound, Current, Signed
  <2>4. ASSUME NEW c \in Clients, ~Accepted(cookie[c]), cookie'[c] = cookie[c]
        PROVE  ~Accepted(cookie[c])'
    BY <2>1, <2>2, <2>3, <2>4 DEF Accepted, Signed, Kept
  <2>5. ASSUME NEW c \in Clients, challenge[c].version # user.sessionVersion
        PROVE  challenge[c].version # user'.sessionVersion
    BY <2>1, <2>2, <2>3, <2>5 DEF Kept
  <2>6. QED
    BY <2>1, <2>4, <2>5 DEF Kept
<1>2. QED
  BY <1>1, AccountInvariant, PTL DEF Spec, EndedForGood


-----------------------------------------------------------------------------
(* Accounts implements AccountContract.  What the abstract variables stand *)
(* for, and what is to be shown for a step of each abstract action.        *)

Usable     == {type \in Types : \E i \in Outstanding(type) : Claimable(codes[i])}
Session    == [c \in Clients |-> IF Accepted(cookie[c]) THEN cookie[c].by ELSE "nobody"]
Logins     == [c \in Clients |-> Proven(req[c])]
Challenged == {c \in Clients : Accepted(challenge[c])}
Enabling   == {c \in Clients : Doing(c, "enable")}

SameCodes    == Verified' = Verified /\ Usable' = Usable
SameSessions == Session' = Session /\ Challenged' = Challenged
SameWays     == SameSessions /\ Logins' = Logins /\ Enabling' = Enabling
                /\ user'.twoFactorEnabled = user.twoFactorEnabled

LEMMA Stutters == ASSUME SameCodes, SameWays PROVE UNCHANGED Contract!vars
BY DEF SameCodes, SameSessions, SameWays, Usable, Session, Logins, Challenged, Enabling, Verified, Contract!vars

LEMMA Issues ==
    ASSUME NEW type \in Types, Usable' = Usable \cup {type} \/ Usable' = Usable \ {type},
           Verified' = Verified, SameWays
    PROVE  Contract!Next
<1>1. Contract!Issue(type) \/ Contract!Spoil(type)
  BY DEF SameSessions, SameWays, Usable, Session, Logins, Challenged, Enabling, Verified, Contract!Issue, Contract!Spoil
<1>2. QED
  BY <1>1 DEF Types, Contract!Next

LEMMA Verifies ==
    ASSUME NEW c \in Clients, "EMAIL_VERIFICATION" \in Usable,
           Usable' = Usable \ {"EMAIL_VERIFICATION"}, Verified' = TRUE,
           Session' = [Session EXCEPT ![c] = "code"],
           Challenged' = Challenged, Logins' = Logins, Enabling' = Enabling,
           user'.twoFactorEnabled = user.twoFactorEnabled
    PROVE  Contract!Next
<1>1. Contract!VerifyEmail(c)
  BY DEF Usable, Session, Logins, Challenged, Enabling, Verified, Contract!VerifyEmail, Contract!Claim, Contract!Admit
<1>2. QED
  BY <1>1 DEF Contract!Next

LEMMA Resets ==
    ASSUME "PASSWORD_RESET" \in Usable, Usable' = Usable \ {"PASSWORD_RESET"},
           Verified' = Verified, Session' = [c \in Clients |-> "nobody"],
           Challenged' = {}, Logins' = [c \in Clients |-> "nothing"], Enabling' = Enabling,
           user'.twoFactorEnabled = user.twoFactorEnabled
    PROVE  Contract!Next
<1>1. Contract!ResetPassword
  BY DEF Usable, Session, Logins, Challenged, Enabling, Verified, Contract!ResetPassword, Contract!Claim, Contract!Out, Contract!Unproven
<1>2. QED
  BY <1>1 DEF Contract!Next

LEMMA LogsIn ==
    ASSUME NEW c \in Clients, Verified, SameCodes, SameSessions, Enabling' = Enabling,
           Logins' = [Logins EXCEPT ![c] = IF user.twoFactorEnabled THEN "challenge" ELSE "password"],
           user'.twoFactorEnabled = user.twoFactorEnabled
    PROVE  Contract!Next
<1>1. Contract!Login(c)
  BY DEF SameCodes, SameSessions, Usable, Session, Logins, Challenged, Enabling, Verified, Contract!Login
<1>2. QED
  BY <1>1 DEF Contract!Next

LEMMA AnswersLogin ==
    ASSUME NEW c \in Clients, SameCodes, Enabling' = Enabling,
           user'.twoFactorEnabled = user.twoFactorEnabled,
           Logins' = [Logins EXCEPT ![c] = "nothing"],
           \/ /\ Logins[c] = "password" /\ Session' = [Session EXCEPT ![c] = "password"]
              /\ Challenged' = Challenged
           \/ /\ Logins[c] = "challenge" /\ Challenged' = Challenged \cup {c}
              /\ Session' = Session
    PROVE  Contract!Next
<1>1. Contract!AnswerLogin(c)
  BY DEF SameCodes, Usable, Session, Logins, Challenged, Enabling, Verified, Contract!AnswerLogin, Contract!Admit
<1>2. QED
  BY <1>1 DEF Contract!Next

LEMMA AnswersSecond ==
    ASSUME NEW c \in Clients, c \in Challenged, user.twoFactorEnabled, SameCodes,
           Session' = [Session EXCEPT ![c] = "second factor"],
           Challenged' = Challenged, Logins' = Logins, Enabling' = Enabling,
           user'.twoFactorEnabled = user.twoFactorEnabled
    PROVE  Contract!Next
<1>1. Contract!LoginSecond(c)
  BY DEF SameCodes, Usable, Session, Logins, Challenged, Enabling, Verified, Contract!LoginSecond, Contract!Admit
<1>2. QED
  BY <1>1 DEF Contract!Next

LEMMA Confirms ==
    ASSUME NEW c \in Clients, Session[c] # "nobody", SameCodes, SameSessions,
           Enabling' = Enabling \cup {c}, Logins' = Logins,
           user'.twoFactorEnabled = user.twoFactorEnabled
    PROVE  Contract!Next
<1>1. Contract!Confirm(c)
  BY DEF SameCodes, SameSessions, Usable, Session, Logins, Challenged, Enabling, Verified, Contract!Confirm
<1>2. QED
  BY <1>1 DEF Contract!Next

LEMMA Enables ==
    ASSUME NEW c \in Clients, c \in Enabling, Enabling' = Enabling \ {c}, SameCodes,
           user'.twoFactorEnabled = TRUE,
           Session' = [[d \in Clients |-> "nobody"] EXCEPT ![c] = "enabling"],
           Challenged' = {}, Logins' = [d \in Clients |-> "nothing"]
    PROVE  Contract!Next
<1>1. Contract!Enable(c)
  BY DEF SameCodes, Usable, Session, Logins, Challenged, Enabling, Verified, Contract!Enable, Contract!Out, Contract!Unproven
<1>2. QED
  BY <1>1 DEF Contract!Next

LEMMA Leaves ==
    ASSUME NEW c \in Clients, SameCodes, Enabling' = Enabling \ {c},
           Session' = Session \/ Session' = [Session EXCEPT ![c] = "nobody"],
           Challenged' = Challenged \/ Challenged' = Challenged \ {c},
           Logins' = [Logins EXCEPT ![c] = "nothing"],
           user'.twoFactorEnabled = user.twoFactorEnabled
    PROVE  Contract!Next
<1>1. Contract!Leave(c)
  BY DEF SameCodes, Usable, Session, Logins, Challenged, Enabling, Verified, Contract!Leave
<1>2. QED
  BY <1>1 DEF Contract!Next

-----------------------------------------------------------------------------
(* The codes, as the types a code may be claimed of.                       *)

LEMMA UsableType ==
    ASSUME NEW type \in Types
    PROVE  /\ type \in Usable <=>
                 \E i \in DOMAIN codes : codes[i].type = type /\ Claimable(codes[i])
           /\ type \in Usable' <=>
                 \E i \in DOMAIN codes' : codes'[i].type = type /\ Claimable(codes'[i])
           /\ Usable \subseteq Types /\ Usable' \subseteq Types
BY DEF Usable, Outstanding, Claimable

(* There is at most one: when it can no longer be claimed, none can.       *)
LEMMA MarkedUsable ==
    ASSUME IndInv, NEW i, NEW code, Marked(i, code), Claimable(code) => Claimable(codes[i])
    PROVE  /\ codes[i].type \in Types
           /\ Usable' = IF Claimable(codes[i]) /\ ~Claimable(code)
                        THEN Usable \ {codes[i].type} ELSE Usable
           /\ Claimable(codes[i]) => codes[i].type \in Usable
<1>1. /\ i \in DOMAIN codes /\ DOMAIN codes' = DOMAIN codes /\ codes'[i] = code
      /\ \A j \in DOMAIN codes : codes'[j].type = codes[j].type
      /\ \A j \in DOMAIN codes : j # i => codes'[j] = codes[j]
  BY MarkedShape DEF Marked
<1>2. codes[i].type \in Types
  <2>1. codes[i] \in Code
    BY <1>1 DEF IndInv, TypeOK
  <2>2. QED
    BY <2>1 DEF Code
<1>3. Claimable(codes[i]) => codes[i].type \in Usable
  BY <1>1, <1>2, UsableType
<1>4. ASSUME NEW type \in Types
      PROVE  type \in Usable' <=>
                type \in Usable /\ ~(Claimable(codes[i]) /\ ~Claimable(code) /\ type = codes[i].type)
  <2>1. CASE type # codes[i].type
    <3>1. \A j \in DOMAIN codes : codes[j].type = type => codes'[j] = codes[j]
      BY <1>1, <2>1
    <3>2. QED
      BY <1>1, <2>1, <3>1, UsableType
  <2>2. CASE type = codes[i].type /\ Claimable(code)
    BY <1>1, <2>2, UsableType
  <2>3. CASE type = codes[i].type /\ ~Claimable(code) /\ ~Claimable(codes[i])
    <3>1. \A j \in DOMAIN codes : Claimable(codes[j]) <=> Claimable(codes'[j])
      BY <1>1, <2>3
    <3>2. QED
      BY <1>1, <2>3, <3>1, UsableType
  <2>4. CASE type = codes[i].type /\ ~Claimable(code) /\ Claimable(codes[i])
    <3>1. \A j \in DOMAIN codes : codes[j].type = type /\ Claimable(codes[j]) => j = i
      BY <1>1, <2>4 DEF IndInv, CodesSound, OneUsableCode, Claimable
    <3>2. \A j \in DOMAIN codes' : ~(codes'[j].type = type /\ Claimable(codes'[j]))
      BY <1>1, <2>4, <3>1
    <3>3. QED
      BY <2>4, <3>2, UsableType
  <2>5. QED
    BY <2>1, <2>2, <2>3, <2>4
<1>5. Usable' = IF Claimable(codes[i]) /\ ~Claimable(code)
                THEN Usable \ {codes[i].type} ELSE Usable
  <2>1. Usable \subseteq Types /\ Usable' \subseteq Types
    BY DEF Usable
  <2>2. CASE Claimable(codes[i]) /\ ~Claimable(code)
    BY <1>4, <2>1, <2>2
  <2>3. CASE ~(Claimable(codes[i]) /\ ~Claimable(code))
    BY <1>4, <2>1, <2>3
  <2>4. QED
    BY <2>2, <2>3
<1>6. QED
  BY <1>2, <1>3, <1>5

LEMMA MarkedVerified ==
    ASSUME IndInv, NEW i, NEW code, Marked(i, code), code.claims = codes[i].claims
    PROVE  Verified' = Verified
<1>1. \A j \in DOMAIN codes : codes'[j].claims = codes[j].claims
  BY MarkedShape
<1>2. ClaimedCodes("EMAIL_VERIFICATION")' = ClaimedCodes("EMAIL_VERIFICATION")
  BY <1>1, MarkedShape DEF ClaimedCodes
<1>3. QED
  BY <1>2 DEF Verified

LEMMA IssuedUsable ==
    ASSUME IndInv, NEW c \in Clients, req[c].op = "issuing", Len(codes) < MaxCodes,
           req[c].found = Outstanding(req[c].type), codes' = Issued(req[c])
    PROVE  /\ req[c].type \in Types
           /\ Usable' = Usable \cup {req[c].type} /\ Verified' = Verified
<1> DEFINE n == Len(codes)
           r == req[c]
<1>1. /\ DOMAIN codes' = DOMAIN codes \cup {n + 1}
      /\ \A i \in DOMAIN codes :
            /\ codes'[i].type = codes[i].type /\ codes'[i].claims = codes[i].claims
            /\ i \in r.found => codes'[i].consumed
            /\ i \notin r.found => codes'[i] = codes[i]
      /\ codes'[n + 1].type = r.type /\ ~codes'[n + 1].consumed /\ codes'[n + 1].claims = 0
      /\ ~codes'[n + 1].expired /\ codes'[n + 1].attempts = 0
  BY IssuedShape
<1>2. r.type \in Types
  BY IssuingType
<1>3. Claimable(codes'[n + 1])
  BY <1>1, AccountAssumption DEF Claimable
<1>4. r.type \in Usable'
  BY <1>1, <1>2, <1>3, UsableType
<1>5. ASSUME NEW type \in Types, type # r.type PROVE type \in Usable' <=> type \in Usable
  <2>1. \A i \in DOMAIN codes : codes[i].type = type => codes'[i] = codes[i]
    BY <1>1, <1>5 DEF Outstanding
  <2>2. QED
    BY <1>1, <1>5, <2>1, UsableType
<1>6. Usable' = Usable \cup {r.type}
  <2>1. Usable \subseteq Types /\ Usable' \subseteq Types
    BY DEF Usable
  <2>2. QED
    BY <1>2, <1>4, <1>5, <2>1
<1>7. Verified' = Verified
  <2>1. ClaimedCodes("EMAIL_VERIFICATION")' = ClaimedCodes("EMAIL_VERIFICATION")
    BY <1>1 DEF ClaimedCodes
  <2>2. QED
    BY <2>1 DEF Verified
<1>8. QED
  BY <1>2, <1>6, <1>7

-----------------------------------------------------------------------------
(* Sessions, logins and challenges, when the version stays and one client  *)
(* moves, and when it changes.                                             *)

LEMMA OneMoves ==
    ASSUME IndInv, NEW c \in Clients, OthersWait(c), user'.sessionVersion = user.sessionVersion
    PROVE  /\ Session' = [Session EXCEPT ![c] =
                             IF Accepted(cookie[c])' THEN cookie'[c].by ELSE "nobody"]
           /\ Challenged' = IF Accepted(challenge[c])'
                            THEN Challenged \cup {c} ELSE Challenged \ {c}
           /\ Logins' = [Logins EXCEPT ![c] = Proven(req[c])']
           /\ Enabling' = IF req'[c].op = "enable" THEN Enabling \cup {c} ELSE Enabling \ {c}
<1>1. \A d \in Clients \ {c} : /\ Accepted(cookie[d])' = Accepted(cookie[d])
                               /\ Accepted(challenge[d])' = Accepted(challenge[d])
                               /\ Proven(req[d])' = Proven(req[d])
  BY DEF OthersWait, Accepted, Proven
<1>2. Session' = [Session EXCEPT ![c] =
                     IF Accepted(cookie[c])' THEN cookie'[c].by ELSE "nobody"]
  BY <1>1 DEF Session, OthersWait
<1>3. Logins' = [Logins EXCEPT ![c] = Proven(req[c])']
  BY <1>1 DEF Logins
<1>4. Challenged' = IF Accepted(challenge[c])' THEN Challenged \cup {c} ELSE Challenged \ {c}
  BY <1>1 DEF Challenged
<1>5. Enabling' = IF req'[c].op = "enable" THEN Enabling \cup {c} ELSE Enabling \ {c}
  BY DEF Enabling, Doing, OthersWait
<1>6. QED
  BY <1>2, <1>3, <1>4, <1>5

LEMMA Now ==
    /\ \A c \in Clients : /\ Session[c] = IF Accepted(cookie[c]) THEN cookie[c].by ELSE "nobody"
                          /\ Logins[c] = Proven(req[c])
                          /\ c \in Challenged <=> Accepted(challenge[c])
                          /\ c \in Enabling <=> req[c].op = "enable"
    /\ DOMAIN Session = Clients /\ DOMAIN Logins = Clients
    /\ Session = [c \in Clients |-> Session[c]] /\ Logins = [c \in Clients |-> Logins[c]]
    /\ Challenged \subseteq Clients /\ Enabling \subseteq Clients
BY DEF Session, Logins, Challenged, Enabling, Doing

(* The request was about something else, and the challenge stays in use.   *)
LEMMA OthersSame ==
    ASSUME IndInv, NEW c \in Clients, OthersWait(c),
           user'.sessionVersion = user.sessionVersion, challenge' = challenge,
           req[c].op \notin {"login", "enable"}, req'[c].op \notin {"login", "enable"}
    PROVE  Challenged' = Challenged /\ Logins' = Logins /\ Enabling' = Enabling
<1>1. /\ Accepted(challenge[c])' = Accepted(challenge[c])
      /\ Proven(req[c]) = "nothing" /\ Proven(req[c])' = "nothing"
  BY DEF Accepted, Proven
<1>2. Logins' = Logins
  <2>1. Logins' = [Logins EXCEPT ![c] = Logins[c]]
    BY <1>1, OneMoves, Now
  <2>2. QED
    BY <2>1 DEF Logins
<1>3. Challenged' = Challenged
  <2>1. c \in Challenged <=> Accepted(challenge[c])'
    BY <1>1, Now
  <2>2. Challenged' = IF c \in Challenged THEN Challenged \cup {c} ELSE Challenged \ {c}
    BY <2>1, OneMoves
  <2>3. QED
    BY <2>2
<1>4. Enabling' = Enabling
  BY DEF Enabling, Doing, OthersWait
<1>5. QED
  BY <1>2, <1>3, <1>4

(* The session stays in use.                                               *)
LEMMA SessionSame ==
    ASSUME IndInv, NEW c \in Clients, OthersWait(c),
           user'.sessionVersion = user.sessionVersion, cookie'[c] = cookie[c]
    PROVE  Session' = Session
<1>1. Accepted(cookie[c])' = Accepted(cookie[c]) /\ cookie'[c].by = cookie[c].by
  BY DEF Accepted
<1>2. Session' = [Session EXCEPT ![c] = Session[c]]
  BY <1>1, OneMoves, Now
<1>3. QED
  BY <1>2 DEF Session

LEMMA WaysKept ==
    ASSUME IndInv, NEW c \in Clients, OthersWait(c),
           user'.sessionVersion = user.sessionVersion,
           user'.twoFactorEnabled = user.twoFactorEnabled,
           cookie' = cookie, challenge' = challenge,
           req[c].op \notin {"login", "enable"}, req'[c].op \notin {"login", "enable"}
    PROVE  SameWays
BY OthersSame, SessionSame DEF SameWays, SameSessions

(* Every version in use is older: whatever was not made just now is over.  *)
LEMMA VersionMoves ==
    ASSUME IndInv, NEW c \in Clients, OthersWait(c),
           user'.sessionVersion = user.sessionVersion + 1,
           challenge' = challenge, req'[c].op = "none"
    PROVE  /\ Session' = [[d \in Clients |-> "nobody"] EXCEPT ![c] =
                             IF Accepted(cookie[c])' THEN cookie'[c].by ELSE "nobody"]
           /\ Challenged' = {} /\ Logins' = [d \in Clients |-> "nothing"]
           /\ Enabling' = Enabling \ {c}
<1>1. ASSUME NEW d \in Clients
      PROVE  /\ ~Accepted(challenge[d])' /\ Proven(req[d])' = "nothing"
             /\ d # c => ~Accepted(cookie[d])'
  <2>1. CookieSound(cookie[d]) /\ ChallengeSound(challenge[d]) /\ RequestSound(req[d])
    BY DEF IndInv, Sessions
  <2>2. /\ Signed(cookie[d]) => cookie[d].version # user'.sessionVersion
        /\ Signed(challenge[d]) => challenge[d].version # user'.sessionVersion
        /\ req[d].op = "login" => req[d].version # user'.sessionVersion
    BY <2>1, Versions DEF CookieSound, ChallengeSound, RequestSound, Current
  <2>3. ~Accepted(challenge[d])'
    BY <2>2 DEF Accepted, Signed
  <2>4. Proven(req[d])' = "nothing"
    BY <2>2 DEF Proven, OthersWait
  <2>5. d # c => ~Accepted(cookie[d])'
    BY <2>2 DEF Accepted, Signed, OthersWait
  <2>6. QED
    BY <2>3, <2>4, <2>5
<1>2. Session' = [[d \in Clients |-> "nobody"] EXCEPT ![c] =
                     IF Accepted(cookie[c])' THEN cookie'[c].by ELSE "nobody"]
  BY <1>1 DEF Session
<1>3. Challenged' = {} /\ Logins' = [d \in Clients |-> "nothing"]
  BY <1>1 DEF Challenged, Logins
<1>4. Enabling' = Enabling \ {c}
  BY DEF Enabling, Doing, OthersWait
<1>5. QED
  BY <1>2, <1>3, <1>4

-----------------------------------------------------------------------------
(* Steps that change nothing the contract knows of.                        *)

Allowed == Contract!Next \/ UNCHANGED Contract!vars

LEMMA SameTable == ASSUME codes' = codes PROVE SameCodes
BY DEF SameCodes, Verified, ClaimedCodes, Usable, Outstanding

LEMMA Hands ==
    ASSUME IndInv, NEW c \in Clients, NEW r, Proceed(c, r), cookie' = cookie,
           challenge' = challenge
    PROVE  OthersWait(c) /\ req'[c] = r
BY DEF Proceed, OthersWait, IndInv, TypeOK

LEMMA HandsOver ==
    ASSUME IndInv, NEW c \in Clients, NEW r, Proceed(c, r),
           UNCHANGED <<codes, cookie, challenge>>,
           user'.sessionVersion = user.sessionVersion,
           user'.twoFactorEnabled = user.twoFactorEnabled,
           req[c].op \notin {"login", "enable"}, r.op \notin {"login", "enable"}
    PROVE  Allowed
<1>1. SameCodes
  BY SameTable
<1>2. SameWays
  BY Hands, WaysKept
<1>3. QED
  BY <1>1, <1>2, Stutters DEF Allowed

LEMMA ReadsAllowed ==
    ASSUME IndInv, NEW c \in Clients,
           \/ Signup(c) \/ ResendVerification(c) \/ ForgotPassword(c) \/ Generate(c)
           \/ IssueBegin(c) \/ IssueConflict(c)
           \/ \E right \in BOOLEAN : SubmitVerification(c, right) \/ SubmitReset(c, right)
    PROVE  Allowed
<1>1. UNCHANGED <<user, codes, cookie, challenge>>
  BY DEF Signup, ResendVerification, ForgotPassword, AskForCode, Generate, SessionRequest,
         IssueBegin, IssueConflict, SubmitVerification, SubmitReset, Submit
<1>2. req[c].op \notin {"login", "enable"}
  BY DEF Signup, ResendVerification, ForgotPassword, AskForCode, Generate, SessionRequest,
         IssueBegin, IssueConflict, SubmitVerification, SubmitReset, Submit, Idle, Doing
<1>3. req[c] \in Requests
  BY DEF IndInv, TypeOK
<1>4. \E r : Proceed(c, r) /\ r.op \notin {"login", "enable"}
  <2>1. CASE Signup(c)
    <3>1. [Rest EXCEPT !.op = "create"].op = "create"
      BY DEF Rest
    <3>2. QED
      BY <2>1, <3>1 DEF Signup
  <2>2. CASE ResendVerification(c) \/ ForgotPassword(c)
    <3>1. PICK type : AskForCode(c, type)
      BY <2>2 DEF ResendVerification, ForgotPassword
    <3>2. [Rest EXCEPT !.op = "issue", !.type = type].op = "issue"
      BY DEF Rest
    <3>3. QED
      BY <3>1, <3>2 DEF AskForCode
  <2>3. CASE Generate(c)
    <3>1. [Rest EXCEPT !.op = "generate"].op = "generate"
      BY DEF Rest
    <3>2. QED
      BY <2>3, <3>1 DEF Generate, SessionRequest
  <2>4. CASE IssueBegin(c)
    <3> DEFINE r == [req[c] EXCEPT !.op = "issuing", !.found = Outstanding(req[c].type),
                                   !.seen = OfType(req[c].type)]
    <3>1. r.op = "issuing"
      BY <1>3 DEF Requests
    <3>2. Proceed(c, r)
      BY <2>4 DEF IssueBegin
    <3> HIDE DEF r
    <3>3. QED
      BY <3>1, <3>2
  <2>5. CASE IssueConflict(c)
    <3>1. TriedAgain(req[c]).op = "issue" /\ Rest.op = "none"
      BY <1>3 DEF TriedAgain, Requests, Rest
    <3>2. Proceed(c, TriedAgain(req[c])) \/ Proceed(c, Rest)
      BY <2>5 DEF IssueConflict, Done
    <3>3. QED
      BY <3>1, <3>2
  <2>6. ASSUME NEW right \in BOOLEAN, SubmitVerification(c, right) \/ SubmitReset(c, right)
        PROVE  \E r : Proceed(c, r) /\ r.op \notin {"login", "enable"}
    <3>1. PICK type : Submit(c, type, right)
      BY <2>6 DEF SubmitVerification, SubmitReset
    <3>2. PICK op \in {"consume", "record", "verify", "reset"} :
             \E i : Proceed(c, [Rest EXCEPT !.op = op, !.id = i])
      BY <3>1 DEF Submit
    <3>3. \A i : [Rest EXCEPT !.op = op, !.id = i].op = op
      BY DEF Rest
    <3>4. QED
      BY <3>2, <3>3
  <2>7. QED
    BY <2>1, <2>2, <2>3, <2>4, <2>5, <2>6
<1>5. QED
  BY <1>1, <1>2, <1>4, HandsOver

LEMMA WritesAllowed ==
    ASSUME IndInv, NEW c \in Clients, CreateUser(c) \/ StorePending(c)
    PROVE  Allowed
<1>1. UNCHANGED <<codes, cookie, challenge>> /\ req[c].op \notin {"login", "enable"}
  BY DEF CreateUser, StorePending, Doing
<1>2. /\ user'.sessionVersion = user.sessionVersion
      /\ user'.twoFactorEnabled = user.twoFactorEnabled
  BY DEF CreateUser, StorePending, IndInv, TypeOK, Users
<1>3. \E r : Proceed(c, r) /\ r.op \notin {"login", "enable"}
  <2> DEFINE r == [Rest EXCEPT !.op = "issue", !.type = "EMAIL_VERIFICATION", !.signup = TRUE]
  <2>1. Rest.op = "none" /\ r.op = "issue"
    BY DEF Rest
  <2>2. Proceed(c, Rest) \/ Proceed(c, r)
    BY DEF CreateUser, StorePending, Done
  <2> HIDE DEF r
  <2>3. QED
    BY <2>1, <2>2
<1>4. QED
  BY <1>1, <1>2, <1>3, HandsOver

-----------------------------------------------------------------------------
(* Steps on codes.                                                         *)

LEMMA CodeStep ==
    ASSUME NEW type \in Types, Verified' = Verified, SameWays,
           Usable' \in {Usable, Usable \ {type}, Usable \cup {type}}
    PROVE  Allowed
<1>1. CASE Usable' = Usable
  BY <1>1, Stutters DEF SameCodes, Allowed
<1>2. CASE Usable' # Usable
  BY <1>2, Issues DEF Allowed
<1>3. QED
  BY <1>1, <1>2

LEMMA MarkAllowed ==
    ASSUME IndInv, NEW i, NEW code, Marked(i, code), code.claims = codes[i].claims,
           Claimable(code) => Claimable(codes[i]), SameWays
    PROVE  Allowed
<1>1. codes[i].type \in Types /\ Usable' \in {Usable, Usable \ {codes[i].type}}
  BY MarkedUsable
<1>2. Verified' = Verified
  BY MarkedVerified
<1>3. QED
  BY <1>1, <1>2, CodeStep

LEMMA ExpireAllowed == ASSUME IndInv, NEW i \in DOMAIN codes, Expire(i) PROVE Allowed
<1> DEFINE code == [codes[i] EXCEPT !.expired = TRUE]
<1>1. codes[i] \in Code
  BY DEF IndInv, TypeOK
<1>2. /\ code \in Code /\ code.type = codes[i].type /\ code.discarded = codes[i].discarded
      /\ code.consumed = codes[i].consumed /\ code.claims = codes[i].claims /\ code.expired
  BY <1>1 DEF Code
<1>3. UNCHANGED <<user, cookie, challenge, req>> /\ codes' = [codes EXCEPT ![i] = code]
  BY DEF Expire
<1> HIDE DEF code
<1>4. Marked(i, code)
  <2>1. codes[i].claims <= 1 /\ (codes[i].claims = 1 => codes[i].consumed)
    BY DEF IndInv, CodesSound
  <2>2. QED
    BY <1>2, <1>3, <2>1 DEF Marked
<1>5. SameWays
  BY <1>3 DEF SameWays, SameSessions, Session, Logins, Challenged, Enabling, Accepted, Signed,
              Proven, Doing
<1>6. QED
  BY <1>2, <1>4, <1>5, MarkAllowed DEF Claimable

LEMMA DoneWays ==
    ASSUME IndInv, NEW c \in Clients, Done(c), UNCHANGED <<user, cookie, challenge>>,
           req[c].op \notin {"login", "enable"}
    PROVE  SameWays
<1>1. Rest.op = "none"
  BY DEF Rest
<1>2. QED
  BY <1>1, Hands, WaysKept DEF Done

LEMMA GuessAllowed ==
    ASSUME IndInv, NEW c \in Clients, ConsumeAuthCode(c) \/ RecordFailedAttempt(c)
    PROVE  Allowed
<1> DEFINE i == req[c].id
           n == codes[i].attempts
           m == IF Countable(codes[i]) THEN n + 1 ELSE n
<1>1. /\ req[c].op \in {"consume", "record"} /\ Done(c)
      /\ UNCHANGED <<user, cookie, challenge>>
  BY DEF ConsumeAuthCode, RecordFailedAttempt, Doing
<1>2. SameWays
  BY <1>1, DoneWays
<1>3. /\ i \in DOMAIN codes /\ codes[i] \in Code /\ codes[i].claims <= 1
      /\ (codes[i].claims = 1 => codes[i].consumed)
  BY <1>1, IdType
<1>4. CASE ConsumeAuthCode(c)
  <2> DEFINE code == [codes[i] EXCEPT !.consumed = TRUE]
  <2>1. codes' = [codes EXCEPT ![i] = code]
    BY <1>4 DEF ConsumeAuthCode
  <2>2. Marked(i, code) /\ code.claims = codes[i].claims /\ code.consumed
    BY <1>3, <2>1 DEF Marked, Code
  <2> HIDE DEF code
  <2>3. QED
    BY <1>2, <2>2, MarkAllowed DEF Claimable
<1>5. CASE RecordFailedAttempt(c)
  <2> DEFINE code == [codes[i] EXCEPT !.attempts = m]
  <2>1. codes' = [codes EXCEPT ![i] = code]
    BY <1>5 DEF RecordFailedAttempt
  <2>2. m \in 0..MaxAttempts /\ n \in Nat /\ n <= m
    BY <1>3, AccountAssumption DEF Countable, Code
  <2> HIDE DEF m
  <2>3. /\ Marked(i, code) /\ code.claims = codes[i].claims /\ code.attempts = m
        /\ code.consumed = codes[i].consumed /\ code.expired = codes[i].expired
    BY <1>3, <2>1, <2>2 DEF Marked, Code
  <2> HIDE DEF code
  <2>4. Claimable(code) => Claimable(codes[i])
    BY <2>2, <2>3, AccountAssumption DEF Claimable
  <2>5. QED
    BY <1>2, <2>3, <2>4, MarkAllowed
<1>6. QED
  BY <1>4, <1>5

LEMMA IssueAllowed == ASSUME IndInv, NEW c \in Clients, IssueCommit(c) PROVE Allowed
<1>1. /\ req[c].op = "issuing" /\ req[c].seen = OfType(req[c].type)
      /\ codes' = Issued(req[c]) /\ Done(c) /\ UNCHANGED <<user, cookie, challenge>>
  BY DEF IssueCommit, Doing, Unchanged
<1>2. req[c].type \in Types
  BY <1>1, IssuingType
<1>3. req[c].found = Outstanding(req[c].type)
  BY <1>1, <1>2, ReadType DEF IndInv, Sessions, RequestSound
<1>4. Len(codes) < MaxCodes
  <2>1. Under(Creating)' \in Nat /\ Under(Creating)' + 1 = Under(Creating)
    BY <1>1, DoneSound, UnderMoves DEF IndInv, TypeOK, Creating
  <2>2. Under(Creating) \in Nat /\ Len(codes) \in Nat
    BY UnderType DEF IndInv, TypeOK
  <2>3. QED
    BY <2>1, <2>2, AccountAssumption DEF IndInv, RoomLeft
<1>5. Usable' = Usable \cup {req[c].type} /\ Verified' = Verified
  BY <1>1, <1>3, <1>4, IssuedUsable
<1>6. SameWays
  BY <1>1, DoneWays
<1>7. QED
  BY <1>2, <1>5, <1>6, CodeStep

LEMMA ClaimUsable ==
    ASSUME IndInv, NEW c \in Clients, req[c].op \in {"verify", "reset"},
           Claimable(codes[req[c].id]), codes' = Claimed(req[c].id)
    PROVE  LET type == codes[req[c].id].type
           IN /\ type \in Usable /\ Usable' = Usable \ {type}
              /\ type = "EMAIL_VERIFICATION" => Verified' = TRUE
              /\ type # "EMAIL_VERIFICATION" => Verified' = Verified
<1> DEFINE i == req[c].id
           code == [codes[i] EXCEPT !.attempts = codes[i].attempts + 1, !.consumed = TRUE,
                                    !.claims = codes[i].claims + 1]
<1>1. /\ Marked(i, code) /\ code.claims = 1 /\ codes[i].claims = 0
      /\ code.type = codes[i].type
  BY ClaimShape
<1>2. code.consumed
  <2>1. codes[i] \in Code
    BY IdType
  <2>2. QED
    BY <2>1 DEF Code
<1> HIDE DEF code
<1>3. codes[i].type \in Usable /\ Usable' = Usable \ {codes[i].type}
  BY <1>1, <1>2, MarkedUsable DEF Claimable
<1>4. /\ i \in DOMAIN codes /\ DOMAIN codes' = DOMAIN codes /\ codes'[i] = code
      /\ \A j \in DOMAIN codes : j # i => codes'[j] = codes[j]
  BY <1>1, MarkedShape DEF Marked
<1>5. codes[i].type = "EMAIL_VERIFICATION" => Verified' = TRUE
  BY <1>1, <1>4 DEF Verified, ClaimedCodes
<1>6. ASSUME codes[i].type # "EMAIL_VERIFICATION" PROVE Verified' = Verified
  <2>1. ClaimedCodes("EMAIL_VERIFICATION")' = ClaimedCodes("EMAIL_VERIFICATION")
    BY <1>1, <1>4, <1>6 DEF ClaimedCodes
  <2>2. QED
    BY <2>1 DEF Verified
<1>7. QED
  BY <1>3, <1>5, <1>6

LEMMA VerifyAllowed == ASSUME IndInv, NEW c \in Clients, VerifyEmail(c) PROVE Allowed
<1>1. req[c].op = "verify" /\ Done(c) /\ challenge' = challenge /\ Rest.op = "none"
  BY DEF VerifyEmail, Doing, Rest
<1>2. CASE ~Claimable(codes[req[c].id])
  BY <1>1, <1>2, HandsOver DEF VerifyEmail, Done
<1>3. CASE Claimable(codes[req[c].id])
  <2>1. /\ codes' = Claimed(req[c].id) /\ user' = [user EXCEPT !.emailVerified = TRUE]
        /\ cookie' = [cookie EXCEPT ![c] = Token("code", user.sessionVersion, resets)]
    BY <1>3 DEF VerifyEmail
  <2>2. codes[req[c].id].type = "EMAIL_VERIFICATION"
    BY <1>1 DEF IndInv, Sessions, RequestSound, IdSound
  <2>3. /\ "EMAIL_VERIFICATION" \in Usable /\ Usable' = Usable \ {"EMAIL_VERIFICATION"}
        /\ Verified' = TRUE
    BY <1>1, <1>3, <2>1, <2>2, ClaimUsable
  <2>4. /\ user'.sessionVersion = user.sessionVersion
        /\ user'.twoFactorEnabled = user.twoFactorEnabled
    BY <2>1 DEF IndInv, TypeOK, Users
  <2>5. /\ cookie'[c] = Token("code", user.sessionVersion, resets)
        /\ OthersWait(c) /\ req'[c] = Rest
    BY <1>1, <2>1, DoneSound DEF OthersWait, IndInv, TypeOK
  <2>6. Accepted(cookie[c])' /\ cookie'[c].by = "code"
    BY <2>4, <2>5 DEF Accepted, Signed, Token, NoToken
  <2>7. Session' = [Session EXCEPT ![c] = "code"]
    BY <2>4, <2>5, <2>6, OneMoves
  <2>8. Challenged' = Challenged /\ Logins' = Logins /\ Enabling' = Enabling
    BY <1>1, <2>4, <2>5, OthersSame
  <2>9. QED
    BY <2>3, <2>4, <2>7, <2>8, Verifies DEF Allowed
<1>4. QED
  BY <1>2, <1>3

(* The new version is one that no session, challenge or login has.         *)
LEMMA ResetAllowed == ASSUME IndInv, NEW c \in Clients, ResetPassword(c) PROVE Allowed
<1>1. req[c].op = "reset" /\ Done(c) /\ challenge' = challenge /\ Rest.op = "none"
  BY DEF ResetPassword, Doing, Rest
<1>2. CASE ~Claimable(codes[req[c].id])
  BY <1>1, <1>2, HandsOver DEF ResetPassword, Done
<1>3. CASE Claimable(codes[req[c].id])
  <2>1. /\ codes' = Claimed(req[c].id)
        /\ user' = [user EXCEPT !.sessionVersion = user.sessionVersion + 1]
        /\ cookie' = [cookie EXCEPT ![c] = NoToken]
    BY <1>3 DEF ResetPassword
  <2>2. codes[req[c].id].type = "PASSWORD_RESET"
    BY <1>1 DEF IndInv, Sessions, RequestSound, IdSound
  <2>3. /\ "PASSWORD_RESET" \in Usable /\ Usable' = Usable \ {"PASSWORD_RESET"}
        /\ Verified' = Verified
    BY <1>1, <1>3, <2>1, <2>2, ClaimUsable
  <2>4. /\ user'.sessionVersion = user.sessionVersion + 1
        /\ user'.twoFactorEnabled = user.twoFactorEnabled
    BY <2>1 DEF IndInv, TypeOK, Users
  <2>5. cookie'[c] = NoToken /\ OthersWait(c) /\ req'[c].op = "none"
    BY <1>1, <2>1, DoneSound DEF OthersWait, IndInv, TypeOK
  <2>6. ~Accepted(cookie[c])'
    BY <2>5 DEF Accepted, Signed
  <2>7. /\ Session' = [[d \in Clients |-> "nobody"] EXCEPT ![c] = "nobody"]
        /\ Challenged' = {} /\ Logins' = [d \in Clients |-> "nothing"]
        /\ Enabling' = Enabling \ {c}
    BY <1>1, <2>4, <2>5, <2>6, VersionMoves
  <2>8. Session' = [d \in Clients |-> "nobody"]
    BY <2>7
  <2>9. Enabling' = Enabling
    <3>1. c \notin Enabling
      BY <1>1 DEF Enabling, Doing
    <3>2. QED
      BY <2>7, <3>1
  <2>10. QED
    BY <2>3, <2>4, <2>7, <2>8, <2>9, Resets DEF Allowed
<1>4. QED
  BY <1>2, <1>3

-----------------------------------------------------------------------------
(* Steps on sessions.                                                      *)

LEMMA LoginAllowed == ASSUME IndInv, NEW c \in Clients, Login(c) PROVE Allowed
<1> DEFINE r == [Rest EXCEPT !.op = "login", !.version = user.sessionVersion,
                             !.resets = resets, !.second = user.twoFactorEnabled]
<1>1. /\ user.emailVerified /\ req[c].op = "none" /\ Proceed(c, r)
      /\ UNCHANGED <<user, codes, cookie, challenge>>
  BY DEF Login, Idle
<1>2. r.op = "login" /\ r.version = user.sessionVersion /\ r.second = user.twoFactorEnabled
  BY DEF Rest
<1> HIDE DEF r
<1>3. OthersWait(c) /\ req'[c] = r
  BY <1>1, Hands
<1>4. Proven(req[c])' = IF user.twoFactorEnabled THEN "challenge" ELSE "password"
  BY <1>1, <1>2, <1>3 DEF Proven
<1>5. Logins' = [Logins EXCEPT ![c] =
                    IF user.twoFactorEnabled THEN "challenge" ELSE "password"]
  BY <1>1, <1>3, <1>4, OneMoves
<1>6. Session' = Session
  BY <1>1, <1>3, SessionSame
<1>7. Challenged' = Challenged
  BY <1>1 DEF Challenged, Accepted
<1>8. Enabling' = Enabling
  BY <1>1, <1>2, <1>3 DEF Enabling, Doing, OthersWait
<1>9. Verified /\ SameCodes
  BY <1>1, SameTable DEF IndInv, Sessions
<1>10. QED
  BY <1>1, <1>5, <1>6, <1>7, <1>8, <1>9, LogsIn DEF SameSessions, Allowed

(* The request is over, and it does not let its client in.                 *)
LEMMA LeaveAllowed ==
    ASSUME IndInv, NEW c \in Clients, OthersWait(c), UNCHANGED <<user, codes>>,
           req'[c].op = "none",
           cookie'[c] = cookie[c] \/ ~Accepted(cookie[c])',
           challenge'[c] = challenge[c] \/ ~Accepted(challenge[c])'
    PROVE  Allowed
<1>1. SameCodes
  BY SameTable
<1>2. Proven(req[c])' = "nothing" /\ req'[c].op # "enable"
  BY DEF Proven
<1>3. Logins' = [Logins EXCEPT ![c] = "nothing"] /\ Enabling' = Enabling \ {c}
  BY <1>2, OneMoves
<1>4. Session' = Session \/ Session' = [Session EXCEPT ![c] = "nobody"]
  <2>1. CASE cookie'[c] = cookie[c]
    BY <2>1, SessionSame
  <2>2. CASE ~Accepted(cookie[c])'
    BY <2>2, OneMoves
  <2>3. QED
    BY <2>1, <2>2
<1>5. Challenged' = Challenged \/ Challenged' = Challenged \ {c}
  <2>1. CASE challenge'[c] = challenge[c]
    <3>1. Accepted(challenge[c])' = Accepted(challenge[c])
      BY <2>1 DEF Accepted
    <3>2. CASE c \in Challenged
      <4>1. Challenged' = Challenged \cup {c}
        BY <3>1, <3>2, OneMoves, Now
      <4>2. QED
        BY <3>2, <4>1
    <3>3. CASE c \notin Challenged
      <4>1. Challenged' = Challenged \ {c}
        BY <3>1, <3>3, OneMoves, Now
      <4>2. QED
        BY <4>1
    <3>4. QED
      BY <3>2, <3>3
  <2>2. CASE ~Accepted(challenge[c])'
    BY <2>2, OneMoves
  <2>3. QED
    BY <2>1, <2>2
<1>6. QED
  BY <1>1, <1>3, <1>4, <1>5, Leaves DEF Allowed

LEMMA FailAllowed == ASSUME IndInv, NEW c \in Clients, Fail(c) PROVE Allowed
<1>1. OthersWait(c) /\ req'[c] = Rest /\ UNCHANGED <<user, codes, cookie, challenge>>
  BY Hands DEF Fail, Done
<1>2. QED
  BY <1>1, LeaveAllowed DEF Rest

LEMMA LogoutAllowed == ASSUME IndInv, NEW c \in Clients, Logout(c) PROVE Allowed
<1>1. /\ OthersWait(c) /\ UNCHANGED <<user, codes, challenge, req>> /\ req[c].op = "none"
      /\ cookie'[c] = NoToken
  BY DEF Logout, OthersWait, Idle, IndInv, TypeOK
<1>2. ~Accepted(cookie[c])'
  BY <1>1 DEF Accepted, Signed
<1>3. QED
  BY <1>1, <1>2, LeaveAllowed

(* The token is signed for the version that was read: when that is not     *)
(* the account's any more, it only takes the place of a better one.        *)
LEMMA AnswerAllowed == ASSUME IndInv, NEW c \in Clients, AnswerLogin(c) PROVE Allowed
<1> DEFINE token == Token("password", req[c].version, req[c].resets)
<1>1. /\ req[c].op = "login" /\ Done(c) /\ UNCHANGED <<user, codes>>
      /\ IF req[c].second
         THEN challenge' = [challenge EXCEPT ![c] = token] /\ UNCHANGED cookie
         ELSE cookie' = [cookie EXCEPT ![c] = token] /\ UNCHANGED challenge
  BY DEF AnswerLogin, Doing, SignedVersion
<1>2. token.version = req[c].version /\ token.by = "password" /\ token # NoToken
  BY DEF Token, NoToken
<1> HIDE DEF token
<1>3. OthersWait(c) /\ req'[c] = Rest /\ Rest.op = "none"
  BY <1>1, DoneSound, RestType DEF OthersWait, IndInv, TypeOK
<1>4. /\ req[c].second => challenge'[c] = token /\ cookie' = cookie
      /\ ~req[c].second => cookie'[c] = token /\ challenge' = challenge
  BY <1>1 DEF IndInv, TypeOK
<1>5. CASE req[c].version # user.sessionVersion
  <2>1. cookie'[c] = cookie[c] \/ ~Accepted(cookie[c])'
    BY <1>1, <1>2, <1>4, <1>5 DEF Accepted
  <2>2. challenge'[c] = challenge[c] \/ ~Accepted(challenge[c])'
    BY <1>1, <1>2, <1>4, <1>5 DEF Accepted
  <2>3. QED
    BY <1>1, <1>3, <2>1, <2>2, LeaveAllowed
<1>6. CASE req[c].version = user.sessionVersion
  <2>1. Proven(req[c])' = "nothing"
    BY <1>3 DEF Proven
  <2>2. Logins' = [Logins EXCEPT ![c] = "nothing"]
    BY <1>1, <1>3, <2>1, OneMoves
  <2>3. Enabling' = Enabling
    BY <1>1, <1>3 DEF Enabling, Doing, OthersWait
  <2>4. CASE req[c].second
    <3>1. Accepted(challenge[c])'
      BY <1>1, <1>2, <1>4, <1>6, <2>4 DEF Accepted, Signed, NoToken
    <3>2. Challenged' = Challenged \cup {c}
      BY <1>1, <1>3, <3>1, OneMoves
    <3>3. Session' = Session
      BY <1>1, <1>3, <1>4, <2>4, SessionSame
    <3>4. Logins[c] = "challenge"
      BY <1>1, <1>6, <2>4 DEF Logins, Proven
    <3>5. QED
      BY <1>1, <2>2, <2>3, <3>2, <3>3, <3>4, SameTable, AnswersLogin DEF Allowed
  <2>5. CASE ~req[c].second
    <3>1. Accepted(cookie[c])' /\ cookie'[c].by = "password"
      BY <1>1, <1>2, <1>4, <1>6, <2>5 DEF Accepted, Signed, NoToken
    <3>2. Session' = [Session EXCEPT ![c] = "password"]
      BY <1>1, <1>3, <3>1, OneMoves
    <3>3. Challenged' = Challenged
      BY <1>1, <1>4, <2>5 DEF Challenged, Accepted
    <3>4. Logins[c] = "password"
      BY <1>1, <1>6, <2>5 DEF Logins, Proven
    <3>5. QED
      BY <1>1, <2>2, <2>3, <3>2, <3>3, <3>4, SameTable, AnswersLogin DEF Allowed
  <2>6. QED
    BY <2>4, <2>5
<1>7. QED
  BY <1>5, <1>6

LEMMA SecondAllowed == ASSUME IndInv, NEW c \in Clients, LoginSecond(c) PROVE Allowed
<1> DEFINE token == Token("second factor", user.sessionVersion, challenge[c].resets)
<1>1. /\ Accepted(challenge[c]) /\ user.twoFactorEnabled
      /\ cookie' = [cookie EXCEPT ![c] = token]
      /\ UNCHANGED <<user, codes, challenge, req>> /\ req[c].op = "none"
  BY DEF LoginSecond, Accepted, Idle
<1>2. token.version = user.sessionVersion /\ token.by = "second factor" /\ token # NoToken
  BY DEF Token, NoToken
<1> HIDE DEF token
<1>3. OthersWait(c) /\ cookie'[c] = token
  BY <1>1 DEF OthersWait, IndInv, TypeOK
<1>4. Accepted(cookie[c])' /\ cookie'[c].by = "second factor"
  BY <1>1, <1>2, <1>3 DEF Accepted, Signed, NoToken
<1>5. Session' = [Session EXCEPT ![c] = "second factor"]
  BY <1>1, <1>3, <1>4, OneMoves
<1>6. Challenged' = Challenged /\ Logins' = Logins /\ Enabling' = Enabling
  BY <1>1, <1>3, OthersSame
<1>7. c \in Challenged
  BY <1>1 DEF Challenged
<1>8. QED
  BY <1>1, <1>5, <1>6, <1>7, SameTable, AnswersSecond DEF Allowed

LEMMA ConfirmAllowed == ASSUME IndInv, NEW c \in Clients, Confirm(c) PROVE Allowed
<1> DEFINE r == [Rest EXCEPT !.op = "enable", !.secret = user.pendingSecret,
                             !.resets = resets]
<1>1. /\ Accepted(cookie[c]) /\ req[c].op = "none" /\ Proceed(c, r)
      /\ UNCHANGED <<user, codes, cookie, challenge>>
  BY DEF Confirm, SessionRequest, Idle
<1>2. r.op = "enable"
  BY DEF Rest
<1> HIDE DEF r
<1>3. OthersWait(c) /\ req'[c] = r
  BY <1>1, Hands
<1>4. Session' = Session
  BY <1>1, <1>3, SessionSame
<1>5. Challenged' = Challenged
  BY <1>1 DEF Challenged, Accepted
<1>6. Enabling' = Enabling \cup {c}
  BY <1>1, <1>2, <1>3, OneMoves
<1>7. Logins' = Logins
  <2>1. Proven(req[c])' = "nothing" /\ Proven(req[c]) = "nothing"
    BY <1>1, <1>2, <1>3 DEF Proven
  <2>2. Logins' = [Logins EXCEPT ![c] = Logins[c]]
    BY <1>1, <1>3, <2>1, OneMoves, Now
  <2>3. QED
    BY <2>2 DEF Logins
<1>8. Session[c] # "nobody"
  <2>1. CookieSound(cookie[c]) /\ Signed(cookie[c])
    BY <1>1 DEF IndInv, Sessions, Accepted
  <2>2. QED
    BY <1>1, <2>1, Now DEF CookieSound
<1>9. QED
  BY <1>1, <1>4, <1>5, <1>6, <1>7, <1>8, SameTable, Confirms DEF SameSessions, Allowed

LEMMA EnableAllowed == ASSUME IndInv, NEW c \in Clients, Enable(c) PROVE Allowed
<1>1. /\ req[c].op = "enable" /\ user' = Enabled(c) /\ Done(c)
      /\ cookie' = [cookie EXCEPT ![c] = Token("enabling", user'.sessionVersion,
                                               req[c].resets)]
      /\ UNCHANGED <<codes, challenge>> /\ Rest.op = "none"
  BY DEF Enable, Doing, Rest
<1>2. /\ user'.sessionVersion = user.sessionVersion + 1
      /\ user'.twoFactorEnabled = TRUE
  BY <1>1 DEF Enabled, IndInv, TypeOK, Users
<1>3. /\ OthersWait(c) /\ req'[c].op = "none"
      /\ cookie'[c] = Token("enabling", user'.sessionVersion, req[c].resets)
  BY <1>1, DoneSound DEF OthersWait, IndInv, TypeOK
<1>4. Accepted(cookie[c])' /\ cookie'[c].by = "enabling"
  BY <1>3 DEF Accepted, Signed, Token, NoToken
<1>5. /\ Session' = [[d \in Clients |-> "nobody"] EXCEPT ![c] = "enabling"]
      /\ Challenged' = {} /\ Logins' = [d \in Clients |-> "nothing"]
      /\ Enabling' = Enabling \ {c}
  BY <1>1, <1>2, <1>3, <1>4, VersionMoves
<1>6. c \in Enabling
  BY <1>1 DEF Enabling, Doing
<1>7. QED
  BY <1>1, <1>2, <1>5, <1>6, SameTable, Enables DEF Allowed

-----------------------------------------------------------------------------
(* Every step of a handler is one step of the contract, or none of its.    *)
LEMMA StepAllowed == ASSUME IndInv, [Next]_vars PROVE Allowed
<1>1. ASSUME NEW i \in DOMAIN codes, Expire(i) PROVE Allowed
  BY <1>1, ExpireAllowed
<1>2. ASSUME NEW c \in Clients, Start(c) PROVE Allowed
  BY <1>2, ReadsAllowed, LoginAllowed, SecondAllowed, LogoutAllowed, ConfirmAllowed DEF Start
<1>3. ASSUME NEW c \in Clients, Handle(c) PROVE Allowed
  BY <1>3, ReadsAllowed, WritesAllowed, IssueAllowed, GuessAllowed, VerifyAllowed,
     ResetAllowed, AnswerAllowed, EnableAllowed DEF Handle
<1>4. ASSUME NEW c \in Clients, Fail(c) PROVE Allowed
  BY <1>4, FailAllowed
<1>5. CASE UNCHANGED vars
  <2>1. SameWays
    BY <1>5 DEF vars, SameWays, SameSessions, Session, Logins, Challenged, Enabling, Accepted,
                Signed, Proven, Doing
  <2>2. SameCodes
    BY <1>5, SameTable DEF vars
  <2>3. QED
    BY <2>1, <2>2, Stutters DEF Allowed
<1>6. QED
  BY <1>1, <1>2, <1>3, <1>4, <1>5 DEF Next

LEMMA StartsAllowed == ASSUME Init PROVE Contract!Init
<1>1. /\ codes = <<>> /\ DOMAIN codes = {} /\ ~user.twoFactorEnabled
      /\ user.twoFactorEnabled = FALSE
      /\ \A c \in Clients : cookie[c] = NoToken /\ challenge[c] = NoToken /\ req[c] = Rest
  BY DEF Init
<1>2. Verified = FALSE /\ Usable = {}
  BY <1>1 DEF Verified, ClaimedCodes, Usable, Outstanding
<1>3. /\ Session = [c \in Clients |-> "nobody"] /\ Challenged = {}
  BY <1>1 DEF Session, Challenged, Accepted, Signed
<1>4. Logins = [c \in Clients |-> "nothing"] /\ Enabling = {}
  BY <1>1, RestType DEF Logins, Enabling, Proven, Doing
<1>5. QED
  BY <1>1, <1>2, <1>3, <1>4
     DEF Contract!Init, Contract!Out, Contract!Unproven, Verified, Usable, Session, Challenged,
         Logins, Enabling

(* The handlers of /v1/auth, cut where they await and interleaved in any   *)
(* way, do what AccountContract says and nothing else: a code lets in      *)
(* once, and a new password or the second factor ends every session,       *)
(* challenge and login of before, the ones under way included.             *)
THEOREM AccountKeepsContract == Spec => ImplementsContract
<1>1. ASSUME IndInv, [Next]_vars PROVE [Contract!Next]_(Contract!vars)
  BY <1>1, StepAllowed DEF Allowed
<1>2. QED
  BY <1>1, AccountInvariant, StartsAllowed, PTL DEF Spec, ImplementsContract, Contract!Safety
=============================================================================
