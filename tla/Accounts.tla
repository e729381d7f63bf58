------------------------------ MODULE Accounts ------------------------------
(***************************************************************************)
(* One account of the API server: the handlers of /v1/auth and the session *)
(* check in front of the dashboard routes.                                 *)
(*                                                                         *)
(* A client has one request in flight, one session cookie and, between the *)
(* two steps of a login, one challenge.  A handler is cut where it awaits: *)
(* req[c].op says what it does next and the other fields hold what it read *)
(* before the await.  Replies that change nothing are left out.            *)
(*                                                                         *)
(* Six digits and TOTP codes are abstracted to being right or wrong,       *)
(* passwords to sessionVersion, which every new password increments; 0     *)
(* stands for null.  Expiry of sessions and challenges is left out.        *)
(***************************************************************************)
EXTENDS Naturals, Sequences, FiniteSets

CONSTANTS
    Clients,       \* clients that act at the same time
    Secrets,       \* TOTP secrets generateSecret may return
    MaxAttempts,   \* MAX_RESET_ATTEMPTS (5 in the code)
    MaxCodes, MaxVersion   \* bounds of the model

ASSUME AccountAssumption ==
    /\ IsFiniteSet(Clients)
    /\ Secrets \subseteq Nat \ {0}
    /\ MaxAttempts \in Nat \ {0} /\ MaxCodes \in Nat /\ MaxVersion \in Nat

Types == {"EMAIL_VERIFICATION", "PASSWORD_RESET"}

VARIABLES
    user,       \* the row of the account
    codes,      \* table AuthCode by createdAt, with the email of each
    cookie,     \* the session of each client
    challenge,  \* the two-factor challenge of each client
    req,        \* the request in flight of each client
    resets,     \* history: passwords reset so far
    confirmed,  \* history: secrets a right TOTP code was given for
    welcomed    \* history: some signup was answered 201

vars == <<user, codes, cookie, challenge, req, resets, confirmed, welcomed>>
history == <<resets, confirmed, welcomed>>

Nothing == [i \in {} |-> 0]
Rest == [op |-> "none", type |-> "none", id |-> 0, version |-> 0, resets |-> 0,
         second |-> FALSE, secret |-> 0, tries |-> 0,
         found |-> {}, seen |-> Nothing, signup |-> FALSE]

(* What a token claims (version) and, for the properties, how it was       *)
(* earned and how many resets had been made when that was checked.         *)
Token(by, version, seen) == [by |-> by, version |-> version, resets |-> seen]
NoToken == Token("nobody", 0, 0)

Init ==
    /\ user = [exists |-> FALSE, emailVerified |-> FALSE, sessionVersion |-> 0,
               twoFactorEnabled |-> FALSE, twoFactorSecret |-> 0, pendingSecret |-> 0]
    /\ codes = <<>>
    /\ cookie = [c \in Clients |-> NoToken]
    /\ challenge = [c \in Clients |-> NoToken]
    /\ req = [c \in Clients |-> Rest]
    /\ resets = 0 /\ confirmed = {} /\ welcomed = FALSE

-----------------------------------------------------------------------------
(* Requests: a client starts one, each await hands over to the next step.  *)

Idle(c)    == req[c].op = "none"
Proceed(c, r) == req' = [req EXCEPT ![c] = r]
Done(c)    == Proceed(c, Rest)
Doing(c, op) == req[c].op = op

(* The bounds MaxCodes and MaxVersion, with what is under way counted.     *)
Under(ops) == Cardinality({c \in Clients : req[c].op \in ops})
RoomForCode    == Len(codes) + Under({"create", "issue", "issuing"}) < MaxCodes
RoomForVersion == user.sessionVersion + Under({"reset", "enable"}) < MaxVersion

-----------------------------------------------------------------------------
(* Codes.                                                                  *)

Outstanding(type) == {i \in DOMAIN codes : codes[i].type = type /\ ~codes[i].consumed}
(* What a transaction finds: that time passes changes no row. *)
OfType(type) == [i \in {j \in DOMAIN codes : codes[j].type = type} |->
                   [consumed |-> codes[i].consumed, attempts |-> codes[i].attempts]]

(* Serializable: nobody has touched what the transaction read. *)
UnchangedNever(c) == TRUE   \* defect: read committed
Unchanged(c) == req[c].seen = OfType(req[c].type)

(* createAuthCode: the codes found outstanding are consumed and their      *)
(* emails discarded, the new code and its email are inserted.              *)
Issued(r) ==
    Append([i \in DOMAIN codes |->
              IF i \in r.found
              THEN [codes[i] EXCEPT !.consumed = TRUE, !.discarded = TRUE]
              ELSE codes[i]],
           [type |-> r.type, attempts |-> 0, expired |-> FALSE, consumed |-> FALSE,
            discarded |-> FALSE, claims |-> 0])

IssueBegin(c) ==
    /\ Doing(c, "issue")
    /\ Proceed(c, [req[c] EXCEPT !.op = "issuing", !.found = Outstanding(req[c].type),
                             !.seen = OfType(req[c].type)])
    /\ UNCHANGED <<user, codes, cookie, challenge, history>>

IssueCommit(c) ==
    /\ Doing(c, "issuing") /\ Unchanged(c)
    /\ codes' = Issued(req[c])
    /\ welcomed' = (welcomed \/ req[c].signup)
    /\ Done(c)
    /\ UNCHANGED <<user, cookie, challenge, resets, confirmed>>

TriedAgain(r) == [r EXCEPT !.op = "issue", !.tries = @ + 1,
                                   !.found = {}, !.seen = Nothing]

(* P2034, which PostgreSQL may raise without a conflict too; any other     *)
(* error ends the request at once (Fail).                                  *)
IssueConflict(c) ==
    /\ Doing(c, "issuing")
    /\ IF req[c].tries < 2 THEN Proceed(c, TriedAgain(req[c])) ELSE Done(c)
    /\ UNCHANGED <<user, codes, cookie, challenge, history>>

(* RESET_CODE_TTL has passed. *)
Expire(i) ==
    /\ ~codes[i].consumed /\ ~codes[i].expired
    /\ codes' = [codes EXCEPT ![i].expired = TRUE]
    /\ UNCHANGED <<user, cookie, challenge, req, history>>

(* latestAuthCode and the checks of verify-email and reset-password.       *)
Submit(c, type, right) ==
    /\ Idle(c) /\ Outstanding(type) # {}
    /\ LET i == CHOOSE i \in Outstanding(type) : \A j \in Outstanding(type) : j <= i
           spent == codes[i].expired \/ codes[i].attempts >= MaxAttempts
           op == IF spent THEN "consume" ELSE IF ~right THEN "record"
                 ELSE IF type = "EMAIL_VERIFICATION" THEN "verify" ELSE "reset"
       IN Proceed(c, [Rest EXCEPT !.op = op, !.id = i])
    /\ UNCHANGED <<user, codes, cookie, challenge, history>>

SubmitVerification(c, right) == Submit(c, "EMAIL_VERIFICATION", right)
SubmitReset(c, right)        == RoomForVersion /\ Submit(c, "PASSWORD_RESET", right)

ConsumeAuthCode(c) ==
    /\ Doing(c, "consume")
    /\ codes' = [codes EXCEPT ![req[c].id].consumed = TRUE]
    /\ Done(c)
    /\ UNCHANGED <<user, cookie, challenge, history>>

CountableAlways(code) == TRUE   \* defect: counts a guess on the word of the copy read
Countable(code) == ~code.consumed /\ code.attempts < MaxAttempts

RecordFailedAttempt(c) ==
    /\ Doing(c, "record")
    /\ codes' = [codes EXCEPT ![req[c].id].attempts =
                    IF Countable(codes[req[c].id]) THEN @ + 1 ELSE @]
    /\ Done(c)
    /\ UNCHANGED <<user, cookie, challenge, history>>

ClaimableTwice(code) ==   \* defect: consumedAt: null forgotten
    code.attempts < MaxAttempts /\ ~code.expired
Claimable(code) ==
    ~code.consumed /\ code.attempts < MaxAttempts /\ ~code.expired

Claimed(i) ==
    LET code == codes[i] IN
    [codes EXCEPT ![i] =
        [code EXCEPT !.attempts = @ + 1, !.consumed = TRUE, !.claims = @ + 1]]

(* The transactions of verify-email and reset-password: both roll back     *)
(* when the claim fails.                                                   *)
VerifyEmail(c) ==
    /\ Doing(c, "verify")
    /\ IF Claimable(codes[req[c].id])
       THEN /\ codes' = Claimed(req[c].id)
            /\ user' = [user EXCEPT !.emailVerified = TRUE]
            /\ cookie' = [cookie EXCEPT ![c] = Token("code", user.sessionVersion, resets)]
       ELSE UNCHANGED <<codes, user, cookie>>
    /\ Done(c)
    /\ UNCHANGED <<challenge, history>>

ResetPassword(c) ==
    /\ Doing(c, "reset")
    /\ IF Claimable(codes[req[c].id])
       THEN /\ codes' = Claimed(req[c].id)
            /\ user' = [user EXCEPT !.sessionVersion = @ + 1]
            /\ cookie' = [cookie EXCEPT ![c] = NoToken]
            /\ resets' = resets + 1
       ELSE UNCHANGED <<codes, user, cookie, resets>>
    /\ Done(c)
    /\ UNCHANGED <<challenge, confirmed, welcomed>>

-----------------------------------------------------------------------------
(* Signing up, resending a code, asking for a reset.                       *)

Signup(c) ==
    /\ Idle(c) /\ ~user.exists /\ RoomForCode
    /\ Proceed(c, [Rest EXCEPT !.op = "create"])
    /\ UNCHANGED <<user, codes, cookie, challenge, history>>

(* The email is unique: the second of two signups ends in P2002. *)
CreateUser(c) ==
    /\ Doing(c, "create")
    /\ IF user.exists
       THEN Done(c) /\ UNCHANGED user
       ELSE /\ user' = [user EXCEPT !.exists = TRUE]
            /\ Proceed(c, [Rest EXCEPT !.op = "issue", !.type = "EMAIL_VERIFICATION",
                                     !.signup = TRUE])
    /\ UNCHANGED <<codes, cookie, challenge, history>>

AskForCode(c, type) ==
    /\ Idle(c) /\ user.exists /\ RoomForCode
    /\ Proceed(c, [Rest EXCEPT !.op = "issue", !.type = type])
    /\ UNCHANGED <<user, codes, cookie, challenge, history>>

ResendVerification(c) == ~user.emailVerified /\ AskForCode(c, "EMAIL_VERIFICATION")
ForgotPassword(c)     == AskForCode(c, "PASSWORD_RESET")

-----------------------------------------------------------------------------
(* Sessions.                                                               *)

(* The user is read, then bcrypt compares the password. *)
Login(c) ==
    /\ Idle(c) /\ user.exists /\ user.emailVerified
    /\ Proceed(c, [Rest EXCEPT !.op = "login", !.version = user.sessionVersion,
                             !.resets = resets, !.second = user.twoFactorEnabled])
    /\ UNCHANGED <<user, codes, cookie, challenge, history>>

SignedVersionNow(c) == user.sessionVersion   \* defect: signs the version read last
SignedVersion(c) == req[c].version

AnswerLogin(c) ==
    /\ Doing(c, "login")
    /\ LET token == Token("password", SignedVersion(c), req[c].resets) IN
       IF req[c].second
       THEN challenge' = [challenge EXCEPT ![c] = token] /\ UNCHANGED cookie
       ELSE cookie' = [cookie EXCEPT ![c] = token] /\ UNCHANGED challenge
    /\ Done(c)
    /\ UNCHANGED <<user, codes, history>>

(* verifyTwoFactorChallenge, verifySessionToken: there is one to verify.   *)
Signed(token) == token # NoToken

(* POST /login/2fa with a right code: nothing is awaited after the read.   *)
LoginSecond(c) ==
    /\ Idle(c) /\ Signed(challenge[c])
    /\ user.twoFactorEnabled /\ challenge[c].version = user.sessionVersion
    /\ cookie' = [cookie EXCEPT
            ![c] = Token("second factor", user.sessionVersion, challenge[c].resets)]
    /\ UNCHANGED <<user, codes, challenge, req, history>>

Logout(c) ==
    /\ Idle(c)
    /\ cookie' = [cookie EXCEPT ![c] = NoToken]
    /\ UNCHANGED <<user, codes, challenge, req, history>>

(* GET /me, sessionAuthMiddleware, authenticateDashboardSession. *)
Accepted(token) == Signed(token) /\ token.version = user.sessionVersion

SessionRequest(c, r) ==
    /\ Idle(c) /\ Accepted(cookie[c])
    /\ Proceed(c, r)
    /\ UNCHANGED <<user, codes, cookie, challenge>>

-----------------------------------------------------------------------------
(* Two-factor authentication.                                              *)

Generate(c) == SessionRequest(c, [Rest EXCEPT !.op = "generate"]) /\ UNCHANGED history

StorePending(c) ==
    /\ Doing(c, "generate")
    /\ \E s \in Secrets : user' = [user EXCEPT !.pendingSecret = s]
    /\ Done(c)
    /\ UNCHANGED <<codes, cookie, challenge, history>>

Confirm(c) ==
    /\ user.pendingSecret # 0 /\ RoomForVersion
    /\ SessionRequest(c, [Rest EXCEPT !.op = "enable", !.secret = user.pendingSecret,
                                      !.resets = resets])
    /\ confirmed' = confirmed \cup {user.pendingSecret}
    /\ UNCHANGED <<resets, welcomed>>

(* The update is not conditional on what was read. *)
EnabledKeepingVersion(c) ==   \* defect: sessionVersion is not incremented
    [user EXCEPT !.twoFactorEnabled = TRUE, !.twoFactorSecret = req[c].secret,
                 !.pendingSecret = 0]
Enabled(c) ==
    [user EXCEPT !.twoFactorEnabled = TRUE, !.twoFactorSecret = req[c].secret,
                 !.pendingSecret = 0, !.sessionVersion = @ + 1]

Enable(c) ==
    /\ Doing(c, "enable")
    /\ user' = Enabled(c)
    /\ cookie' = [cookie EXCEPT ![c] = Token("enabling", user'.sessionVersion, req[c].resets)]
    /\ Done(c)
    /\ UNCHANGED <<codes, challenge, history>>

-----------------------------------------------------------------------------
(* A query fails or the replica dies: what was committed stays. *)
Fail(c) ==
    /\ ~Idle(c)
    /\ Done(c)
    /\ UNCHANGED <<user, codes, cookie, challenge, history>>

Start(c) ==
    \/ Signup(c) \/ Login(c) \/ LoginSecond(c) \/ Logout(c)
    \/ Generate(c) \/ Confirm(c)
    \/ ResendVerification(c) \/ ForgotPassword(c)
    \/ \E right \in BOOLEAN : SubmitVerification(c, right) \/ SubmitReset(c, right)

Handle(c) ==
    \/ CreateUser(c) \/ IssueBegin(c) \/ IssueCommit(c) \/ IssueConflict(c)
    \/ ConsumeAuthCode(c) \/ RecordFailedAttempt(c) \/ VerifyEmail(c) \/ ResetPassword(c)
    \/ AnswerLogin(c) \/ StorePending(c) \/ Enable(c)

Next ==
    \/ \E i \in DOMAIN codes : Expire(i)
    \/ \E c \in Clients : Start(c) \/ Handle(c) \/ Fail(c)

(* A handler that has started runs to its end. *)
Spec == Init /\ [][Next]_vars /\ \A c \in Clients : WF_vars(Handle(c))

-----------------------------------------------------------------------------
(* Properties.                                                             *)

Ops == {"none", "create", "issue", "issuing", "consume", "record", "verify", "reset",
        "login", "generate", "enable"}
Ways == {"nobody", "password", "second factor", "code", "enabling"}

Users == [exists : BOOLEAN, emailVerified : BOOLEAN, twoFactorEnabled : BOOLEAN,
          sessionVersion : 0..MaxVersion, twoFactorSecret : Secrets \cup {0},
          pendingSecret : Secrets \cup {0}]
Code == [type : Types, attempts : 0..MaxAttempts, expired : BOOLEAN, consumed : BOOLEAN,
         discarded : BOOLEAN, claims : Nat]
Tokens == [by : Ways, version : 0..MaxVersion, resets : 0..MaxVersion]

Requests ==
    [op : Ops, type : Types \cup {"none"}, id : 0..MaxCodes, tries : 0..2,
     version : 0..MaxVersion, resets : 0..MaxVersion, second : BOOLEAN, signup : BOOLEAN,
     secret : Secrets \cup {0}, found : SUBSET (1..MaxCodes),
     seen : UNION {[ids -> [consumed : BOOLEAN, attempts : 0..MaxAttempts]] :
                      ids \in SUBSET (1..MaxCodes)}]

(* Every column and every copy a handler keeps has a value of its type: no *)
(* guess is counted beyond the limit and no code is issued at a fourth try.*)
TypeOK ==
    /\ user \in Users
    /\ codes \in Seq(Code) /\ Len(codes) <= MaxCodes
    /\ cookie \in [Clients -> Tokens] /\ challenge \in [Clients -> Tokens]
    /\ req \in [Clients -> Requests]
    /\ resets \in 0..MaxVersion /\ confirmed \subseteq Secrets /\ welcomed \in BOOLEAN

(* However many requests issue codes at once, at most one code of a type   *)
(* can be used, and it is one whose email has not been called off: the     *)
(* person always has the code that counts.                                 *)
OneUsableCode ==
    \A i, j \in DOMAIN codes :
        (codes[i].type = codes[j].type /\ ~codes[i].consumed /\ ~codes[j].consumed) =>
            i = j /\ ~codes[i].discarded

(* Codes guard the account: one is claimed at most once and is then spent, *)
(* only a claimed code verifies the email or lets anybody in, every reset  *)
(* spends a code of its own, and a signup that was answered 201 has left a *)
(* code to go on with.                                                     *)
ClaimedCodes(type) == {i \in DOMAIN codes : codes[i].type = type /\ codes[i].claims > 0}
CodesGuardAccount ==
    /\ \A i \in DOMAIN codes : codes[i].claims <= 1 /\ (codes[i].claims = 1 => codes[i].consumed)
    /\ (user.emailVerified \/ \E c \in Clients : Signed(cookie[c])) =>
            ClaimedCodes("EMAIL_VERIFICATION") # {}
    /\ Cardinality(ClaimedCodes("PASSWORD_RESET")) = resets
    /\ welcomed => \E i \in DOMAIN codes : codes[i].type = "EMAIL_VERIFICATION"

(* A session that is accepted rests on a password, code or second factor   *)
(* that was checked after the last reset, also when the reset committed    *)
(* between the check and the signature.  The session 2fa/enable hands out  *)
(* is the exception: its update is not conditional on the version checked. *)
ResetEndsLogins ==
    \A c \in Clients :
        Accepted(cookie[c]) /\ cookie[c].by # "enabling" => cookie[c].resets = resets

(* Once two-factor authentication is on, no session earned by a password   *)
(* alone is accepted, not even one whose login was under way, and the      *)
(* secret in force is one the user gave a right code for.                  *)
TwoFactorSound ==
    user.twoFactorEnabled =>
        /\ user.twoFactorSecret \in confirmed
        /\ \A c \in Clients : Accepted(cookie[c]) => cookie[c].by # "password"

(* What has ended stays ended: a spent code is not usable again, however   *)
(* late a handler writes that had read it before; a session or challenge   *)
(* that was refused is refused for ever; and the second factor stays on.   *)
EndedForGood ==
    [][/\ \A i \in DOMAIN codes : codes[i].consumed => codes'[i].consumed
       /\ \A c \in Clients : ~Accepted(cookie[c]) => cookie'[c] # cookie[c] \/ ~Accepted(cookie[c])'
       /\ \A c \in Clients :
              challenge[c].version # user.sessionVersion /\ challenge'[c] = challenge[c] =>
                  challenge[c].version # user'.sessionVersion
       /\ user.twoFactorEnabled => user'.twoFactorEnabled]_vars

(* Together, and nothing else happens: of handlers that overlap, each      *)
(* takes effect at one instant, as AccountContract has it.  A code is      *)
(* usable if it may be claimed, and a session, challenge or login counts   *)
(* only while its version is the account's.                                *)
Proven(r) ==
    IF r.op = "login" /\ r.version = user.sessionVersion
    THEN IF r.second THEN "challenge" ELSE "password"
    ELSE "nothing"

Contract == INSTANCE AccountContract WITH
    verified   <- ClaimedCodes("EMAIL_VERIFICATION") # {},
    guarded    <- user.twoFactorEnabled,
    usable     <- {type \in Types : \E i \in Outstanding(type) : Claimable(codes[i])},
    session    <- [c \in Clients |-> IF Accepted(cookie[c]) THEN cookie[c].by ELSE "nobody"],
    proven     <- [c \in Clients |-> Proven(req[c])],
    challenged <- {c \in Clients : Accepted(challenge[c])},
    enabling   <- {c \in Clients : Doing(c, "enable")}
ImplementsContract == Contract!Safety
=============================================================================
