-------------------------- MODULE AccountContract --------------------------
(***************************************************************************)
(* What an account promises to its owner: there are four ways in, by a     *)
(* code, by the password, by the password and a second factor, and by      *)
(* enabling the second factor; a code lets in once; two events end what    *)
(* was begun before them, a new password and the second factor.            *)
(*                                                                         *)
(* A login is one that may end in a session: the event that ends the       *)
(* sessions ends it too.  The contract knows nothing of versions, tokens   *)
(* and their copies, transactions or attempts.  Accounts is shown to       *)
(* implement it.                                                           *)
(***************************************************************************)
CONSTANT Clients

VARIABLES
    verified,    \* a code sent to the address has come back
    guarded,     \* a second factor is asked for
    usable,      \* types of which there is a code that may be claimed
    session,     \* how each client was let in
    proven,      \* what the login a client is in will bring
    challenged,  \* clients that may go on with the second factor
    enabling     \* clients whose second factor is about to be enabled

vars == <<verified, guarded, usable, session, proven, challenged, enabling>>

Out      == [c \in Clients |-> "nobody"]
Unproven == [c \in Clients |-> "nothing"]

Init ==
    /\ verified = FALSE /\ guarded = FALSE /\ usable = {}
    /\ session = Out /\ proven = Unproven /\ challenged = {} /\ enabling = {}

Admit(c, way) == session' = [session EXCEPT ![c] = way]

-----------------------------------------------------------------------------
(* Codes. *)

Issue(type) ==
    /\ usable' = usable \cup {type}
    /\ UNCHANGED <<verified, guarded, session, proven, challenged, enabling>>

(* It is too old, or was guessed at too often. *)
Spoil(type) ==
    /\ usable' = usable \ {type}
    /\ UNCHANGED <<verified, guarded, session, proven, challenged, enabling>>

Claim(type) == type \in usable /\ usable' = usable \ {type}

VerifyEmail(c) ==
    /\ Claim("EMAIL_VERIFICATION")
    /\ verified' = TRUE /\ Admit(c, "code")
    /\ UNCHANGED <<guarded, proven, challenged, enabling>>

(* Nobody is in, or on his way in, any more.  Only the second factor of    *)
(* who was in before may still be enabled.                                 *)
ResetPassword ==
    /\ Claim("PASSWORD_RESET")
    /\ session' = Out /\ proven' = Unproven /\ challenged' = {}
    /\ UNCHANGED <<verified, guarded, enabling>>

-----------------------------------------------------------------------------
(* Sessions. *)

Login(c) ==
    /\ verified
    /\ proven' = [proven EXCEPT ![c] = IF guarded THEN "challenge" ELSE "password"]
    /\ UNCHANGED <<verified, guarded, usable, session, challenged, enabling>>

AnswerLogin(c) ==
    /\ \/ proven[c] = "password"  /\ Admit(c, "password") /\ UNCHANGED challenged
       \/ proven[c] = "challenge" /\ challenged' = challenged \cup {c} /\ UNCHANGED session
    /\ proven' = [proven EXCEPT ![c] = "nothing"]
    /\ UNCHANGED <<verified, guarded, usable, enabling>>

LoginSecond(c) ==
    /\ guarded /\ c \in challenged
    /\ Admit(c, "second factor")
    /\ UNCHANGED <<verified, guarded, usable, proven, challenged, enabling>>

Confirm(c) ==
    /\ session[c] # "nobody"
    /\ enabling' = enabling \cup {c}
    /\ UNCHANGED <<verified, guarded, usable, session, proven, challenged>>

Enable(c) ==
    /\ c \in enabling /\ enabling' = enabling \ {c}
    /\ guarded' = TRUE
    /\ session' = [Out EXCEPT ![c] = "enabling"] /\ proven' = Unproven /\ challenged' = {}
    /\ UNCHANGED <<verified, usable>>

(* A client leaves, a request of his fails, or an answer that is not good  *)
(* any more takes the place of one that is.                                *)
Leave(c) ==
    /\ session' \in {session, [session EXCEPT ![c] = "nobody"]}
    /\ proven' = [proven EXCEPT ![c] = "nothing"]
    /\ challenged' \in {challenged, challenged \ {c}}
    /\ enabling' = enabling \ {c}
    /\ UNCHANGED <<verified, guarded, usable>>

Next ==
    \/ \E type \in {"EMAIL_VERIFICATION", "PASSWORD_RESET"} : Issue(type) \/ Spoil(type)
    \/ ResetPassword
    \/ \E c \in Clients : \/ VerifyEmail(c) \/ Login(c) \/ AnswerLogin(c) \/ LoginSecond(c)
                          \/ Confirm(c) \/ Enable(c) \/ Leave(c)

Safety == Init /\ [][Next]_vars
=============================================================================
