------------------------------ MODULE MCServer ------------------------------
(* Startup and RateLimiter for TLC.  The two share no state, so they are   *)
(* checked side by side: `part` says which of them a behaviour is about.   *)
EXTENDS Startup, RateLimiter

VARIABLE part

MCInit == part \in {"startup", "limiter"} /\ Init /\ LimiterInit
              /\ (part = "startup" => ~production)
              /\ (part = "limiter" => ~config.production /\ config.complete
                                      /\ \A a \in Approvals : token[a] = Absent)
MCNext == \/ part = "startup" /\ Next /\ UNCHANGED <<part, limiterVars>>
          \/ part = "limiter" /\ LimiterNext /\ UNCHANGED <<part, vars>>
MCSpec == MCInit /\ [][MCNext]_<<part, vars, limiterVars>> /\ Fairness

TypeOK == StartupTypeOK /\ LimiterTypeOK
=============================================================================
