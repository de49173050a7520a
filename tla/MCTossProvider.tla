--------------------------- MODULE MCTossProvider ---------------------------
(* Tokens and limiter of the Toss provider for TLC. They share no state: a   *)
(* behaviour is one of the tokens while the bucket rests, or one of the      *)
(* bucket, which may rest for ever once the clock has reached its bound.     *)
EXTENDS MCTossClient, TossLimiter

VARIABLE focus

ProviderInit == Init /\ LimiterInit /\ focus \in {"tokens", "limiter"}

ProviderNext ==
  /\ UNCHANGED focus
  /\ \/ focus = "tokens" /\ Next /\ UNCHANGED limiterVars
     \/ focus = "limiter" /\ (LimiterNext \/ UNCHANGED limiterVars) /\ UNCHANGED vars

ProviderSpec == ProviderInit /\ [][ProviderNext]_<<vars, limiterVars, focus>>
=============================================================================
