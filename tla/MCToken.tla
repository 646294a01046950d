------------------------------- MODULE MCToken ------------------------------
(* The instance of Token for TLC: t1 nests deeper than t2. *)
EXTENDS Token

CONSTANTS t1, t2

MCMaxToks == t1 :> 3 @@ t2 :> 2

MCCalls == t1 :> {"gettoken", "token_swap", "yield"}
             @@ t2 :> {"gettoken", "gettoken_shared", "trytoken", "sleep"}
=============================================================================
