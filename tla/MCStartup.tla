----------------------------- MODULE MCStartup -----------------------------
(* A small instance of Startup for TLC. *)
EXTENDS Startup, TLC

CONSTANTS none, t1, t2, p1, p2

Token == "api_token"
Duration == "domain_verification_timeout"

MCDefaults == Token :> none @@ Duration :> 300

\* No object, one field, both, and a number that is none.
MCSources ==
  {Nil, Token :> t1, Token :> t2 @@ Duration :> 30, Duration :> Broken, Duration :> 60}
=============================================================================
