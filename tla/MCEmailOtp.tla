---------------------------- MODULE MCEmailOtp ----------------------------
(***************************************************************************)
(* Two requests at once, which are alike: for checkout codes without Redis  *)
(* and with the queue, for registrations with Redis.                       *)
(***************************************************************************)
EXTENDS EmailOtp, TLC

CONSTANTS c1, c2

MCSettings ==
  {<<"mongo", "checkout_verification">>, <<"redis", "email_verification">>,
   <<"queue", "checkout_verification">>}

\* A registration, with the queue.
MCQueued == {<<"queue", "email_verification">>}

Symmetry == Permutations({c1, c2})
=============================================================================
