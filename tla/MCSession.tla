----------------------------- MODULE MCSession -----------------------------
(***************************************************************************)
(* Two tabs, a request and a logout in one and a request in the other, or  *)
(* the first of them alone.                                                *)
(***************************************************************************)
EXTENDS Session

CONSTANTS tab, other, page, bye, far

MCHome == [r \in Requests |-> IF r = far THEN other ELSE tab]
=============================================================================
