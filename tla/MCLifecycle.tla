---------------------------- MODULE MCLifecycle -----------------------------
(* Model-checking instance of Lifecycle: two addresses, of which another   *)
(* program holds the TCP half of the second.                               *)
EXTENDS Lifecycle

MCAddrs == <<"a", "b">>

MCTaken == {<<"b", "tcp">>}
=============================================================================
