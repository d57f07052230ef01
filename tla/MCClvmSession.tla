--------------------------- MODULE MCClvmSession ---------------------------
(* ClvmSession on small programs.  Every class of instruction occurs, before *)
(* and after one that may yield; loops have bodies with a call, an access or *)
(* nothing that enters the host.                                             *)
EXTENDS ClvmSession

MCPrograms == { <<"local", "call", "read", "return">>,
                <<"call", "iter", "access", "return">>,
                <<"local", "loop", "read", "access", "loop", "return">>,
                <<"access", "call", "unknown", "return">> }

=============================================================================
