---------------------------- MODULE MCLspServer ----------------------------
(* Small instances of the language server for model checking.              *)
EXTENDS LspServer, TLC

CONSTANTS u1, u2, f1, f2

(* Each document has a file of its own.                                    *)
MCFileOf == u1 :> f1 @@ u2 :> f2

=============================================================================
