----------------------------- MODULE MCHttpMux -----------------------------
(***************************************************************************)
(* Small instances of HttpMux for TLC.                                     *)
(***************************************************************************)
EXTENDS HttpMux

CONSTANTS c1, c2

=============================================================================
