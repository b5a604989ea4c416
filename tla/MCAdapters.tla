----------------------------- MODULE MCAdapters -----------------------------
(* A small instance of Adapters for TLC. *)
EXTENDS Adapters
=============================================================================
