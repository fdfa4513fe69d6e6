-------------------------- MODULE MCConnLifecycle --------------------------
(***************************************************************************)
(* One connection, more streams than may be open at a time.                *)
(***************************************************************************)
EXTENDS ConnLifecycle
=============================================================================
