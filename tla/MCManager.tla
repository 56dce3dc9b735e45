------------------------------ MODULE MCManager ------------------------------
(***************************************************************************)
(* Manager for TLC. The instance has two callers, a public key that may    *)
(* hold two different resources, and a private key.                        *)
(***************************************************************************)
EXTENDS Manager
===============================================================================
