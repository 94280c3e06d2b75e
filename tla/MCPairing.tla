----------------------------- MODULE MCPairing -----------------------------
(* A small instance of Pairing for TLC. *)
EXTENDS Pairing, TLC

CONSTANTS s1, s2, j1, j2

(* Two people hold the first code, which lets in one; the second is made at *)
(* the same locator, so a late start meets it.                              *)
HandedOut == j1 :> s1 @@ j2 :> s1
============================================================================
