----------------------------- MODULE MCIdentity -----------------------------
(* Sign-in of a few people, with every record small enough to enumerate. *)
EXTENDS Identity
=============================================================================
