------------------------------ MODULE MCPlayer ------------------------------
(* Instances of Old3dsPlayer for TLC. *)
EXTENDS Old3dsPlayer

\* Empty, short, as long as the bench allows, and longer; whole, damaged, or
\* without a valid header.
MCEmbedded == [frames : {0, 2, 3, 4}, end : {"done", "error", "bad_header"}]
=============================================================================
