----------------------------- MODULE MCNumbering -----------------------------
(* Numbering with the values and the symmetry of MCBroker.                 *)
EXTENDS MCBroker, Numbering

=============================================================================
