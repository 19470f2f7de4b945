------------------------------ MODULE MCLoaders ------------------------------
(* Maintenance of the server and installation of the loaders together, for TLC. *)
EXTENDS Loaders
=============================================================================
