--------------------------- MODULE MCPackageCache ---------------------------
(* A small instance of PackageCache for TLC. *)
EXTENDS PackageCache

CONSTANTS c1, c2
=============================================================================
