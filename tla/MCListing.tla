------------------------------ MODULE MCListing ------------------------------
(* An instance of Listing: a local and an ssh destination.                    *)
EXTENDS Listing

MCKeep == [d \in Dests |-> 1]
MCKind == [d \in Dests |-> IF d = N THEN "ssh" ELSE "local"]
=============================================================================
