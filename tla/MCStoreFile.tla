---------------------------- MODULE MCStoreFile ----------------------------
(* Two payloads, four records and two alterations of the file.              *)
EXTENDS StoreFile, TLC
Symmetry == Permutations(Payloads)
=============================================================================
