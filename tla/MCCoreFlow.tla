----------------------------- MODULE MCCoreFlow -----------------------------
(* A shop with one customer and room for another, for TLC.                  *)
EXTENDS CoreFlow, TLC

Interchangeable == Permutations(Handler) \union Permutations(Name)
=============================================================================
