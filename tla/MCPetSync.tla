----------------------------- MODULE MCPetSync -----------------------------
(* Small instances of PetSync: two pets of two chunks and one of a single     *)
(* chunk.                                                                     *)
EXTENDS PetSync

CONSTANTS Cat, Dog, Bird

Pets == {Cat, Dog, Bird}
Lengths == [b \in Bundles |-> IF b = Bird THEN 1 ELSE 2]
=============================================================================
