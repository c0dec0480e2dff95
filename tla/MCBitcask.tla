----------------------------- MODULE MCBitcask -----------------------------
(***************************************************************************)
(* Bitcask instantiated for TLC: the .cfg files give the keys, values and *)
(* Readers as model values and the configuration and bounds as numbers.   *)
(***************************************************************************)
EXTENDS Bitcask

\* Fragmentation fractions (dead / (dead + live)) used by the .cfg files.
FragHalf == <<1, 2>>
FragNever == <<1, 1>>

\* Keys, values and Readers are only compared for equality.
Symmetry == Permutations(Keys) \cup Permutations(Values) \cup Permutations(Readers)

=============================================================================
