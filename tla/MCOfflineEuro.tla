---------------------------- MODULE MCOfflineEuro ----------------------------
(***************************************************************************)
(* The circuit on a few elements.  Elements that can be neither lost nor   *)
(* cracked are interchangeable.                                            *)
(***************************************************************************)
EXTENDS OfflineEuro, TLC

Symmetry == Permutations(Devices \ (Strangers \cup Crackable \cup Losable))

=============================================================================
