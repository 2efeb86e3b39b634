------------------------- MODULE MCPhonebookEntries -------------------------
(***************************************************************************)
(* PhonebookEntries for TLC: clients are interchangeable.                  *)
(***************************************************************************)
EXTENDS PhonebookEntries, TLC

KeySymmetry == Permutations(Keys)
=============================================================================
