----------------------------- MODULE MCAccounts -----------------------------
(* Two spellings of one name, and two names of their own.  Handlers are      *)
(* alike, and so are passwords and the two other names.                      *)
EXTENDS Accounts, TLC

CONSTANTS alice, ALICE, bob, carol

MCFold == [name \in Names |-> IF name = ALICE THEN alice ELSE name]

Alike == Permutations(Handlers) \cup Permutations(Passwords) \cup Permutations({bob, carol})
=============================================================================
