----------------------------- MODULE MCIdpUserSync -----------------------------
(* Small instances of IdpUserSync.                                         *)
EXTENDS IdpUserSync, TLC

\* Names, addresses and table rows are interchangeable; external rows too.
Alike == Permutations(Names) \union Permutations(Emails) \union Permutations(Slots)
         \union Permutations(Ids)
=============================================================================
