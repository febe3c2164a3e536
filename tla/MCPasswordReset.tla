--------------------------- MODULE MCPasswordReset ---------------------------
(***************************************************************************)
(* Instances of PasswordReset for TLC: transactions of a kind are          *)
(* interchangeable.                                                        *)
(***************************************************************************)
EXTENDS PasswordReset, TLC

Symmetric ==
    Permutations(Issues) \cup Permutations(Confirms)
    \cup Permutations(Changes) \cup Permutations(Logins)
=============================================================================
