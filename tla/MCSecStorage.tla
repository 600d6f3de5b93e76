---------------------------- MODULE MCSecStorage ----------------------------
EXTENDS SecStorage, TLC

\* Users are interchangeable, and so are the passwords.
Symmetry == Permutations(Users) \cup Permutations(Passwords)
=============================================================================
