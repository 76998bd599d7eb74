----------------------------- MODULE MCAccounts -----------------------------
(* Small instances of Accounts for TLC. *)
EXTENDS Accounts

CONSTANTS p1, p2, U, N

Order(op, key, secret) == [op |-> op, key |-> key, secret |-> secret]

Every == {Order("login", U, FALSE), Order("remove", U, TRUE),
          Order("remove", N, TRUE), Order("remove", U, FALSE), Order("relocate", U, FALSE),
          Order("import", U, FALSE), Order("forget", N, FALSE), Order("forget", N, TRUE)}
Imports == {Order("login", U, FALSE), Order("import", U, FALSE)}
OnlyMoves == {Order("relocate", U, FALSE)}
Logins == {{}, {U}, {N}, {U, N}}
=============================================================================
