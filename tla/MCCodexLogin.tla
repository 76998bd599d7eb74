---------------------------- MODULE MCCodexLogin ----------------------------
(* Small instances of CodexLogin for TLC. *)
EXTENDS CodexLogin

CONSTANTS p1, p2, A, B

Order(op, key, secret) == [op |-> op, key |-> key, secret |-> secret]

Every == {Order("login", A, FALSE), Order("remove", A, TRUE), Order("remove", A, FALSE),
          Order("import", A, FALSE)}
Registries == {[k \in Keys |-> IF k = A THEN kind ELSE "none"] : kind \in Kinds}
OneLogin == {Order("login", A, FALSE)}
=============================================================================
