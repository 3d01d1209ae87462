------------------------------ MODULE MCAccounts ------------------------------
(***************************************************************************)
(* Anna has an account with a saved route and a token of an earlier day    *)
(* that is about to expire; Cleo comes to register.  An address is written *)
(* as it should be, in capitals with blanks around it, or broken.  One     *)
(* password is just long enough for bcrypt, one shares its 72 bytes and    *)
(* goes on, one has too few characters.                                    *)
(***************************************************************************)
EXTENDS Accounts, TLC

MCAddresses == {"anna", "cleo", "typo"}

Spelled(who, upper, padded, wellFormed) ==
  [address |-> who, upper |-> upper, padded |-> padded, wellFormed |-> wellFormed]

MCSpellings == {Spelled("anna", FALSE, FALSE, TRUE), Spelled("cleo", FALSE, FALSE, TRUE),
                Spelled("cleo", TRUE, TRUE, TRUE), Spelled("typo", FALSE, FALSE, FALSE)}

Password(head, runes, bytes) == [head |-> head, runes |-> runes, bytes |-> bytes]
MCPasswords == {Password("full", 72, 72), Password("full", 80, 80),
                Password("plain", 10, 12), Password("short", 9, 18)}

MCLimits == {1, 201}

Account(id, who, head) ==
  [id |-> id, email |-> Spelled(who, FALSE, FALSE, TRUE), hash |-> head]
Route(id, owner) == [id |-> id, owner |-> owner]

MCDatabases == {
  [accounts |-> {Account(1, "anna", "full")}, routes |-> {Route(2, 1)},
   tokens |-> {[sub |-> 1, expires |-> 1]}, ids |-> 2]}

Symmetry == Permutations(Handlers)

=============================================================================
