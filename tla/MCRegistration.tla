-------------------------- MODULE MCRegistration --------------------------
(* Two browsers race for one email with different passwords (or one of     *)
(* them asks again with another after an error), a third registers         *)
(* another email, and one logs in.                                         *)
EXTENDS Registration

CONSTANTS ann, bob, cleo, login

MCRegistrations == {ann, bob, cleo}
MCLogins == {login}
MCEmailOf == [c \in {ann, bob, cleo, login} |-> IF c = cleo THEN "other" ELSE "wanted"]
MCPasswordOf == [c \in {ann, bob, cleo, login} |-> IF c = bob THEN "bob's" ELSE "ann's"]
=============================================================================
