---- MODULE MCCustody ----
EXTENDS Custody, TLC
CONSTANTS c1, c2
DesksOf == {{"keys", "backup"}, {"credentials", "rekey"}, {"clients"}}
====
