------------------------------- MODULE MCCosi -------------------------------
(***************************************************************************)
(* A small instance of CosiDriver.  b1 is to be deleted with its Bucket,   *)
(* b2 says nothing and is kept.                                            *)
(***************************************************************************)
EXTENDS CosiDriver, TLC

CONSTANTS b1, b2, a1, a2, s1, s2

MCIds == [b \in Buckets |-> IF b = b1 THEN "n1" ELSE "n2"]

Plain == [quota |-> "none", rules |-> FALSE, replication |-> FALSE, hint |-> None, policy |-> "Delete"]
MCParams == [b \in Buckets |->
                IF b = b1 THEN [Plain EXCEPT !.quota = "set", !.rules = TRUE, !.replication = TRUE]
                ELSE [Plain EXCEPT !.quota = "set", !.policy = ""]]

OneBucket == [a \in Accesses |-> b1]
MCKeys    == [a \in Accesses |-> IF a = a1 THEN "k1" ELSE "k2"]
MCAccess  == [a \in Accesses |->
                [auth |-> "Key", type |-> IF a = a1 THEN "ReadOnly" ELSE "ReadWrite", existing |-> None]]

Symmetry == Permutations(Slots)
=============================================================================
