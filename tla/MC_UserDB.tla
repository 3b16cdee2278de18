------------------------------ MODULE MC_UserDB ------------------------------
(* Small instances of UserDB for TLC. *)
EXTENDS UserDB, TLC

CONSTANTS chan1, alice, bob, uA, uB, hA, hB, pw1, pw2

\* Files of channel chan1: an owner, and a second entry that may be there.
Owner == [realname |-> alice, match |-> hA, passwd |-> pw1,
          access |-> OWNER_ACCESS, suspend |-> FALSE]
Second == [realname |-> bob, match |-> hA, passwd |-> pw1,
           access |-> 400, suspend |-> FALSE]
OldSecond == [Second EXCEPT !.passwd = NoPw]

OneOwner == {<<Owner>>}
OwnerAndSecond == {<<Owner, Second>>}
OwnerHoleSecond == {<<Owner, NULL, Second>>}
OwnerAndOld == {<<Owner, OldSecond>>}

OneBucket == [c \in {chan1, Star} |-> 0]
TwoBuckets == (chan1 :> 1) @@ (Star :> 0)

\* Heap cells are alike: which free one is taken does not matter.
Alike == Permutations(Regs \ {Master}) \cup Permutations(Vals)
         \cup Permutations(Qids)
=============================================================================
