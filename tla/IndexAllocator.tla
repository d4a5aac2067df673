---------------------------- MODULE IndexAllocator ----------------------------
(***************************************************************************)
(* What the allocation of Bitcoin receive addresses promises, whoever      *)
(* performs it and however: a checkout gets the smallest index that was    *)
(* never given out and keeps it.  Indexes are not skipped, so a wallet     *)
(* that looks for payments along the derivation path meets no gap.         *)
(***************************************************************************)
EXTENDS Integers

CONSTANT Owners         \* those who may be given an index

VARIABLE indexOf        \* the index of each owner, NotIssued before it has one

NotIssued == -1

IssuedIndexes == {indexOf[o] : o \in Owners} \ {NotIssued}

SmallestUnissued(n) ==
    /\ n \notin IssuedIndexes
    /\ \A m \in 0 .. n - 1 : m \in IssuedIndexes

AllocatorInit == indexOf = [o \in Owners |-> NotIssued]

Issue(o) ==
    /\ indexOf[o] = NotIssued
    /\ \E n \in {0} \cup {m + 1 : m \in IssuedIndexes} :
           /\ SmallestUnissued(n)
           /\ indexOf' = [indexOf EXCEPT ![o] = n]

AllocatorNext == \E o \in Owners : Issue(o)

AllocatorSpec == AllocatorInit /\ [][AllocatorNext]_indexOf
=============================================================================
