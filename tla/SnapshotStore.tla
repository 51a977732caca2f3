--------------------------- MODULE SnapshotStore ---------------------------
(* What the disk of one replica promises, with no files, no chain and no     *)
(* crash in it: a block device with named snapshots.                         *)
(*   live      what a read of each block of the device returns               *)
(*   history   the snapshots the user can go back to, oldest first           *)
(*   asked     the snapshots whose deletion was requested                    *)
(* A snapshot disappears only because its deletion was asked for, or because *)
(* the device was reverted to an older one; its contents never change.       *)
EXTENDS Sequences, Naturals

CONSTANTS
    Blocks,    \* the blocks of the device
    Values,    \* what a block can hold
    Snapshots  \* the names a snapshot can have

VARIABLES live, history, asked

vars == <<live, history, asked>>

Contents == [Blocks -> Values]

Init == /\ live \in Contents
        /\ history = <<>>
        /\ asked = {}

Write(b, v) == /\ live' = [live EXCEPT ![b] = v]
               /\ UNCHANGED <<history, asked>>

Taken == {history[i].name : i \in 1 .. Len(history)}

Take(n) == /\ n \notin Taken \union asked
           /\ history' = Append(history, [name |-> n, contents |-> live])
           /\ UNCHANGED <<live, asked>>

\* the name of a snapshot that is gone can be used again
Forget(n) == /\ n \notin Taken
             /\ asked' = asked \ {n}
             /\ UNCHANGED <<live, history>>

\* a request to delete, for the one snapshot of that name or for none
Delete(n) == /\ asked' = asked \union {n}
             /\ history' = SelectSeq(history, LAMBDA e : e.name # n)
             /\ UNCHANGED live

Revert(i) == /\ live' = history[i].contents
             /\ history' = SubSeq(history, 1, i)
             /\ UNCHANGED asked

Next == \/ \E b \in Blocks, v \in Values : Write(b, v)
        \/ \E n \in Snapshots : Take(n) \/ Forget(n) \/ Delete(n)
        \/ \E i \in 1 .. Len(history) : Revert(i)

Spec == Init /\ [][Next]_vars
=============================================================================
