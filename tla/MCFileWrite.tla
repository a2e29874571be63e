---------------------------- MODULE MCFileWrite -----------------------------
(* Small instances of FileWrite for TLC. *)
EXTENDS FileWrite, TLC

CONSTANTS v1, v2

\* The two values are alike.
SameValues == Permutations({v1, v2})

\* What an inode holds that nothing leads to is never looked at again.
InUse == << dir, [i \in Inodes \ FreeInodes |-> disk[i]], dirty \ FreeInodes,
            writer, reader, hit >>

\* At most one fault besides killed writers strikes.
OneFault == Cardinality(hit \ {"kill"}) <= 1
=============================================================================
