---------------------------- MODULE MCInboxSync ----------------------------
(***************************************************************************)
(* Small instances of InboxSync for TLC.                                   *)
(***************************************************************************)
EXTENDS InboxSync, TLC

CONSTANTS t1, t2

One == {t1}
Two == {t1, t2}

\* The threads are interchangeable: nothing chooses between them but time.
Symmetric == Permutations(Threads)
=============================================================================
