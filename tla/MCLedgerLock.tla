---------------------------- MODULE MCLedgerLock ----------------------------
(* TLC instance of LedgerLock.                                            *)
EXTENDS LedgerLock

CONSTANTS t1, t2, t3, t4, p1, p2, p3

\* One process with two threads and two with one.
MCProc == [t \in Threads |-> IF t \in {t1, t2} THEN p1 ELSE IF t = t3 THEN p2 ELSE p3]
=============================================================================
