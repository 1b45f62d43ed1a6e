------------------------------ MODULE EventKey ------------------------------
(***************************************************************************)
(* Scheduler::EventKey of src/core/model/scheduler.h and its order: the    *)
(* expiration time first, the unique id as the tie breaker.  The context   *)
(* that the key also carries takes no part in any comparison and is left   *)
(* out.  A key is any record with the fields ts and uid.                   *)
(***************************************************************************)
EXTENDS Naturals

\* Mutant: events due at the same time are not ordered.
Less_timeOnly(a, b) == a.ts < b.ts

Less(a, b) == a.ts < b.ts \/ (a.ts = b.ts /\ a.uid < b.uid)

\* The operations that change an event list.
Operation == {"Insert", "RemoveNext", "Remove"}

\* No element of S comes before e.
IsEarliest(e, S) == e \in S /\ \A f \in S : ~Less(f, e)
=============================================================================
