-------------------------- MODULE MCThreadSorting --------------------------
(***************************************************************************)
(* Small instances of ThreadSorting for TLC.  Each scenario is the set of  *)
(* job kinds in play: the actions of the other kinds are switched off.     *)
(***************************************************************************)
EXTENDS ThreadSorting

CONSTANTS t1, t2

One == {t1}
Two == {t1, t2}

\* What users ask for: sorts, moves, re-routes, a taxonomy import.
Requests == {"classify", "triage", "resume", "unrouted", "needsReview", "migration"}

\* New mail, and the sweeps that find what failed or got stuck.
Recovery == {"liveA", "failed", "stale"}

\* New mail, and the sweep that resumes what the quota deferred.
Quota == {"liveA", "quota"}

\* Two messages of a thread at once: two message sets, two jobs.
Twice == {"liveA", "liveB"}

\* New mail alone.
Mail == {"liveA"}

\* A taxonomy import, and the sweep its comment counts on.
Import == {"migration", "stale"}
=============================================================================
