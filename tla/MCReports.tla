----------------------------- MODULE MCReports -----------------------------
(* Three runs that report to one directory, in the constellations that     *)
(* make a difference to those who merge their reports.                     *)
EXTENDS MergingTool

MCRun == {"r1", "r2", "r3"}

Thread1 == [pid |-> 1, tid |-> 1, app |-> "a", mtime |-> 1, metric |-> "rms", res |-> 1,
            cct |-> FALSE, incremental |-> FALSE]
Thread2 == [Thread1 EXCEPT !.tid = 2]
Other == [Thread1 EXCEPT !.pid = 2]
Merging == [Thread1 EXCEPT !.pid = 3, !.incremental = TRUE]

MCScenarios == {
  \* two that merge, and one that comes with the pid of the first
  [r1 |-> Merging, r2 |-> [Merging EXCEPT !.pid = 4], r3 |-> [Merging EXCEPT !.incremental = FALSE]],
  \* two threads and one that merges, or another process
  [r1 |-> Thread1, r2 |-> Thread2, r3 |-> Merging],
  [r1 |-> Thread1, r2 |-> Thread2, r3 |-> Other],
  \* what must not be merged: the program compiled again, calling contexts, another
  \* resolution, another program
  [r1 |-> [Thread1 EXCEPT !.mtime = 2], r2 |-> [Other EXCEPT !.cct = TRUE], r3 |-> Merging],
  [r1 |-> [Thread1 EXCEPT !.res = 4], r2 |-> [Other EXCEPT !.app = "b"], r3 |-> Merging],
  [r1 |-> Thread1, r2 |-> Other, r3 |-> [Other EXCEPT !.res = 4]]}
=============================================================================
