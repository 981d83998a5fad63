---------------------------- MODULE ReportMerge ----------------------------
(***************************************************************************)
(* Report files and what merge.c does with one: merge_report reads it line *)
(* by line and adds its tuples to those in memory, unless a line of its    *)
(* header does not fit.  Tuples are added up, so a report is known by how  *)
(* often it counts each run.                                               *)
(***************************************************************************)
EXTENDS Integers

CONSTANTS Run,      \* whatever writes one report: a thread, or a whole process
          NoValue   \* of a field of the runtime that is not set

Nothing == [r \in Run |-> 0]
Only(r) == [Nothing EXCEPT ![r] = 1]
a ++ b == [r \in Run |-> a[r] + b[r]]

\* What has to fit: the lines e, i, t and a of the header.
Field == {"mtime", "metric", "res", "app"}

Fits(rt, f, x) == rt[x] \in {NoValue, f[x]}

\* A plausible bug: a program is known by its name alone.
AgreesByName(rt, f, anyApp) ==
  \A x \in Field \ {"mtime"} : Fits(rt, f, x) \/ (x = "app" /\ anyApp)

\* Every program must fit, but for its name when aprof-helper merges all.
Agrees(rt, f, anyApp) ==
  \A x \in Field : Fits(rt, f, x) \/ (x = "app" /\ anyApp)

\* The unset fields are taken from the report, and the k line counts.
Adopted(rt, f) ==
  [rt EXCEPT !.mtime = f.mtime, !.metric = f.metric, !.res = f.res,
             !.app = IF @ = NoValue THEN f.app ELSE @,
             !.extra = @ ++ f.k]

\* The r and p lines: each tuple is added to the one of the same routine and size.
TuplesAdded(rt, f) == [rt EXCEPT !.sources = @ ++ f.sources]

\* merge_report: what it returns, and the runtime it leaves.
\*  - The resolution in the name of the file is checked before it is opened.
\*  - An empty file is merged.
\*  - A report of another program is rejected before its first r line.
\*  - One with calling contexts is rejected at its first q line, when its k has
\*    been counted (merge.c:198, merge.c:630).
merge_report(rt, f, anyApp) ==
  IF ~ Fits(rt, f, "res") THEN [ok |-> FALSE, rt |-> rt]
  ELSE IF f.state = "empty" THEN [ok |-> TRUE, rt |-> rt]
  ELSE IF ~ Agrees(rt, f, anyApp) THEN [ok |-> FALSE, rt |-> rt]
  ELSE IF f.cct THEN [ok |-> FALSE, rt |-> Adopted(rt, f)]
  ELSE [ok |-> TRUE, rt |-> TuplesAdded(Adopted(rt, f), f)]
=============================================================================
