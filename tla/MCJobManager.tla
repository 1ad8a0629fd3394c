---------------------------- MODULE MCJobManager ----------------------------
(* Small workflows for JobManager. *)
EXTENDS JobManager

CONSTANTS a, b, c, d, self, dest, stage

Exit(j, codes) == [type |-> "ExitCode", job |-> j, accepts |-> codes]
Copy == [type |-> "FileStaging", id |-> stage]
File(requirement, wait) == [type |-> "File", file |-> dest, requirement |-> requirement, wait |-> wait]
And(v, w) == [type |-> "And", first |-> v, second |-> w]
Or(v, w) == [type |-> "Or", first |-> v, second |-> w]

TheOrder == <<c, b, a, d>>
TheDest == [x \in {stage} |-> dest]

\* c after both a and b, whatever b's code is; d, after the application, after
\* a or b succeeded.  a needs a staged file; a and b need exit code 0.
FairDepends ==
  [j \in {a, b, c, d} |->
     CASE j = a -> <<Copy>>
       [] j = b -> << >>
       [] j = c -> <<And(Exit(a, {0}), Exit(b, {0, 1}))>>
       [] j = d -> <<Or(Exit(a, {0}), Exit(b, {0}))>>]
FairRequires ==
  [j \in {a, b, c, d} |->
     CASE j = a -> <<Exit(self, {0})>>
       [] j = b -> <<Exit(self, {0, 1})>>
       [] j = c -> <<Exit(self, {0})>>
       [] j = d -> << >>]

\* a kills the workflow; b waits for a file; c needs a or b, and a requirement of
\* c throws once c has ended with 0; d, after the application, needs b.
KillOrder == <<a, b, c, d>>
KillDepends ==
  [j \in {a, b, c, d} |->
     CASE j = a -> << >>
       [] j = b -> <<File("exists", TRUE)>>
       [] j = c -> <<Or(Exit(a, {0}), Exit(b, {0}))>>
       [] j = d -> <<Exit(b, {0}), File("changed", FALSE)>>]
KillRequires ==
  [j \in {a, b, c, d} |->
     CASE j = a -> <<File("notExists", TRUE), Exit(self, {0})>>
       [] j = b -> << >>
       [] j = c -> <<Exit(self, {0}), File("changed", FALSE)>>
       [] j = d -> << >>]
=============================================================================
