------------------------------ MODULE MCJobSystem ------------------------------
(***************************************************************************)
(* JobSystem on small instances: a wheel of 3 slots and a unit of 2 ms.    *)
(* Of the intervals tested, one is below the unit, one is the unit, which  *)
(* the test of the scheduler asks for, and one is the longest;             *)
(* the nearest ones on either side are refused by addJob.                  *)
(***************************************************************************)
EXTENDS JobSystem

TestedIntervals == {0, 1, 2, 5, 6}

\* One slice: enough for the run that is about the serializer alone.
ShortInterval == {2}
===============================================================================
