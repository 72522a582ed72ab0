------------------------------ MODULE MCAsyncLog ------------------------------
(***************************************************************************)
(* AsyncLog on a small instance: two threads, three lines, three days.     *)
(***************************************************************************)
EXTENDS AsyncLog

\* Years of two days: the third day is the first of the next year.
TwoDayYears == [d \in 1 .. MaxDay |-> d % 2]
===============================================================================
