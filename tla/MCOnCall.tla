------------------------------- MODULE MCOnCall -------------------------------
(* Instances of OnCall for TLC.  Rotation and Override are numbers, so that    *)
(* their columns can be tuples.  The largest duration is 7, where the code has *)
(* 2^63 - 1.                                                                   *)
EXTENDS OnCall, TLC

\* Shifts of a day of two hours from 1 on; and of 17 hours from 2 on, which
\* overflow and come out as one hour.
Starts  == <<1, 2>>
Types   == <<"daily", "custom">>
Lengths == <<1, 17>>

\* One override for [0, 2) and one for [1, 3).
Froms  == <<0, 1>>
Untils == <<2, 3>>

\* A rotation that was created without start_time.
NoStart == <<0>>
Hourly  == <<"custom">>
One     == <<1>>

Symmetry == Permutations(User)
=============================================================================
