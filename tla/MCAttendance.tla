---------------------------- MODULE MCAttendance ----------------------------
(* A small instance of Attendance for TLC.                                 *)
EXTENDS Attendance, TLC

CONSTANTS e1, w1, w2, o1, r1, r2

(* Days of three minutes; date 0 is a Monday. At home the clocks go back a *)
(* minute on that day, which makes it four minutes long; in the other zone *)
(* they go forward a minute. Work lasts from minute 0 to minute 1 with no  *)
(* grace, and less than one minute makes half a day. The other settings    *)
(* choose the other zone, or close on Mondays.                             *)
Office == [timezone |-> "home", start |-> 0, end |-> 1, grace |-> 0, minimum |-> 1,
           overtime |-> TRUE, workingDays |-> 0..4]
MC_Setting == {Office, [Office EXCEPT !.timezone = "away", !.minimum = 2],
               [Office EXCEPT !.workingDays = 1..5, !.overtime = FALSE]}
MC_Zone == {"home", "away"}
MC_Offset == [z \in MC_Zone |-> [i \in 0..LastInstant |->
                IF z = "home" THEN IF i < 2 THEN 0 ELSE -1
                ELSE IF i < 1 THEN 0 ELSE 1]]
MC_Date == 0..1
MC_FirstHoliday == [d \in MC_Date |-> IF d = 0 THEN "inactive" ELSE "none"]
MC_Workers == {w1, w2}
Symmetry == Permutations(MC_Workers) \cup Permutations({r1, r2})
=============================================================================
