------------------------------ MODULE MCCourse ------------------------------
(* Instance of CourseControl for TLC.                                      *)
EXTENDS CourseControl, TLC

CONSTANTS f1, f2

MCFinalizers == {f1, f2}

MCOneFinalizer == {f1}

(* The first lecture's source is there; the second one's is an empty file. *)
MCSources == {<<"ready", "empty">>}

(* Three episodes when nothing fails, two when something does.             *)
MCNext == CourseNext /\ (faults' > 0 => Len(episodes') <= 2)

MCSpec == CourseInit /\ [][MCNext]_courseVars /\ CourseFairness
=============================================================================
