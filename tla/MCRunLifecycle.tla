--------------------------- MODULE MCRunLifecycle ---------------------------
(* Two run ids, one job, one restore point, and a pool resized between one   *)
(* and two slots (the setting 0 selects the default).                        *)
EXTENDS RunLifecycle

CONSTANTS r1, r2, job, point

MCRuns == {r1, r2}
MCJobs == {job}
MCPoints == {point}
MCSettings == {0, 3}
=============================================================================
