------------------------------ MODULE MCFileLock ------------------------------
(* Three processes on one storage file.  Process c may die.                  *)
EXTENDS FileLock

CONSTANTS a, b, c

ThreeProcs == {a, b, c}
OnlyC == {c}
OnlyARetries == [p \in ThreeProcs |-> IF p = a THEN 1 ELSE 0]
===============================================================================
