---------------------------- MODULE MCLockOrder ----------------------------
(* The lock order of the programs of MCOperationLocks, for TLC.              *)
EXTENDS MCOperationLocks, LockOrder

\* "a" and "b", volumes 1 and 2, the policy lock, the global app, its volume 3.
Ranks ==
  [l \in Lock |-> CASE l[1] \in {"a", "b"} -> 1
                    [] l[1] = "volume" -> IF l[2] = 3 THEN 6 ELSE l[2] + 1
                    [] l[1] = "policy" -> 4
                    [] l[1] = "global" -> 5]
Floors == [f \in Fiber |-> IF f = c THEN 3 ELSE 0]
Launchers == [f \in Fiber |-> IF f = c THEN {"a"} ELSE {}]

\* The phases open after the first instructions of a program.
Opened(program) ==
  LET stack[n \in 0..Len(program)] ==
        IF n = 0 THEN <<>> ELSE After(stack[n - 1], program[n])
  IN  stack

Courses ==
  [f \in Fiber |->
    UNION {{<<Opened(program)[n], SubSeq(program, n + 1, Len(program))>> : n \in 0..Len(program)}
            : program \in Program[f]}]
=============================================================================
