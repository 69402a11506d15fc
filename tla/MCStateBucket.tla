--------------------------- MODULE MCStateBucket ----------------------------
(* Instances of StateBucket for TLC.                                         *)
EXTENDS StateBucket, TLC

CONSTANTS p1, p2, p3

Advisory(onCorrupt, onVersionMismatch, uses) ==
  [lock |-> "advisory", onCorrupt |-> onCorrupt, onVersionMismatch |-> onVersionMismatch, uses |-> uses]

\* Corrupt content is dropped, quarantined by operations that hold the lock, or refused.
Sound == {Advisory("discard", "migrate", {"get", "update", "set", "remove"}),
          Advisory("quarantine", "discard", {"update"}),
          Advisory("quarantine", "migrate", {"update", "remove"}),
          Advisory("fail", "discard", {"get", "update"})}

\* Corrupt content is quarantined by a get, which takes no lock.
ReadersQuarantine == {Advisory("quarantine", "discard", {"get", "update"})}

ProcessSymmetry == Permutations(Process)
=============================================================================
