---------------------------- MODULE LockContract ----------------------------
(***************************************************************************)
(* What an advisory lock promises its callers, whatever file protocol      *)
(* implements it: a client that is granted the lock is alone inside until  *)
(* it leaves or its process dies.  A wait ends in a grant or in an error.  *)
(***************************************************************************)
CONSTANT Client

VARIABLE mode   \* what each client is doing

ModeType == mode \in [Client -> {"out", "waiting", "inside", "lost"}]

ContractInit == mode = [c \in Client |-> "out"]

Request(c) == /\ mode[c] = "out"
              /\ mode' = [mode EXCEPT ![c] = "waiting"]

Grant(c) == /\ mode[c] = "waiting"
            /\ \A d \in Client : mode[d] # "inside"
            /\ mode' = [mode EXCEPT ![c] = "inside"]

GiveUp(c) == /\ mode[c] = "waiting"
             /\ mode' = [mode EXCEPT ![c] = "out"]

Leave(c) == /\ mode[c] = "inside"
            /\ mode' = [mode EXCEPT ![c] = "out"]

\* A process takes all of its clients with it.
Lose(S) == mode' = [c \in Client |-> IF c \in S THEN "lost" ELSE mode[c]]

ContractNext == \/ \E c \in Client : Request(c) \/ Grant(c) \/ GiveUp(c) \/ Leave(c)
                \/ \E S \in SUBSET Client : Lose(S)

ContractSpec == ContractInit /\ [][ContractNext]_mode

-----------------------------------------------------------------------------
(* At most one client is inside: the serialization every user of           *)
(* withAdvisoryLockUsing relies on.                                        *)
AtMostOneInside ==
  \A c, d \in Client : mode[c] = "inside" /\ mode[d] = "inside" => c = d
=============================================================================
