------------------------------ MODULE MCStores ------------------------------
(* What commands share in the user's directories, one part at a time: a      *)
(* bucket, the sources, or the scratch apps.  A behaviour is one of one      *)
(* part, the others rest.                                                    *)
EXTENDS MCStateBucket, MCSourceStore, ScratchApps

VARIABLE used

StoresInit ==
  /\ used \in {"bucket", "sources", "scratch"}
  /\ Init /\ StoreInit /\ ScratchInit
  /\ used # "bucket" => file = Absent /\ spec = CHOOSE s \in Specs : TRUE
  /\ used # "sources" => long

StoresNext ==
  \/ used = "bucket" /\ Next /\ UNCHANGED <<used, storeVars, scratchVars>>
  \/ used = "sources" /\ StoreNext /\ UNCHANGED <<used, vars, scratchVars>>
  \/ used = "scratch" /\ ScratchNext /\ UNCHANGED <<used, vars, storeVars>>

StoresSpec == StoresInit /\ [][StoresNext]_<<used, vars, storeVars, scratchVars>>

\* Processes are exchangeable, and so are sessions, whose names the scratch runners bear too.
StoresSymmetry == ProcessSymmetry \cup SessionSymmetry
=============================================================================
