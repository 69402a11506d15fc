--------------------------- MODULE MCManagedFiles ---------------------------
(* Instances of ManagedFiles for TLC.                                        *)
EXTENDS ManagedFiles, TLC

CONSTANTS c1, c2, old, new

\* A plugin and Core generate one file, or a second one behind it.
ActsForOwner == c1 :> "x" @@ c2 :> "core"
Markers == "core" :> "core" @@ "x" :> "x"
File(p, b) == [path |-> p, body |-> b]
Singles == {<<File("p", old)>>, <<File("p", new)>>, <<File("p", old), File("p", new)>>}
SomeBatches == Singles \cup {<<File("p", new), File("q", new)>>}
=============================================================================
