-------------------------- MODULE MCOperationLocks --------------------------
(* Instances of OperationLocks for TLC.                                      *)
EXTENDS OperationLocks, TLC

CONSTANTS s, b, c, r, d, host, kid, cli

\* One process runs two commands, an embedding host; a hook of s runs the child; r and d are shells.
Procs == s :> host @@ b :> host @@ c :> kid @@ r :> cli @@ d :> cli
Parents == s :> Nobody @@ b :> Nobody @@ c :> s @@ r :> Nobody @@ d :> Nobody

\* Apps "a" and "b" share volumes 1 and 2; volume 3 is the global app's.
Programs ==
  s :> {startApp("a", {1, 2}, <<Hook(c)>>), startApp("a", {1}, withGlobalMutation(<<>>))}
  @@ b :> {startApp("b", {1, 2}, <<>>), globalStart({3})}
  @@ c :> {<<Phase("a")>>, globalStart({})}
  @@ r :> {restartApp("a", {1}, {1, 2}), globalStart({3})}
  @@ d :> {destroyApp("b", "a", "b", {2})}

Nested == s :> {} @@ b :> {} @@ c :> {} @@ d :> {} @@ r :> {restartApp("a", {1, 2}, {2, 3})}
=============================================================================
