---------------------------- MODULE MCRealmWrite ----------------------------
(* Two threads write one file: two coroutines share the instance of the    *)
(* first, the second has one of each.                                      *)
EXTENDS RealmWrite, TLC

CONSTANTS f1, f2, g, i1, i2, luaThread, otherThread

MCFibers    == {f1, f2, g}
MCInstances == {i1, i2}
MCHome      == (f1 :> luaThread) @@ (f2 :> luaThread) @@ (i1 :> luaThread)
                 @@ (g :> otherThread) @@ (i2 :> otherThread)
=============================================================================
