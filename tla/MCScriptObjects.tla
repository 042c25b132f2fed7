-------------------------- MODULE MCScriptObjects --------------------------
(* Values of the constants of ScriptObjects for TLC. *)
EXTENDS ScriptObjects, TLC

CONSTANTS A, B,         \* two data sets
          here, there   \* two tiles

(* Two pixels, as two bands of shorts and as one band of bytes. *)
MCProduct == A :> [type |-> 3, size |-> 2, nband |-> 2]
          @@ B :> [type |-> 1, size |-> 2, nband |-> 1]
MCNewShapes == {[type |-> 3, size |-> 2, nband |-> 1]}

(* 0 is the moment the engine computes for, 2; 1 is stated as it is. *)
MCResolvedAt == 0 :> 2 @@ 1 :> 1
MCDtLists == {<<>>, <<0, 1>>}
MCListLists == {<<dts, <<0, 1>>>> : dts \in MCDtLists} \cup {<<<<0, 1>>, <<>>>>}
MCFinds == {<<>>, <<1, 2>>}

(* The region lies differently in the two tiles. *)
MCRegion == here :> {1} @@ there :> {2}
=============================================================================
