------------------------------ MODULE MCReplay ------------------------------
(* Three versions: the second runs other code in the same form, the third  *)
(* the first one's code as a struct workflow.                              *)
EXTENDS Replay

MCCode == <<<<"a">>, <<"b">>, <<"a">>>>
MCPositional == <<TRUE, TRUE, FALSE>>
MCThis == {1, 2, 4}
MCNamespaces == {"default", "other"}
=============================================================================
