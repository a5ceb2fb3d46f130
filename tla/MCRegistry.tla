----------------------------- MODULE MCRegistry -----------------------------
(* Two jigsaws of one name, and one whose name runs through the end node of  *)
(* the second.  Its path is a level longer than removeNode goes up, which    *)
(* does not come to the group "a".  An anonymous one would only be notified. *)
EXTENDS Registry, TLC

MCPathOf == "j1" :> <<"a", "b", "j1">> @@ "j2" :> <<"a", "b", "j2">>
            @@ "j3" :> <<"a", "b", "j2", "j3">>
=============================================================================
