------------------------------- MODULE MCBulk -------------------------------
(***************************************************************************)
(* The two users of bulk endpoints, one per behaviour: their endpoints are *)
(* independent, and `which' says whose behaviour this is.                  *)
(***************************************************************************)
EXTENDS Vcp, Eem
VARIABLE which

\* Frame 1 with its checksum is nine bytes: its length reads the same both ways.
MCEemLen == <<8, 2>>
MCHostXfers == {<<-1>>, <<1>>, <<0, 2>>}
Init == which \in {"vcp", "eem"} /\ VcpInit /\ EemInit
Next == /\ \/ which = "vcp" /\ VcpNext /\ UNCHANGED eemVars
           \/ which = "eem" /\ EemNext /\ UNCHANGED vcpVars
        /\ UNCHANGED which
Spec == Init /\ [][Next]_<<which, vcpVars, eemVars>> /\ (which = "eem" => EemFair)
=============================================================================
