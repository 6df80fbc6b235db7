---------------------------- MODULE MCSignaling -----------------------------
(* Instances of Signaling for TLC: the specifications that are tried. *)
EXTENDS Signaling, TLC

MCNumber == "0" :> 0 @@ "1" :> 1 @@ "2" :> 2 @@ "3" :> 3

Target(name, ports) == [name |-> name, host |-> "h", ports |-> ports]

\* A range, one port, the same name twice, a range of three parts, a name with
\* a hyphen, a reversed range and a port that is no number.
MCTargetLists ==
  { <<Target(<<"r">>, <<"1", "3">>)>>,
    <<Target(<<"r">>, <<"2">>)>>,
    <<Target(<<"r">>, <<"1", "2">>), Target(<<"r">>, <<"2", "3">>)>>,
    <<Target(<<"r">>, <<"1", "2", "3">>), Target(<<"r", "1">>, <<"3">>)>>,
    <<Target(<<"r">>, <<"3", "1">>)>>,
    <<Target(<<"r">>, <<"r">>)>> }

MCListenLists == { <<<<"r">>, <<"r">>>> }
MCPaths == { <<"r", "2">>, <<"r", "r">> }

\* For the violation run.
MCOneTarget == { <<Target(<<"r">>, <<"1", "3">>)>> }
=============================================================================
