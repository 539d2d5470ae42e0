------------------------ MODULE MCScenarioGenerator ------------------------
(***************************************************************************)
(* Small scenarios with every draw, one with the twelve TTIs and blocks    *)
(* that identifiers put together carelessly need to collide, one in which  *)
(* nothing ever arrives, and for every check of __post_init__ a            *)
(* configuration that fails no other.                                      *)
(***************************************************************************)
EXTENDS ScenarioGenerator

CONSTANTS gold, silver

MCUeIds == {"ue-0", "ue-1", "ue-2"}
MCBlockIds == {BlockId(t, j) : t \in 0 .. 11, j \in 0 .. 11}

Small == [ues |-> 2, ttis |-> 2, blocks |-> 1, classes |-> <<gold>>,
          cqiMin |-> 0, cqiMax |-> 1, bytesMin |-> 0, bytesMax |-> 1]

MCConfigs ==
    {Small,
     [Small EXCEPT !.ues = 3, !.classes = <<gold, silver>>,
                   !.cqiMin = 15, !.cqiMax = 15],
     [Small EXCEPT !.ues = 1, !.ttis = 12, !.blocks = 12, !.cqiMin = 1,
                   !.bytesMax = 0]}
    \cup {[Small EXCEPT ![field] = 0] : field \in {"ues", "ttis", "blocks"}}
    \cup {[Small EXCEPT !.classes = names] :
            names \in {<<>>, <<gold, Blank>>, <<NotAString>>}}
    \cup {[Small EXCEPT ![field] = -1] :
            field \in {"cqiMin", "cqiMax", "bytesMin", "bytesMax"}}
    \cup {[Small EXCEPT ![field] = 16] : field \in {"cqiMin", "cqiMax", "bytesMin"}}
    \cup {[Small EXCEPT !.cqiMin = 9, !.cqiMax = 8]}
=============================================================================
