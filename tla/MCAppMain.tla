----------------------------- MODULE MCAppMain -----------------------------
(* Two files beside the WAD, which share their blocks with others.         *)
EXTENDS AppMain

MCFileList == <<"conf", "music">>
MCPlace == [f \in {"conf", "music", "wad"} |->
              CASE f = "conf" -> {0} [] f = "music" -> {0, 1} [] OTHER -> {1, 2}]
=============================================================================
