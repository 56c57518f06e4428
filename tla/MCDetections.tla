---------------------------- MODULE MCDetections ----------------------------
EXTENDS Detections

\* A program that the monitor sees by its name and the creation thread by its bytes.
FewFound ==
    [t \in Threads |->
        CASE t = "monitor" -> {Detection("program", NoData)}
          [] t = "creation" -> {Detection("program", "cheat.exe")}
          [] OTHER -> {}]
=============================================================================
