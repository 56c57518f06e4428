------------------------------ MODULE MCDefenses ------------------------------
EXTENDS Inspection
MCSections == <<".text", ".rdata", ".data">>
MCAccess == [s \in {".text", ".rdata", ".data"} |->
    CASE s = ".text" -> {"r", "x"} [] s = ".rdata" -> {"r"} [] s = ".data" -> {"r", "w"}]
=============================================================================
