SPECIFICATION Spec
CONSTANTS
 Sections <- MCSections
 Access <- MCAccess
 Faults = {"ownName","protect","protectAgain","ntHeader","alignment","alloc","createSection","mapView","unmapView","mapProtected","query","apc","policy"}
 Workers = {"recv"}
 MaxWrites = 1
 Patches = {2}
 Traces = {"tlsGone","tlsMoved","tlsForeign","tlsExtra","mapped","erased","mappedData","listedProcess","keywordProcess","cheatHandle","scannedProcess","jmpHook","pushHook","iatHook","iatForward","unsignedDll","namesakeDll","signedDll","testsigning","debugMode","hypervisor","disc","wintrust","window","writable"}
 MaxTraces = 1
 Settings = {"integrity","hypervisor"}
 TextBlocks = 3
 MonitorBlock = 2
 Before = {"unsignedDll","wintrust","scannedProcess"}
 SetupFaults = {"patterns","keywords","wmi","key"}
 RandomBlocks = {2,3}
INVARIANTS NoErrorWithoutFault  NoReportWithoutCause
PROPERTIES BarrierHolds CodeStays NothingStaysHidden
CHECK_DEADLOCK FALSE
