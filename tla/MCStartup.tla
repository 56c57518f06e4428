------------------------------ MODULE MCStartup ------------------------------
(***************************************************************************)
(* Instances of TLC.  A behaviour is that of two clients on one machine,   *)
(* or that of the list of drivers, or a single state with one sample of    *)
(* the ciphers, the packets or the virtual machine.                        *)
(***************************************************************************)
EXTENDS Startup, DriverList, Samples, Bitwise

CONSTANTS i1, i2

\* The two operators of the words.
XorOfBits(a, b) == a ^^ b
OrOfBits(a, b) == a | b

-----------------------------------------------------------------------------
(* The list of drivers *)

File(embedded, catalogue) ==
    [embedded |-> embedded, catalogue |-> catalogue, subject |-> "us", attributes |-> "name"]
OurDriver == File("SUCCESS", "none")

Driver(name, root, file) == [path |-> [name |-> name, root |-> root], file |-> file]

\* A driver without a signature, one in a catalogue, one with its own signature, and one
\* that is left alone by name.
SmallMachines ==
    {[drivers |-> <<Driver("a", a, File("NOSIGNATURE", "none")), Driver("b", b, File("NOSIGNATURE", "SUCCESS"))>>
                  \o c,
      services |-> <<[name |-> "s", state |-> state]>>, devices |-> <<"d1", "d2">>] :
        a, b \in BOOLEAN, state \in {"RUNNING", "PAUSED", "STARTING"},
        c \in {<<Driver("c", FALSE, File("SUCCESS", "none"))>>,
               <<Driver("dump", TRUE, File("NOSIGNATURE", "none"))>>,
               <<Driver("c", TRUE, File("BAD_DIGEST", "REVOKED"))>>}}

-----------------------------------------------------------------------------
(* Samples *)

Bytes == [kind : {"byte"}, b : Byte, i : {0, 1}]
Data == [kind : {"data"}, value : Byte, added : {0, 1, 255, -7}]
Chars == [kind : {"char"}, c : 0..127, i : {0, 1, 42, 43, 170, 171}]
Texts == [kind : {"text"}, text : UNION {[1..n -> {104, 150, 97}] : n \in 0..4}]
Codes == [kind : {"code"}, c : GameCodeBytes, seed : {172921, 176543}, i : 0..15]

Words == {<<>>, <<65>>, <<200, 1>>}
Long == <<1, 2, 3, 4, 5, 6>>
Hellos == [kind : {"hello"}, fields : [1..8 -> {<<>>, <<65, 66>>}]]
Fours == [kind : {"hashes", "info"}, fields : [1..4 -> {<<>>, <<200, 1>>, Long}]]
Cookies == [kind : {"cookie"}, cookie : [1..CookieSize -> {65, 97, 48}], behind : {<<0>>, <<7, 0>>}]
Others == [kind : {"flagged", "memory", "goodbye"}, n : 0..3, bytes : Words \cup {Long}]

Operations == [kind : {"operation"}, a : {0, 1, 2, 4, 100}, b : {0, 1, 3, 4, 100},
               name : {"ADD", "SUB", "MUL", "DIV", "FL_ADD", "FL_SUB", "FL_MUL", "FL_DIV"}]
Moves == [kind : {"moves"}, a : 0..4, b : 0..4]
Calls == [kind : {"call"}, this : {0, 5, 31}, address : {9, 21}, rax : 0..3]
ChecksOfMachine == [kind : {"checks"}, config : Settings, machine : Machine, upper : {0, 1}]

\* The samples are among those of Samples.
ASSUME SamplesAssumption ==
    /\ \A s \in Bytes : IsSample(s)
    /\ \A s \in Data : IsSample(s)
    /\ \A s \in Chars : IsSample(s)
    /\ \A s \in Texts : IsSample(s)
    /\ \A s \in Codes : IsSample(s)
    /\ \A s \in Hellos : IsSample(s)
    /\ \A s \in Fours : IsSample(s)
    /\ \A s \in Cookies : IsSample(s)
    /\ \A s \in Others : IsSample(s)
    /\ \A s \in Operations : IsSample(s)
    /\ \A s \in Moves : IsSample(s)
    /\ \A s \in Calls : IsSample(s)
    /\ \A s \in ChecksOfMachine : IsSample(s)

SampleInit ==
    \/ sample \in Bytes \/ sample \in Data \/ sample \in Chars \/ sample \in Texts
    \/ sample \in Codes \/ sample \in Hellos \/ sample \in Fours \/ sample \in Cookies
    \/ sample \in Others \/ sample \in Operations \/ sample \in Moves \/ sample \in Calls
    \/ sample \in ChecksOfMachine

-----------------------------------------------------------------------------
None == [kind |-> "none"]
NoMachine == [drivers |-> <<>>, services |-> <<>>, devices |-> <<>>]

\* Whichever part is not looked at has used up its bound.
StartupIdle ==
    /\ stage = [i \in Instances |-> "off"] /\ starts = [i \in Instances |-> MaxStarts]
    /\ holders = {} /\ isRunning = 0
    /\ service = "none" /\ marked = FALSE /\ opened = {}
    /\ game = [i \in Instances |-> "none"] /\ outcome = [i \in Instances |-> "none"]
    /\ failing = "none" /\ late = {} /\ raced = FALSE
ListIdle ==
    /\ machine = NoMachine
    /\ DriverPaths = <<>> /\ BlacklistedDrivers = {} /\ FoundBlacklistedDrivers = <<>>
    /\ ServiceList = <<>> /\ HardwareDevices = <<>>
    /\ PassedCertCheckDrivers = {} /\ UnsignedLoadedDrivers = {}
    /\ rounds = MaxRounds + 1 /\ excused = FALSE

Init ==
    \/ /\ SampleInit /\ StartupIdle /\ ListIdle
    \/ /\ sample = None /\ StartupInit /\ ListIdle
    \/ /\ sample = None /\ StartupIdle /\ ListInit

Next ==
    \/ StartupNext /\ sample = None /\ UNCHANGED <<listVars, sample>>
    \/ ListNext /\ sample = None /\ UNCHANGED <<startupVars, sample>>

Spec == Init /\ [][Next]_<<startupVars, listVars, sample>>

=============================================================================
