-------------------------------- MODULE Samples --------------------------------
(***************************************************************************)
(* What is sent and hidden, one sample at a time: a byte, a number, a      *)
(* text, a packet, a program of the virtual machine or a check of the      *)
(* machine, and what has to come out of each.  A sample stays what it is.  *)
(***************************************************************************)
EXTENDS Wire, Prerequisites

VARIABLE sample

\* Texts end at their null byte, and a length is a word.
Text == {t \in Seq(Byte \ {0}) : Len(t) < 256}
Fits(w) == Len(w.buffer) <= ReceiveBuffer

ByteSample == [kind : {"byte"}, b : Byte, i : Nat]
DataSample == [kind : {"data"}, value : Byte, added : Int]
CharSample == [kind : {"char"}, c : 0..127, i : Nat]
TextSample == [kind : {"text"}, text : Seq(Byte)]
CodeSample == [kind : {"code"}, c : GameCodeBytes, seed : Nat, i : Nat]
HelloSample == {s \in [kind : {"hello"}, fields : [1..8 -> Text]] : Fits(ClientHello(s.fields))}
HashSample ==
    {s \in [kind : {"hashes"}, fields : [1..4 -> Text]] : Fits(ClientHashCheck(s.fields))}
InfoSample ==
    {s \in [kind : {"info"}, fields : [1..4 -> Text]] : Fits(ClientInfoPeriodic(s.fields))}

\* No character of a cookie is the one that the exclusive or of its answer makes null.
CookieSample ==
    [kind : {"cookie"}, cookie : [1..CookieSize -> Byte \ {24}], behind : Seq(Byte)]
FlaggedSample ==
    {s \in [kind : {"flagged"}, n : Byte, bytes : Text] : Fits(DetectedCheater(s.n, s.bytes, 7))}
MemorySample ==
    {s \in [kind : {"memory"}, n : Byte, bytes : Seq(Byte)] :
        Len(s.bytes) < 256 /\ Fits(QueryMemory(s.bytes))}
GoodbyeSample ==
    {s \in [kind : {"goodbye"}, n : Byte, bytes : Seq(Byte)] : Fits(ClientGoodbye(s.n))}

OperationSample ==
    [kind : {"operation"}, a : Word, b : Word,
     name : {"ADD", "SUB", "MUL", "DIV", "FL_ADD", "FL_SUB", "FL_MUL", "FL_DIV"}]
MovesSample == [kind : {"moves"}, a : Word, b : Word]
CallSample == [kind : {"call"}, this : Word, address : Word, rax : Nat]
ChecksSample == [kind : {"checks"}, config : Settings, machine : Machine, upper : Nat]

IsSample(s) ==
    \/ s \in ByteSample \/ s \in DataSample \/ s \in CharSample \/ s \in TextSample
    \/ s \in CodeSample \/ s \in HelloSample \/ s \in HashSample \/ s \in InfoSample
    \/ s \in CookieSample \/ s \in FlaggedSample \/ s \in MemorySample \/ s \in GoodbyeSample
    \/ s \in OperationSample \/ s \in MovesSample \/ s \in CallSample \/ s \in ChecksSample

SampleSpec == IsSample(sample) /\ [][UNCHANGED sample]_sample

-----------------------------------------------------------------------------
(* What one end writes the other reads: bytes, game codes, the strings of a packet behind  *)
(* their lengths however often the buffer had to grow, and cookies; and what the client    *)
(* hides in its own memory comes back (CipherData, NetClient.cpp:500; Cipher,              *)
(* Server.cs:449; XorDecryptAdvanced, Handlers.cs:630; Obfuscation.hpp:53; XorStr.hpp:6).  *)
CiphersAreUndone ==
    CASE sample.kind = "byte" -> Undone(sample.b, sample.i)
      [] sample.kind = "data" -> DataComesBack(sample.value, sample.added)
      [] sample.kind = "char" -> WideComesBack(sample.c, sample.i) /\ CharComesBack(sample.c, sample.i)
      [] sample.kind = "text" -> TextComesBack(sample.text)
      [] sample.kind = "code" ->
            LET k == KeyByte(sample.seed, sample.i)
            IN ~IsSigned(k) /\ ~IsSigned(Mixed(sample.c, k, sample.i))
                   => CodeArrives(sample.c, k, sample.i)
      [] sample.kind = "hello" -> StringsArrive(ClientHello(sample.fields), sample.fields)
      [] sample.kind = "hashes" -> StringsArrive(ClientHashCheck(sample.fields), sample.fields)
      [] sample.kind = "info" -> StringsArrive(ClientInfoPeriodic(sample.fields), sample.fields)
      [] sample.kind = "cookie" -> CookieArrives(sample.cookie, sample.behind)
      [] sample.kind = "flagged" ->
            WordsArrive(DetectedCheater(sample.n, sample.bytes, 7),
                        <<CS_FLAGGED_CHEATER, sample.n, 0, 7, 0, Len(sample.bytes)>> \o sample.bytes)
      [] sample.kind = "memory" ->
            WordsArrive(QueryMemory(sample.bytes),
                        <<CS_QUERY_MEMORY, Len(sample.bytes)>> \o sample.bytes)
      [] sample.kind = "goodbye" -> WordsArrive(ClientGoodbye(sample.n), <<CS_GOODBYE, sample.n, 0>>)
      [] OTHER -> TRUE

(* Every byte of a game code comes back on the server as it left the client, where the     *)
(* byte of the key is a character for both (XorEncryptAdvanced, API.cpp:12;                *)
(* XorDecryptAdvanced, Handlers.cs:630).                                                   *)
GameCodeArrives ==
    sample.kind = "code" =>
        LET k == KeyByte(sample.seed, sample.i)
        IN ~IsSigned(k) => CodeArrives(sample.c, k, sample.i)

(* The virtual machine computes what its programs say, in one program or over two with     *)
(* another stack in between, calls the member function with its object alone, and so the   *)
(* checks before the start never refuse a machine that meets the settings                  *)
(* (VirtualMachine.hpp:128, AntiCheat.cpp:10).                                             *)
MachineComputes ==
    CASE sample.kind = "operation" -> OperationIsRight(sample.name, sample.a, sample.b)
      [] sample.kind = "moves" -> MovesAreRight(sample.a, sample.b)
      [] sample.kind = "call" -> CallIsRight(sample.this, sample.address, sample.rax)
      [] sample.kind = "checks" ->
            LET allowed == DoPreInitializeChecks(sample.config, sample.machine)
                passed == CheckPasses(sample.config, sample.machine, sample.upper)
            IN (allowed => passed) /\ (passed => allowed \/ sample.upper # 0)
      [] OTHER -> TRUE

================================================================================
