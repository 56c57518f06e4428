--------------------------------- MODULE Wire ---------------------------------
(***************************************************************************)
(* What travels between the client and the anticheat server: the ciphers   *)
(* of both ends byte by byte, and packets as sequences of words.  A word   *)
(* is a byte of a string, 0 for the null byte, or a number of the fixed    *)
(* part of a packet, below 256 here.  What the client only obfuscates in   *)
(* its own memory is enciphered here as well.                              *)
(***************************************************************************)
EXTENDS Integers, Sequences, Bits

CONSTANTS
    BufferLen,      \* PacketWriter::bufferLen, in words
    ReceiveBuffer,  \* the words the server's reader is built over
    CookieSize      \* the words of a heartbeat

ASSUME WireAssumption ==
    /\ BufferLen \in Nat \ {0}
    /\ ReceiveBuffer \in Nat /\ CookieSize \in Nat /\ 2 + CookieSize <= ReceiveBuffer

IsSigned(b) == b >= 128
ShiftLeft(b, n) == (b * 2^n) % 256
\* A char is shifted to the right with its sign, a byte of the server without.
ShiftRightChar(b, n) == ((IF IsSigned(b) THEN b - 256 ELSE b) \div 2^n) % 256
ShiftRightByte(b, n) == b \div 2^n

-----------------------------------------------------------------------------
(* The cipher of every packet.  i is the position of the byte, from 0.       *)

\* Mutant: the two constants change places.
CipherSwapped(b, i) == (ExclusiveOr(b, 144) + (IF i % 2 = 0 THEN 236 ELSE 20)) % 256

CipherData(b, i) == (ExclusiveOr(b, 144) + (IF i % 2 = 0 THEN 20 ELSE 236)) % 256

\* The server uses its half for what it receives and for what it sends.
Cipher(b, i) == ExclusiveOr((b + (IF i % 2 = 0 THEN 236 ELSE 20)) % 256, 144)

-----------------------------------------------------------------------------
(* The game code: GAMECODE-, hexadecimal digits, dashes, decimal digits.     *)

\* Sixteen bytes of a seed that is drawn from the time of the build, each a bit further.
KeyByte(seed, i) == (seed \div 2^(i % 16)) % 256

GameCodeBytes == {45} \cup 48..57 \cup 97..102 \cup {65, 67, 68, 69, 71, 77, 79}
Mixed(c, k, i) == (ExclusiveOr(c, k) + (i % 7)) % 256

XorEncryptAdvanced(c, k, i) ==
    LET n == (i % 3) + 1
        b == Mixed(c, k, i)
    IN InclusiveOr(ShiftLeft(b, n), ShiftRightChar(b, 8 - n))

XorDecryptAdvanced(b, k, i) ==
    LET n == (i % 3) + 1
        rotated == InclusiveOr(ShiftRightByte(b, n), ShiftLeft(b, 8 - n))
    IN ExclusiveOr((rotated - (i % 7)) % 256, k)

-----------------------------------------------------------------------------
(* Obfuscation in the client's memory *)

SeedByte == 105         \* OBFUSCATE_SEED and CONST_OPERATION_SEED, modulo 256
ConstByte == 255

obfuscate(b, added) == (ExclusiveOr(b, SeedByte) + added) % 256
deobfuscate(b, added) == ExclusiveOr((b - added) % 256, SeedByte)

\* The number that mt19937 draws for a key; a key draws the same number each time.
ObfuscatedData(value, added) == deobfuscate(obfuscate(value, added), added)

\* Text: the constant is added at even positions and taken away at odd ones.  What reads it
\* back stops at the first byte that has become null.
OperationAt(i) == IF i % 2 = 0 THEN ConstByte ELSE 0 - ConstByte
obfuscate_string(text) == [j \in DOMAIN text |-> obfuscate(text[j], OperationAt(j - 1))]
UpToNull(text) ==
    SubSeq(text, 1, IF \E j \in DOMAIN text : text[j] = 0
                    THEN (CHOOSE j \in DOMAIN text :
                              text[j] = 0 /\ \A l \in 1..(j - 1) : text[l] # 0) - 1
                    ELSE Len(text))
get_deobfuscated_string(hidden) ==
    LET read == UpToNull(hidden)
    IN [j \in DOMAIN read |-> deobfuscate(read[j], OperationAt(j - 1))]

\* Strings hidden at compile time: a char keeps the low byte of the exclusive or.  The wide
\* variant passes through a char, which widens with its sign: 16-bit characters.
StringKey == 85
Wide(b) == IF IsSigned(b) THEN 65280 + b ELSE b
encrypt_char(c, i) == ExclusiveOr(c % 256, (StringKey + i) % 256)
decrypt_char(c, i) == ExclusiveOr(c % 256, (StringKey + i) % 256)

encrypt_wchar(c, i) == Wide(ExclusiveOr(c % 256, (StringKey + i) % 256))
decrypt_wchar(c, i) == Wide(ExclusiveOr(c % 256, (StringKey + i) % 256))

-----------------------------------------------------------------------------
(* Packets: the writer of the client.  A writer is [buffer, length], its     *)
(* position is the length of the buffer.                                     *)

NewWriter == [buffer |-> <<>>, length |-> BufferLen]

\* Mutant: the length is doubled once.
GrownOnce(length, needed) == IF length < needed THEN 2 * length ELSE length

\* GetBuffer doubles the length until the new words fit: the length after n turns.
Doubled(length, needed) ==
    LET doubled[n \in 0..needed] ==
            IF n = 0 THEN length
            ELSE LET l == doubled[n - 1] IN IF l < needed THEN 2 * l ELSE l
    IN doubled
Grown(length, needed) == Doubled(length, needed)[needed]

\* What lies past the end of the allocation is written by others, too.
Beyond == 254
Write(w, words) ==
    LET all == w.buffer \o words
        m == Grown(w.length, Len(all))
    IN [buffer |-> [j \in DOMAIN all |-> IF j > m THEN Beyond ELSE all[j]], length |-> m]

\* strncpy: what follows a null byte of the string becomes null.
WriteRawString(w, text) ==
    Write(w, [j \in DOMAIN text |-> IF j <= Len(UpToNull(text)) THEN text[j] ELSE 0])

WriteString(w, text) == WriteRawString(Write(w, <<Len(text)>>), text)
WriteByteStringWithLength(w, bytes) == Write(Write(w, <<Len(bytes)>>), bytes)

\* The builders.  What has been written after n texts.
Written(w, texts) ==
    LET written[n \in 0..Len(texts)] ==
            IF n = 0 THEN w ELSE WriteString(written[n - 1], texts[n])
    IN written
Strings(w, texts) == Written(w, texts)[Len(texts)]

CS_HELLO == 1
CS_GOODBYE == 2
CS_HEARTBEAT == 3
CS_FLAGGED_CHEATER == 5
CS_QUERY_MEMORY == 6
CS_HASH_CHECK == 7
CS_CLIENTINFO_PERIODIC == 8

Started(opcode) == Write(NewWriter, <<opcode>>)
ClientHello(fields) == Strings(Started(CS_HELLO), fields)
ClientHashCheck(hashes) == Strings(Started(CS_HASH_CHECK), hashes)
ClientInfoPeriodic(fields) == Strings(Started(CS_CLIENTINFO_PERIODIC), fields)
ClientGoodbye(reason) == Write(Started(CS_GOODBYE), <<reason, 0>>)
DetectedCheater(flags, detected, pid) ==
    WriteString(Write(Started(CS_FLAGGED_CHEATER), <<flags, 0, pid, 0>>), detected)
QueryMemory(bytes) == WriteByteStringWithLength(Started(CS_QUERY_MEMORY), bytes)

\* The answer to a heartbeat is an array without a null byte at its end: the text of the
\* packet goes on with what lies behind it.
MakeHeartbeat(cookie) == [j \in DOMAIN cookie |-> ExclusiveOr(cookie[j], 24)]
Heartbeat(answer, behind) ==
    WriteString(Started(CS_HEARTBEAT), UpToNull(answer \o behind))

\* SendData enciphers what was written.
SendData(w) == [j \in DOMAIN w.buffer |-> CipherData(w.buffer[j], j - 1)]

-----------------------------------------------------------------------------
(* The readers.  The server deciphers what has arrived and reads from its    *)
(* whole buffer, whose end is null bytes at first.  A reader is the buffer   *)
(* and a position.                                                           *)

Received(sent) ==
    [j \in 1..ReceiveBuffer |-> IF j <= Len(sent) THEN Cipher(sent[j], j - 1) ELSE 0]

\* Nothing is left: the exception ends the handler.
NoWord == -1
Exhausted == <<NoWord>>

\* ReadUShort and ReadString of the server, read and readString of the client.
ReadWord(buffer, position) ==
    IF position >= Len(buffer) THEN NoWord ELSE buffer[position + 1]
readString(buffer, position, length) ==
    IF length < 0 \/ position + length > Len(buffer) THEN Exhausted
    ELSE SubSeq(buffer, position + 1, position + length)

\* The strings at the start of HandleClientHello, HandleClientHashCheck and
\* HandleClientInfoPeriodic, each behind its length: what has been read after n texts.
Reads(buffer, start, count) ==
    LET read[n \in 0..count] ==
            IF n = 0 THEN [texts |-> <<>>, position |-> start]
            ELSE LET r == read[n - 1]
                     length == ReadWord(buffer, r.position)
                 IN [texts |-> Append(r.texts, readString(buffer, r.position + 1, length)),
                     position |-> r.position + 1 + length]
    IN read
ReadStrings(buffer, start, count) == Reads(buffer, start, count)[count]

\* HandlePacket: the opcode, then the strings of the handler.  A heartbeat is as long as
\* the server's own, whatever length it says.
Opcode(buffer) == ReadWord(buffer, 0)
HandlerStrings(buffer) ==
    CASE Opcode(buffer) = CS_HELLO -> ReadStrings(buffer, 1, 8)
      [] Opcode(buffer) \in {CS_HASH_CHECK, CS_CLIENTINFO_PERIODIC} -> ReadStrings(buffer, 1, 4)
      [] OTHER -> [texts |-> Exhausted, position |-> 0]
CookieOf(buffer) ==
    LET answer == readString(buffer, 2, CookieSize)
    IN IF answer = Exhausted THEN Exhausted ELSE [j \in DOMAIN answer |-> ExclusiveOr(answer[j], 24)]

-----------------------------------------------------------------------------
(* What the two ends promise each other, for one sample *)

Undone(b, i) == Cipher(CipherData(b, i), i) = b

\* The strings of a packet arrive, whatever had to grow on the way.
StringsArrive(w, fields) == HandlerStrings(Received(SendData(w))).texts = fields

\* The fixed part of a packet arrives as it was written, and no word lies past the end.
WordsArrive(w, words) == SubSeq(Received(SendData(w)), 1, Len(words)) = words

CookieArrives(cookie, behind) ==
    CookieOf(Received(SendData(Heartbeat(MakeHeartbeat(cookie), behind)))) = cookie

\* A game code whose bytes stay below 128 on the way.
CodeArrives(c, k, i) == XorDecryptAdvanced(XorEncryptAdvanced(c, k, i), k, i) = c

\* Text comes back up to the first byte that was hidden as a null byte.
TextComesBack(text) ==
    get_deobfuscated_string(obfuscate_string(text))
        = SubSeq(text, 1, Len(UpToNull(obfuscate_string(text))))
WideComesBack(c, i) == decrypt_wchar(encrypt_wchar(c, i), i) = c
CharComesBack(c, i) == decrypt_char(encrypt_char(c, i), i) = c
DataComesBack(value, added) == ObfuscatedData(value, added) = value

=============================================================================
