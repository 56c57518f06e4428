------------------------- MODULE ClientSession_proofs -------------------------
(* Proofs about ClientSession: for any period of the hash checks, any delay    *)
(* and any number of heartbeats under way, a client that plays by the rules is *)
(* refused or banned only after one of its packets was lost in a read.         *)
EXTENDS ClientSession, FiniteSetTheorems, SequenceTheorems, TLAPS

-----------------------------------------------------------------------------
(* Types, as far as the proofs need them *)

TypeInv ==
    /\ toServer \in Seq(Packets) /\ toClient \in Seq(Packets)
    /\ expected \in Seq(Cookies) /\ cookie \in Cookies
    /\ hashAge \in Nat /\ sinceHash \in 0..HashPeriod
    /\ handled \in BOOLEAN /\ handshakeCompleted \in BOOLEAN

-----------------------------------------------------------------------------
(* Heartbeats: what is under way is what the server expects, in its order *)

\* The heartbeats of a stream are those of a list of cookies, in the same order.
Carries(stream, cookies) ==
    \E at \in [1..Len(cookies) -> 1..Len(stream)] :
        /\ \A i, j \in 1..Len(cookies) : i < j => at[i] < at[j]
        /\ \A i \in 1..Len(cookies) : stream[at[i]] = Heartbeat(cookies[i])
        /\ \A p \in 1..Len(stream) :
              stream[p].kind = "heartbeat" => \E i \in 1..Len(cookies) : at[i] = p

\* The first k of heartbeat_responses are answered, the others on their way to the client.
HeartbeatInv ==
    /\ status = "open" /\ "heartbeat" \notin lost =>
          \E k \in 0..Len(expected) :
              /\ Carries(toServer, SubSeq(expected, 1, k))
              /\ Carries(toClient, SubSeq(expected, k + 1, Len(expected)))
    /\ NoFalseReject

-----------------------------------------------------------------------------
(* Hash checks: the server's clock runs no further than the client's *)

NoHash == \A k \in 1..Len(toServer) : toServer[k].kind # "hash"
First(stream, kind) == stream # <<>> /\ stream[1].kind = kind

\* The hello is the first packet of either stream, so that no read loses it.
HelloInv ==
    status = "open" /\ ~handshakeCompleted =>
        /\ NoHash /\ hashAge = 0 /\ sinceHash = HashPeriod
        /\ \/ First(toServer, "hello") /\ toClient = <<>> /\ worker = "none" /\ ~handled
           \/ First(toClient, "hello")

HashInv ==
    /\ status = "open" /\ handshakeCompleted /\ "hash" \notin lost =>
          /\ hashAge <= HashPeriod
          /\ NoHash => hashAge <= sinceHash
          /\ ~NoHash => sinceHash = 0
    /\ NoFalseTimeout

Inv == TypeInv /\ HeartbeatInv /\ HelloInv /\ HashInv

-----------------------------------------------------------------------------
(* Streams *)

\* The packets of the two sides.
LEMMA PacketTypes ==
    /\ \A kind \in Kinds : Packet(kind) \in Packets /\ Packet(kind).kind = kind
    /\ \A c \in Cookies : /\ Heartbeat(c) \in Packets /\ Heartbeat(c).kind = "heartbeat"
                          /\ Heartbeat(c).cookie = c
    /\ \A p \in Packets : p.kind = "heartbeat" => p.cookie \in Cookies /\ p = Heartbeat(p.cookie)
    /\ {"hello", "heartbeat", "hash", "info"} \subseteq Kinds
<1>1. 0 \in Cookies
  BY SessionAssumption DEF Cookies
<1> QED
  BY <1>1 DEF Packet, Heartbeat, Packets, Kinds

\* What is left of a stream after a read of n packets.
LEMMA AfterRead ==
    ASSUME NEW S, NEW stream \in Seq(S), NEW n \in 1..Len(stream)
    PROVE  /\ After(stream, n) \in Seq(S) /\ Len(After(stream, n)) = Len(stream) - n
           /\ \A p \in 1..(Len(stream) - n) : After(stream, n)[p] = stream[p + n]
<1>1. /\ n + 1 \in Int /\ Len(stream) \in Int
      /\ \A i \in n + 1 .. Len(stream) : stream[i] \in S
  OBVIOUS
<1> QED
  BY <1>1, SubSeqProperties DEF After

\* The two parts of a list.
LEMMA Parts ==
    ASSUME NEW S, NEW list \in Seq(S), NEW k \in 0..Len(list)
    PROVE  /\ SubSeq(list, 1, k) \in Seq(S) /\ Len(SubSeq(list, 1, k)) = k
           /\ \A i \in 1..k : SubSeq(list, 1, k)[i] = list[i]
           /\ SubSeq(list, k + 1, Len(list)) \in Seq(S)
           /\ Len(SubSeq(list, k + 1, Len(list))) = Len(list) - k
           /\ \A i \in 1..(Len(list) - k) : SubSeq(list, k + 1, Len(list))[i] = list[k + i]
<1>1. k \in Int /\ k + 1 \in Int /\ Len(list) \in Int /\ 1 \in Int
  OBVIOUS
<1>2. (\A i \in 1..k : list[i] \in S) /\ (\A i \in k + 1 .. Len(list) : list[i] \in S)
  OBVIOUS
<1>3. /\ SubSeq(list, 1, k) \in Seq(S)
      /\ Len(SubSeq(list, 1, k)) = IF 1 <= k THEN k - 1 + 1 ELSE 0
      /\ \A i \in 1..(k - 1 + 1) : SubSeq(list, 1, k)[i] = list[1 + i - 1]
  BY <1>1, <1>2, SubSeqProperties
<1>4. /\ SubSeq(list, k + 1, Len(list)) \in Seq(S)
      /\ Len(SubSeq(list, k + 1, Len(list))) =
           IF k + 1 <= Len(list) THEN Len(list) - (k + 1) + 1 ELSE 0
      /\ \A i \in 1..(Len(list) - (k + 1) + 1) :
           SubSeq(list, k + 1, Len(list))[i] = list[(k + 1) + i - 1]
  BY <1>1, <1>2, SubSeqProperties
<1> QED
  BY <1>3, <1>4

\* A list with one more entry.
LEMMA Appended ==
    ASSUME NEW S, NEW list \in Seq(S), NEW x \in S
    PROVE  /\ Append(list, x) \in Seq(S) /\ Len(Append(list, x)) = Len(list) + 1
           /\ \A i \in 1..Len(list) : Append(list, x)[i] = list[i]
           /\ Append(list, x)[Len(list) + 1] = x
  OBVIOUS

\* Only the cookies matter, not how their list was put together.
LEMMA CarriesSame ==
    ASSUME NEW stream, NEW c \in Seq(Cookies), NEW d \in Seq(Cookies), Carries(stream, c),
           Len(c) = Len(d), \A i \in 1..Len(c) : c[i] = d[i]
    PROVE  Carries(stream, d)
<1>1. c = d
  BY SeqEqual
<1> QED
  BY <1>1

\* Another packet at the end changes nothing.
LEMMA CarriesOther ==
    ASSUME NEW stream \in Seq(Packets), NEW cookies \in Seq(Cookies), Carries(stream, cookies),
           NEW x \in Packets, x.kind # "heartbeat"
    PROVE  Carries(Append(stream, x), cookies)
<1>1. PICK at \in [1..Len(cookies) -> 1..Len(stream)] :
        /\ \A i, j \in 1..Len(cookies) : i < j => at[i] < at[j]
        /\ \A i \in 1..Len(cookies) : stream[at[i]] = Heartbeat(cookies[i])
        /\ \A p \in 1..Len(stream) :
              stream[p].kind = "heartbeat" => \E i \in 1..Len(cookies) : at[i] = p
  BY DEF Carries
<1> DEFINE longer == Append(stream, x)
<1>2. /\ Len(longer) = Len(stream) + 1 /\ longer[Len(stream) + 1] = x
      /\ \A p \in 1..Len(stream) : longer[p] = stream[p]
      /\ Len(stream) \in Nat
  OBVIOUS
<1> HIDE DEF longer
<1>3. at \in [1..Len(cookies) -> 1..Len(longer)]
  BY <1>1, <1>2
<1>4. \A i \in 1..Len(cookies) : longer[at[i]] = Heartbeat(cookies[i])
  BY <1>1, <1>2
<1>5. \A p \in 1..Len(longer) :
        longer[p].kind = "heartbeat" => \E i \in 1..Len(cookies) : at[i] = p
  <2> SUFFICES ASSUME NEW p \in 1..Len(longer), longer[p].kind = "heartbeat"
               PROVE  \E i \in 1..Len(cookies) : at[i] = p
    OBVIOUS
  <2>1. p \in 1..Len(stream) /\ stream[p].kind = "heartbeat"
    BY <1>2
  <2> QED
    BY <1>1, <2>1
<1>6. Carries(longer, cookies)
  BY <1>1, <1>3, <1>4, <1>5 DEF Carries
<1> QED
  BY <1>6 DEF longer

\* A heartbeat at the end is one more.
LEMMA CarriesMore ==
    ASSUME NEW stream \in Seq(Packets), NEW cookies \in Seq(Cookies), Carries(stream, cookies),
           NEW c \in Cookies
    PROVE  Carries(Append(stream, Heartbeat(c)), Append(cookies, c))
<1>1. PICK at \in [1..Len(cookies) -> 1..Len(stream)] :
        /\ \A i, j \in 1..Len(cookies) : i < j => at[i] < at[j]
        /\ \A i \in 1..Len(cookies) : stream[at[i]] = Heartbeat(cookies[i])
        /\ \A p \in 1..Len(stream) :
              stream[p].kind = "heartbeat" => \E i \in 1..Len(cookies) : at[i] = p
  BY DEF Carries
<1> DEFINE longer == Append(stream, Heartbeat(c))
           more == Append(cookies, c)
           to == [i \in 1..Len(more) |-> IF i = Len(more) THEN Len(longer) ELSE at[i]]
<1>2. /\ Len(longer) = Len(stream) + 1 /\ longer[Len(stream) + 1] = Heartbeat(c)
      /\ \A p \in 1..Len(stream) : longer[p] = stream[p]
  BY PacketTypes
<1>3. /\ Len(more) = Len(cookies) + 1 /\ more[Len(cookies) + 1] = c
      /\ \A i \in 1..Len(cookies) : more[i] = cookies[i]
  OBVIOUS
<1>4. Len(stream) \in Nat /\ Len(cookies) \in Nat
  OBVIOUS
<1>5. /\ \A i \in 1..Len(cookies) : to[i] = at[i] /\ at[i] \in 1..Len(stream)
      /\ to[Len(cookies) + 1] = Len(stream) + 1 /\ Len(cookies) + 1 \in 1..Len(more)
  BY <1>1, <1>2, <1>3, <1>4
<1>6. to \in [1..Len(more) -> 1..Len(longer)]
  BY <1>1, <1>2, <1>3, <1>4
<1> HIDE DEF longer, more, to
<1>7. \A i, j \in 1..Len(more) : i < j => to[i] < to[j]
  <2> SUFFICES ASSUME NEW i \in 1..Len(more), NEW j \in 1..Len(more), i < j
               PROVE  to[i] < to[j]
    OBVIOUS
  <2>1. i \in 1..Len(cookies) /\ to[i] = at[i] /\ at[i] \in 1..Len(stream)
    BY <1>3, <1>4, <1>5
  <2>2. CASE j \in 1..Len(cookies)
    BY <1>1, <1>5, <2>1, <2>2
  <2>3. CASE j \notin 1..Len(cookies)
    <3>1. j = Len(cookies) + 1
      <4>1. j \in 1..(Len(cookies) + 1)
        BY <1>3
      <4> QED
        BY <1>4, <2>3, <4>1
    <3> QED
      BY <1>4, <1>5, <2>1, <3>1
  <2> QED
    BY <2>2, <2>3
<1>8. \A i \in 1..Len(more) : longer[to[i]] = Heartbeat(more[i])
  <2> SUFFICES ASSUME NEW i \in 1..Len(more) PROVE longer[to[i]] = Heartbeat(more[i])
    OBVIOUS
  <2>1. CASE i \in 1..Len(cookies)
    <3>1. to[i] = at[i] /\ at[i] \in 1..Len(stream) /\ more[i] = cookies[i]
      BY <1>3, <1>5, <2>1
    <3> QED
      BY <1>1, <1>2, <2>1, <3>1
  <2>2. CASE i \notin 1..Len(cookies)
    <3>1. i = Len(cookies) + 1
      BY <1>3, <1>4, <2>2
    <3> QED
      BY <1>2, <1>3, <1>5, <3>1
  <2> QED
    BY <2>1, <2>2
<1>9. \A p \in 1..Len(longer) : longer[p].kind = "heartbeat" => \E i \in 1..Len(more) : to[i] = p
  <2> SUFFICES ASSUME NEW p \in 1..Len(longer), longer[p].kind = "heartbeat"
               PROVE  \E i \in 1..Len(more) : to[i] = p
    OBVIOUS
  <2>1. CASE p \in 1..Len(stream)
    <3>1. stream[p].kind = "heartbeat"
      BY <1>2, <2>1
    <3>2. PICK i \in 1..Len(cookies) : at[i] = p
      BY <1>1, <2>1, <3>1
    <3>3. i \in 1..Len(more) /\ to[i] = p
      BY <1>3, <1>4, <1>5, <3>2
    <3> QED
      BY <3>3
  <2>2. CASE p \notin 1..Len(stream)
    <3>1. p = Len(stream) + 1
      BY <1>2, <1>4, <2>2
    <3> QED
      BY <1>5, <3>1
  <2> QED
    BY <2>1, <2>2
<1>10. Carries(longer, more)
  BY <1>6, <1>7, <1>8, <1>9 DEF Carries
<1> QED
  BY <1>10 DEF longer, more

\* A read that loses no heartbeat takes the first one, or none.
LEMMA CarriesRead ==
    ASSUME NEW stream \in Seq(Packets), NEW cookies \in Seq(Cookies), Carries(stream, cookies),
           NEW n \in 1..Len(stream), "heartbeat" \notin LostIn(stream, n)
    PROVE  IF stream[1].kind = "heartbeat"
           THEN /\ cookies # <<>> /\ stream[1] = Heartbeat(cookies[1])
                /\ Carries(After(stream, n), Tail(cookies))
           ELSE Carries(After(stream, n), cookies)
<1>1. PICK at \in [1..Len(cookies) -> 1..Len(stream)] :
        /\ \A i, j \in 1..Len(cookies) : i < j => at[i] < at[j]
        /\ \A i \in 1..Len(cookies) : stream[at[i]] = Heartbeat(cookies[i])
        /\ \A p \in 1..Len(stream) :
              stream[p].kind = "heartbeat" => \E i \in 1..Len(cookies) : at[i] = p
  BY DEF Carries
<1> DEFINE rest == After(stream, n)
<1>2. /\ Len(rest) = Len(stream) - n /\ Len(stream) \in Nat /\ Len(cookies) \in Nat
      /\ \A p \in 1..Len(rest) : rest[p] = stream[p + n]
  <2>1. /\ Len(After(stream, n)) = Len(stream) - n
        /\ \A p \in 1..(Len(stream) - n) : After(stream, n)[p] = stream[p + n]
    BY AfterRead
  <2> QED
    BY <2>1
<1>3. \A p \in 2..n : stream[p].kind # "heartbeat"
  BY DEF LostIn
<1>4. \A i \in 1..Len(cookies) : at[i] \in 1..Len(stream) /\ stream[at[i]].kind = "heartbeat"
  <2>1. \A i \in 1..Len(cookies) : cookies[i] \in Cookies
    OBVIOUS
  <2> QED
    BY <1>1, <2>1, PacketTypes
<1> HIDE DEF rest
<1>5. CASE stream[1].kind = "heartbeat"
  <2> DEFINE tail == Tail(cookies)
             to == [i \in 1..Len(tail) |-> at[i + 1] - n]
  <2>1. PICK i \in 1..Len(cookies) : at[i] = 1
    BY <1>1, <1>2, <1>5
  <2>2. i = 1
    BY <1>1, <1>2, <1>4, <2>1
  <2>3. cookies # <<>> /\ stream[1] = Heartbeat(cookies[1]) /\ at[1] = 1
    BY <1>1, <2>1, <2>2
  <2>4. /\ Len(tail) = Len(cookies) - 1 /\ Len(tail) \in Nat
        /\ \A j \in 1..Len(tail) : tail[j] = cookies[j + 1]
    BY <2>3
  <2>5. \A j \in 1..Len(tail) : at[j + 1] \in (n + 1)..Len(stream)
    <3> SUFFICES ASSUME NEW j \in 1..Len(tail) PROVE at[j + 1] \in (n + 1)..Len(stream)
      OBVIOUS
    <3>1. at[j + 1] > 1 /\ at[j + 1] \in 1..Len(stream) /\ stream[at[j + 1]].kind = "heartbeat"
      BY <1>1, <1>2, <1>4, <2>3, <2>4
    <3> QED
      BY <1>2, <1>3, <3>1
  <2>6. \A j \in 1..Len(tail) : to[j] = at[j + 1] - n
    OBVIOUS
  <2>7. to \in [1..Len(tail) -> 1..Len(rest)]
    <3>1. \A j \in 1..Len(tail) : at[j + 1] - n \in 1..Len(rest)
      BY <1>2, <2>5
    <3> QED
      BY <3>1
  <2> HIDE DEF tail, to
  <2>8. \A j, l \in 1..Len(tail) : j < l => to[j] < to[l]
    <3> SUFFICES ASSUME NEW j \in 1..Len(tail), NEW l \in 1..Len(tail), j < l
                 PROVE  to[j] < to[l]
      OBVIOUS
    <3>1. at[j + 1] < at[l + 1] /\ at[j + 1] \in Nat /\ at[l + 1] \in Nat
      BY <1>1, <1>2, <1>4, <2>4
    <3> QED
      BY <2>6, <3>1
  <2>9. \A j \in 1..Len(tail) : rest[to[j]] = Heartbeat(tail[j])
    <3> SUFFICES ASSUME NEW j \in 1..Len(tail) PROVE rest[to[j]] = Heartbeat(tail[j])
      OBVIOUS
    <3>1. to[j] \in 1..Len(rest) /\ to[j] = at[j + 1] - n /\ at[j + 1] \in (n + 1)..Len(stream)
      BY <2>5, <2>6, <2>7
    <3>2. to[j] + n = at[j + 1] /\ j + 1 \in 1..Len(cookies)
      <4>1. n \in Nat /\ Len(stream) \in Nat
        BY <1>2
      <4>2. at[j + 1] \in Nat /\ to[j] = at[j + 1] - n
        BY <3>1, <4>1
      <4>3. j \in 1..(Len(cookies) - 1) /\ Len(cookies) \in Nat
        BY <1>2, <2>4
      <4> QED
        BY <4>1, <4>2, <4>3
    <3> QED
      <4>1. rest[to[j]] = stream[at[j + 1]]
        BY <1>2, <3>1, <3>2
      <4>2. stream[at[j + 1]] = Heartbeat(cookies[j + 1]) /\ tail[j] = cookies[j + 1]
        BY <1>1, <2>4, <3>2
      <4> QED
        BY <4>1, <4>2
  <2>10. \A p \in 1..Len(rest) : rest[p].kind = "heartbeat" => \E j \in 1..Len(tail) : to[j] = p
    <3> SUFFICES ASSUME NEW p \in 1..Len(rest), rest[p].kind = "heartbeat"
                 PROVE  \E j \in 1..Len(tail) : to[j] = p
      OBVIOUS
    <3>1. p + n \in 1..Len(stream) /\ stream[p + n].kind = "heartbeat" /\ p + n # 1
      BY <1>2
    <3>2. PICK l \in 1..Len(cookies) : at[l] = p + n
      BY <1>1, <3>1
    <3>3. l - 1 \in 1..Len(tail) /\ to[l - 1] = p
      BY <1>2, <2>3, <2>4, <2>6, <3>1, <3>2
    <3> QED
      BY <3>3
  <2>11. Carries(rest, tail)
    BY <2>7, <2>8, <2>9, <2>10 DEF Carries
  <2> QED
    BY <1>5, <2>3, <2>11 DEF rest, tail
<1>6. CASE stream[1].kind # "heartbeat"
  <2> DEFINE to == [i \in 1..Len(cookies) |-> at[i] - n]
  <2>1. \A j \in 1..Len(cookies) : at[j] \in (n + 1)..Len(stream)
    <3> SUFFICES ASSUME NEW j \in 1..Len(cookies) PROVE at[j] \in (n + 1)..Len(stream)
      OBVIOUS
    <3>1. at[j] \in 1..Len(stream) /\ stream[at[j]].kind = "heartbeat"
      BY <1>4
    <3> QED
      BY <1>2, <1>3, <1>6, <3>1
  <2>2. \A j \in 1..Len(cookies) : to[j] = at[j] - n
    OBVIOUS
  <2>3. to \in [1..Len(cookies) -> 1..Len(rest)]
    BY <1>2, <2>1
  <2> HIDE DEF to
  <2>4. \A j, l \in 1..Len(cookies) : j < l => to[j] < to[l]
    <3> SUFFICES ASSUME NEW j \in 1..Len(cookies), NEW l \in 1..Len(cookies), j < l
                 PROVE  to[j] < to[l]
      OBVIOUS
    <3>1. at[j] < at[l] /\ at[j] \in Nat /\ at[l] \in Nat
      BY <1>1, <1>2, <1>4
    <3> QED
      BY <2>2, <3>1
  <2>5. \A j \in 1..Len(cookies) : rest[to[j]] = Heartbeat(cookies[j])
    <3> SUFFICES ASSUME NEW j \in 1..Len(cookies) PROVE rest[to[j]] = Heartbeat(cookies[j])
      OBVIOUS
    <3>1. to[j] \in 1..Len(rest) /\ to[j] = at[j] - n /\ at[j] \in (n + 1)..Len(stream)
      BY <2>1, <2>2, <2>3
    <3>2. to[j] + n = at[j]
      BY <1>2, <3>1
    <3> QED
      BY <1>1, <1>2, <3>1, <3>2
  <2>6. \A p \in 1..Len(rest) : rest[p].kind = "heartbeat" => \E j \in 1..Len(cookies) : to[j] = p
    <3> SUFFICES ASSUME NEW p \in 1..Len(rest), rest[p].kind = "heartbeat"
                 PROVE  \E j \in 1..Len(cookies) : to[j] = p
      OBVIOUS
    <3>1. p + n \in 1..Len(stream) /\ stream[p + n].kind = "heartbeat"
      BY <1>2
    <3>2. PICK l \in 1..Len(cookies) : at[l] = p + n
      BY <1>1, <3>1
    <3>3. to[l] = p
      BY <1>2, <2>2, <3>2
    <3> QED
      BY <3>3
  <2>7. Carries(rest, cookies)
    BY <2>3, <2>4, <2>5, <2>6 DEF Carries
  <2> QED
    BY <1>6, <2>7 DEF rest
<1> QED
  BY <1>5, <1>6

-----------------------------------------------------------------------------
(* The steps *)

\* The invariant holds when the client has sent its hello.
LEMMA InitInv == Init => Inv
<1> SUFFICES ASSUME Init PROVE Inv
  OBVIOUS
<1>1. /\ status = "open" /\ toServer = <<Packet("hello")>> /\ toClient = <<>>
      /\ ~handled /\ worker = "none" /\ expected = <<>> /\ cookie = 0 /\ hashAge = 0
      /\ handshakeCompleted = FALSE /\ handled = FALSE /\ sinceHash = HashPeriod /\ lost = {}
  BY DEF Init
<1>2. Packet("hello") \in Packets /\ Packet("hello").kind = "hello"
  BY PacketTypes DEF Kinds
<1>3. toServer \in Seq(Packets) /\ Len(toServer) = 1 /\ toServer[1] = Packet("hello")
      /\ toServer # <<>>
  BY <1>1, <1>2
<1>4. TypeInv
  <2>1. 0 \in Cookies /\ HashPeriod \in 0..HashPeriod /\ 0 \in Nat
    BY SessionAssumption DEF Cookies
  <2>2. <<>> \in Seq(Packets) /\ <<>> \in Seq(Cookies)
    OBVIOUS
  <2>3. handled \in BOOLEAN /\ handshakeCompleted \in BOOLEAN
    BY <1>1
  <2> QED
    BY <1>1, <1>3, <2>1, <2>2, <2>3 DEF TypeInv
<1>5. HeartbeatInv
  <2>1. Carries(toServer, <<>>)
    <3> DEFINE at == [i \in 1..0 |-> 1]
    <3>1. at \in [1..Len(<<>>) -> 1..Len(toServer)]
      OBVIOUS
    <3>2. \A p \in 1..Len(toServer) : toServer[p].kind # "heartbeat"
      BY <1>2, <1>3
    <3>3. /\ \A i, j \in 1..Len(<<>>) : i < j => at[i] < at[j]
          /\ \A i \in 1..Len(<<>>) : toServer[at[i]] = Heartbeat(<<>>[i])
      OBVIOUS
    <3> QED
      BY <3>1, <3>2, <3>3 DEF Carries
  <2>2. Carries(<<>>, <<>>)
    <3> DEFINE at == [i \in 1..0 |-> 1]
    <3>1. at \in [1..Len(<<>>) -> 1..Len(<<>>)]
      OBVIOUS
    <3>2. /\ \A i, j \in 1..Len(<<>>) : i < j => at[i] < at[j]
          /\ \A i \in 1..Len(<<>>) : <<>>[at[i]] = Heartbeat(<<>>[i])
          /\ \A p \in 1..Len(<<>>) : <<>>[p].kind = "heartbeat" => \E i \in 1..Len(<<>>) : at[i] = p
      OBVIOUS
    <3> QED
      BY <3>1, <3>2 DEF Carries
  <2>3. 0 \in 0..Len(expected) /\ SubSeq(expected, 1, 0) = <<>>
        /\ SubSeq(expected, 0 + 1, Len(expected)) = <<>>
    BY <1>1, SubSeqEmpty
  <2> QED
    BY <1>1, <2>1, <2>2, <2>3 DEF HeartbeatInv, NoFalseReject
<1>6. HelloInv
  BY <1>1, <1>2, <1>3 DEF HelloInv, NoHash, First
<1>7. HashInv
  BY <1>1 DEF HashInv, NoFalseTimeout
<1> QED
  BY <1>4, <1>5, <1>6, <1>7 DEF Inv

\* What the clock of the hash checks depends on, when the streams of the server grow.
LEMMA Added ==
    ASSUME NEW x \in Packets, toServer \in Seq(Packets), toServer' = Append(toServer, x)
    PROVE  /\ toServer' \in Seq(Packets)
           /\ NoHash' <=> (NoHash /\ x.kind # "hash")
           /\ \A kind \in Kinds : First(toServer, kind) => First(toServer, kind)'
<1>1. /\ toServer' \in Seq(Packets) /\ Len(toServer') = Len(toServer) + 1
      /\ Len(toServer) \in Nat /\ toServer'[Len(toServer) + 1] = x
      /\ \A p \in 1..Len(toServer) : toServer'[p] = toServer[p]
  OBVIOUS
<1>2. NoHash' <=> (NoHash /\ x.kind # "hash")
  <2>1. NoHash' => NoHash /\ x.kind # "hash"
    <3> SUFFICES ASSUME NoHash' PROVE NoHash /\ x.kind # "hash"
      OBVIOUS
    <3>1. Len(toServer) + 1 \in 1..Len(toServer') /\ \A p \in 1..Len(toServer) : p \in 1..Len(toServer')
      BY <1>1
    <3> QED
      BY <1>1, <3>1 DEF NoHash
  <2>2. NoHash /\ x.kind # "hash" => NoHash'
    <3> SUFFICES ASSUME NoHash, x.kind # "hash", NEW p \in 1..Len(toServer')
                 PROVE  toServer'[p].kind # "hash"
      BY DEF NoHash
    <3>1. p \in 1..Len(toServer) \/ p = Len(toServer) + 1
      BY <1>1
    <3> QED
      BY <1>1, <3>1 DEF NoHash
  <2> QED
    BY <2>1, <2>2
<1>3. \A kind \in Kinds : First(toServer, kind) => First(toServer, kind)'
  <2>1. toServer # <<>> => toServer' # <<>> /\ toServer'[1] = toServer[1]
    BY <1>1
  <2> QED
    BY <2>1 DEF First
<1> QED
  BY <1>1, <1>2, <1>3

\* A read of the server takes the first answer it expects, or loses one.
LEMMA ReceiveOnServerStep ==
    ASSUME Inv, NEW n \in 1..Len(toServer), ReceiveOnServer(n) PROVE Inv'
<1>a. TypeInv /\ HeartbeatInv /\ HelloInv /\ HashInv
  BY DEF Inv
<1> DEFINE p == toServer[1]
<1>b. /\ status = "open" /\ ~handled /\ handled' = TRUE
      /\ toServer' = After(toServer, n) /\ lost' = lost \cup LostIn(toServer, n)
      /\ toClient' = IF p.kind = "hello" THEN Append(toClient, Packet("hello")) ELSE toClient
      /\ hashAge' = IF p.kind = "hash" THEN 0 ELSE hashAge
      /\ UNCHANGED <<inHeartbeatLoop, worker, cookie, handshakeCompleted, sinceHash>>
  BY DEF ReceiveOnServer, Handle, Answer, workerVars, clientVars
<1>c. \/ /\ p.kind # "heartbeat" /\ status' = status /\ expected' = expected
      \/ /\ p.kind = "heartbeat" /\ expected # <<>> /\ Head(expected) = p.cookie
         /\ status' = "open" /\ expected' = Tail(expected)
      \/ /\ p.kind = "heartbeat" /\ ~(expected # <<>> /\ Head(expected) = p.cookie)
         /\ status' = "rejected" /\ expected' \in {expected, Tail(expected)}
         /\ expected = <<>> => expected' = expected
  BY DEF ReceiveOnServer, Handle, CheckHeartbeat
<1>d. /\ toServer \in Seq(Packets) /\ toClient \in Seq(Packets) /\ expected \in Seq(Cookies)
      /\ hashAge \in Nat /\ Len(toServer) \in Nat /\ p \in Packets /\ Len(expected) \in Nat
  BY <1>a DEF TypeInv
<1>e. /\ toServer' \in Seq(Packets) /\ Len(toServer') = Len(toServer) - n
      /\ \A q \in 1..(Len(toServer) - n) : toServer'[q] = toServer[q + n]
  BY <1>b, <1>d, AfterRead
<1>f. toClient' \in Seq(Packets)
  BY <1>b, <1>d, PacketTypes
<1>g. expected' \in Seq(Cookies)
  <2>1. expected # <<>> => Tail(expected) \in Seq(Cookies)
    BY <1>d
  <2> QED
    BY <1>c, <1>d, <2>1
<1> HIDE DEF p
<1>1. TypeInv'
  BY <1>a, <1>b, <1>e, <1>f, <1>g DEF TypeInv
<1>2. HeartbeatInv'
  <2>1. CASE "heartbeat" \in lost'
    BY <2>1, <1>b, <1>c, <1>a DEF HeartbeatInv, NoFalseReject
  <2>2. CASE "heartbeat" \notin lost'
    <3>1. "heartbeat" \notin lost /\ "heartbeat" \notin LostIn(toServer, n)
      BY <2>2, <1>b
    <3>2. PICK k \in 0..Len(expected) :
            /\ Carries(toServer, SubSeq(expected, 1, k))
            /\ Carries(toClient, SubSeq(expected, k + 1, Len(expected)))
      BY <3>1, <1>a, <1>b DEF HeartbeatInv
    <3> DEFINE a == SubSeq(expected, 1, k)
               b == SubSeq(expected, k + 1, Len(expected))
    <3>3. /\ a \in Seq(Cookies) /\ Len(a) = k /\ \A i \in 1..k : a[i] = expected[i]
          /\ b \in Seq(Cookies) /\ Len(b) = Len(expected) - k
          /\ \A i \in 1..(Len(expected) - k) : b[i] = expected[k + i]
      BY <1>d, Parts
    <3>4. IF p.kind = "heartbeat"
          THEN a # <<>> /\ p = Heartbeat(a[1]) /\ Carries(toServer', Tail(a))
          ELSE Carries(toServer', a)
      BY <3>1, <3>2, <3>3, <1>b, <1>d, CarriesRead DEF p
    <3>5. Carries(toClient', b)
      BY <3>2, <3>3, <1>b, <1>d, CarriesOther, PacketTypes DEF Kinds
    <3>6. CASE p.kind # "heartbeat"
      BY <3>4, <3>5, <3>6, <1>a, <1>b, <1>c DEF HeartbeatInv, NoFalseReject
    <3>7. CASE p.kind = "heartbeat"
      <4>1. a # <<>> /\ p = Heartbeat(a[1]) /\ Carries(toServer', Tail(a))
        BY <3>4, <3>7
      <4>2. k >= 1 /\ expected # <<>> /\ Head(expected) = a[1] /\ a[1] \in Cookies
        BY <4>1, <3>3, <1>d
      <4>3. p.cookie = Head(expected)
        BY <4>1, <4>2, PacketTypes
      <4>4. status' = "open" /\ expected' = Tail(expected)
        BY <4>2, <4>3, <3>7, <1>c
      <4>5. /\ Len(expected') = Len(expected) - 1
            /\ \A i \in 1..Len(expected') : expected'[i] = expected[i + 1]
        BY <4>2, <4>4, <1>d
      <4>6. k - 1 \in 0..Len(expected')
        BY <4>2, <4>5, <1>d
      <4> DEFINE c == SubSeq(expected', 1, k - 1)
                 d == SubSeq(expected', (k - 1) + 1, Len(expected'))
      <4>7. /\ c \in Seq(Cookies) /\ Len(c) = k - 1
            /\ \A i \in 1..(k - 1) : c[i] = expected'[i]
            /\ d \in Seq(Cookies) /\ Len(d) = Len(expected') - (k - 1)
            /\ \A i \in 1..(Len(expected') - (k - 1)) : d[i] = expected'[(k - 1) + i]
        BY <4>6, <1>g, Parts
      <4>8. Tail(a) \in Seq(Cookies) /\ Len(Tail(a)) = k - 1 /\ \A i \in 1..(k - 1) : Tail(a)[i] = a[i + 1]
        BY <4>1, <3>3
      <4> HIDE DEF a, b, c, d
      <4>9. \A i \in 1..(k - 1) : Tail(a)[i] = c[i]
        <5> SUFFICES ASSUME NEW i \in 1..(k - 1) PROVE Tail(a)[i] = c[i]
          OBVIOUS
        <5>1. i \in 1..Len(expected') /\ i + 1 \in 1..k
          BY <4>2, <4>5, <4>6, <1>d
        <5>2. Tail(a)[i] = a[i + 1] /\ c[i] = expected'[i]
          BY <4>7, <4>8
        <5>3. a[i + 1] = expected[i + 1] /\ expected'[i] = expected[i + 1]
          BY <4>5, <3>3, <5>1
        <5> QED
          BY <5>2, <5>3
      <4>10. Carries(toServer', c)
        BY <4>1, <4>7, <4>8, <4>9, CarriesSame
      <4>11. Len(b) = Len(d) /\ \A i \in 1..Len(b) : b[i] = d[i]
        <5>1. Len(b) = Len(d)
          BY <4>2, <4>5, <4>6, <4>7, <3>3, <1>d
        <5>2. ASSUME NEW i \in 1..(Len(expected) - k) PROVE b[i] = d[i]
          <6>1. /\ i \in 1..(Len(expected') - (k - 1)) /\ (k - 1) + i \in 1..Len(expected')
                /\ ((k - 1) + i) + 1 = k + i
            BY <4>2, <4>5, <4>6, <1>d, <5>2
          <6>2. d[i] = expected'[(k - 1) + i]
            BY <4>7, <6>1
          <6>3. expected'[(k - 1) + i] = expected[((k - 1) + i) + 1]
            BY <4>5, <6>1
          <6>4. b[i] = expected[k + i]
            BY <3>3, <5>2
          <6> QED
            BY <6>1, <6>2, <6>3, <6>4
        <5> QED
          BY <5>1, <5>2, <3>3
      <4>12. Carries(toClient', d)
        BY <3>3, <3>5, <4>7, <4>11, CarriesSame
      <4> QED
        BY <4>4, <4>6, <4>10, <4>12 DEF HeartbeatInv, NoFalseReject, c, d
    <3> QED
      BY <3>6, <3>7
  <2> QED
    BY <2>1, <2>2
\* A hash check is gone when it was handled or lost.
<1>3. NoHash => NoHash'
  <2> SUFFICES ASSUME NoHash, NEW q \in 1..Len(toServer') PROVE toServer'[q].kind # "hash"
    BY DEF NoHash
  <2>1. q + n \in 1..Len(toServer) /\ toServer'[q] = toServer[q + n]
    BY <1>d, <1>e
  <2> QED
    BY <2>1 DEF NoHash
<1>4. NoHash' /\ ~NoHash => p.kind = "hash" \/ "hash" \in lost'
  <2> SUFFICES ASSUME NoHash', ~NoHash PROVE p.kind = "hash" \/ "hash" \in lost'
    OBVIOUS
  <2>1. PICK q \in 1..Len(toServer) : toServer[q].kind = "hash"
    BY DEF NoHash
  <2>2. CASE q > n
    <3>1. q - n \in 1..Len(toServer') /\ toServer'[q - n] = toServer[q]
      <4>1. q - n \in 1..(Len(toServer) - n) /\ (q - n) + n = q
        BY <2>2, <1>d
      <4> QED
        BY <4>1, <1>e
    <3> QED
      BY <2>1, <3>1 DEF NoHash
  <2>3. CASE q <= n
    BY <2>1, <2>3, <1>b, <1>d DEF p, LostIn
  <2> QED
    BY <2>2, <2>3, <1>d
<1>5. HelloInv'
  <2> SUFFICES ASSUME status' = "open", ~handshakeCompleted' PROVE HelloInv'
    BY DEF HelloInv
  <2>1. /\ NoHash /\ hashAge = 0 /\ sinceHash = HashPeriod
        /\ \/ First(toServer, "hello") /\ toClient = <<>> /\ worker = "none" /\ ~handled
           \/ First(toClient, "hello")
    BY <1>a, <1>b DEF HelloInv
  <2>2. First(toClient', "hello")
    <3>1. CASE First(toClient, "hello")
      <4>1. toClient # <<>> => toClient' # <<>> /\ toClient'[1] = toClient[1]
        <5>1. Packet("hello") \in Packets
          BY PacketTypes
        <5>2. toClient # <<>> => /\ Append(toClient, Packet("hello")) # <<>>
                                 /\ Append(toClient, Packet("hello"))[1] = toClient[1]
          BY <5>1, <1>d
        <5> QED
          BY <5>2, <1>b
      <4> QED
        BY <3>1, <4>1 DEF First
    <3>2. CASE First(toServer, "hello") /\ toClient = <<>>
      <4>1. p.kind = "hello" /\ toClient' = <<Packet("hello")>>
        BY <3>2, <1>b DEF First, p
      <4> QED
        BY <4>1, PacketTypes DEF First, Kinds
    <3> QED
      BY <2>1, <3>1, <3>2
  <2> QED
    BY <2>1, <2>2, <1>3, <1>b DEF HelloInv, First
<1>6. HashInv'
  <2>1. NoFalseTimeout'
    BY <1>a, <1>b, <1>c DEF HashInv, NoFalseTimeout
  <2> SUFFICES ASSUME status' = "open", handshakeCompleted', "hash" \notin lost'
               PROVE  /\ hashAge' <= HashPeriod
                      /\ NoHash' => hashAge' <= sinceHash'
                      /\ ~NoHash' => sinceHash' = 0
    BY <2>1 DEF HashInv
  <2>2. /\ hashAge <= HashPeriod /\ (NoHash => hashAge <= sinceHash) /\ (~NoHash => sinceHash = 0)
    BY <1>a, <1>b DEF HashInv
  <2>3. HashPeriod \in Nat /\ sinceHash \in Nat
    BY <1>a, SessionAssumption DEF TypeInv
  <2> QED
    BY <2>2, <2>3, <1>3, <1>4, <1>b
<1> QED
  BY <1>1, <1>2, <1>5, <1>6 DEF Inv

\* A new heartbeat goes to the end of both lists.
LEMMA SendHeartbeatStep == ASSUME Inv, SendHeartbeat PROVE Inv'
<1>a. TypeInv /\ HeartbeatInv /\ HelloInv /\ HashInv
  BY DEF Inv
<1>b. /\ status = "open" /\ worker = "queued" /\ expected' = Append(expected, cookie)
      /\ toClient' = Append(toClient, Heartbeat(cookie))
      /\ cookie' = (cookie + 1) % Cardinality(Cookies)
      /\ UNCHANGED <<status, toServer, lost, handled, hashAge, inHeartbeatLoop>>
      /\ UNCHANGED <<handshakeCompleted, sinceHash>>
  BY DEF SendHeartbeat, clientVars
<1>c. /\ toServer \in Seq(Packets) /\ toClient \in Seq(Packets) /\ expected \in Seq(Cookies)
      /\ cookie \in Cookies /\ Len(expected) \in Nat /\ Heartbeat(cookie) \in Packets
  BY <1>a, PacketTypes DEF TypeInv
<1>d. /\ Len(expected') = Len(expected) + 1 /\ expected' \in Seq(Cookies)
      /\ \A i \in 1..Len(expected) : expected'[i] = expected[i]
      /\ expected'[Len(expected) + 1] = cookie
  BY <1>b, <1>c
<1>1. TypeInv'
  <2>1. cookie' \in Cookies
    <3>1. Cardinality(Cookies) = 2 * MaxHeartbeats + 1
      BY SessionAssumption, FS_Interval DEF Cookies
    <3>2. cookie + 1 \in Nat /\ 2 * MaxHeartbeats + 1 \in Nat \ {0}
      BY <1>c, SessionAssumption DEF Cookies
    <3>3. \A x \in Nat, y \in Nat \ {0} : x % y \in 0..(y - 1)
      OBVIOUS
    <3>4. cookie' \in 0..((2 * MaxHeartbeats + 1) - 1)
      BY <1>b, <3>1, <3>2, <3>3
    <3>5. (2 * MaxHeartbeats + 1) - 1 = 2 * MaxHeartbeats
      BY SessionAssumption
    <3> QED
      BY <3>4, <3>5 DEF Cookies
  <2>2. toClient' \in Seq(Packets)
    BY <1>b, <1>c
  <2> QED
    BY <2>1, <2>2, <1>a, <1>b, <1>d DEF TypeInv
<1>2. HeartbeatInv'
  <2> SUFFICES ASSUME "heartbeat" \notin lost'
               PROVE  \E k \in 0..Len(expected') :
                        /\ Carries(toServer', SubSeq(expected', 1, k))
                        /\ Carries(toClient', SubSeq(expected', k + 1, Len(expected')))
    BY <1>a, <1>b DEF HeartbeatInv, NoFalseReject
  <2>1. PICK k \in 0..Len(expected) :
          /\ Carries(toServer, SubSeq(expected, 1, k))
          /\ Carries(toClient, SubSeq(expected, k + 1, Len(expected)))
    BY <1>a, <1>b DEF HeartbeatInv
  <2> DEFINE a == SubSeq(expected, 1, k)
             b == SubSeq(expected, k + 1, Len(expected))
             c == SubSeq(expected', 1, k)
             d == SubSeq(expected', k + 1, Len(expected'))
  <2>2. /\ a \in Seq(Cookies) /\ Len(a) = k /\ \A i \in 1..k : a[i] = expected[i]
        /\ b \in Seq(Cookies) /\ Len(b) = Len(expected) - k
        /\ \A i \in 1..(Len(expected) - k) : b[i] = expected[k + i]
    BY <1>c, Parts
  <2>3. k \in 0..Len(expected')
    BY <1>c, <1>d
  <2>4. /\ c \in Seq(Cookies) /\ Len(c) = k /\ \A i \in 1..k : c[i] = expected'[i]
        /\ d \in Seq(Cookies) /\ Len(d) = Len(expected') - k
        /\ \A i \in 1..(Len(expected') - k) : d[i] = expected'[k + i]
    BY <1>d, <2>3, Parts
  <2>5. Carries(toServer', a) /\ Carries(toClient', Append(b, cookie))
    BY <2>1, <2>2, <1>b, <1>c, CarriesMore
  <2> HIDE DEF a, b, c, d
  <2>6. /\ Append(b, cookie) \in Seq(Cookies) /\ Len(Append(b, cookie)) = Len(b) + 1
        /\ \A i \in 1..Len(b) : Append(b, cookie)[i] = b[i]
        /\ Append(b, cookie)[Len(b) + 1] = cookie
    <3>1. b \in Seq(Cookies) /\ cookie \in Cookies
      BY <2>2, <1>c
    <3> QED
      BY <3>1, Appended
  <2>7. Carries(toServer', c)
    <3>1. \A i \in 1..k : a[i] = c[i]
      <4> SUFFICES ASSUME NEW i \in 1..k PROVE a[i] = c[i]
        OBVIOUS
      <4>1. i \in 1..Len(expected)
        BY <1>c
      <4> QED
        BY <4>1, <2>2, <2>4, <1>d
    <3> QED
      BY <2>2, <2>4, <2>5, <3>1, CarriesSame
  <2>8. Carries(toClient', d)
    <3>1. Len(Append(b, cookie)) = Len(d) /\ Len(d) = Len(expected) + 1 - k
      BY <2>2, <2>4, <2>6, <1>c, <1>d
    <3>2. ASSUME NEW i \in 1..Len(d) PROVE Append(b, cookie)[i] = d[i]
      <4>1. CASE i \in 1..Len(b)
        <5>1. k + i \in 1..Len(expected) /\ i \in 1..(Len(expected) - k)
              /\ i \in 1..(Len(expected') - k)
          BY <4>1, <2>2, <1>c, <1>d
        <5> QED
          BY <4>1, <5>1, <2>2, <2>4, <2>6, <1>d
      <4>2. CASE i \notin 1..Len(b)
        <5>1. i = Len(b) + 1 /\ k + i = Len(expected) + 1 /\ i \in 1..(Len(expected') - k)
          <6>1. i \in 1..(Len(b) + 1) /\ Len(b) \in Nat /\ Len(b) = Len(expected) - k
            BY <3>1, <3>2, <2>2, <1>c
          <6>2. i = Len(b) + 1
            BY <4>2, <6>1
          <6> QED
            BY <6>1, <6>2, <1>c, <1>d
        <5> QED
          BY <5>1, <2>4, <2>6, <1>d
      <4> QED
        BY <4>1, <4>2
    <3> QED
      BY <2>4, <2>5, <2>6, <3>1, <3>2, CarriesSame
  <2> QED
    BY <2>3, <2>7, <2>8 DEF c, d
<1>3. HelloInv'
  <2> SUFFICES ASSUME ~handshakeCompleted PROVE HelloInv'
    BY <1>b DEF HelloInv
  <2>1. First(toClient, "hello")
    BY <1>a, <1>b DEF HelloInv
  <2>2. toClient # <<>> /\ toClient' # <<>> /\ toClient'[1] = toClient[1]
    BY <2>1, <1>b, <1>c DEF First
  <2> QED
    BY <2>1, <2>2, <1>a, <1>b DEF HelloInv, First, NoHash
<1>4. HashInv'
  BY <1>a, <1>b DEF HashInv, NoHash, NoFalseTimeout
<1> QED
  BY <1>1, <1>2, <1>3, <1>4 DEF Inv

\* The client answers the first heartbeat that is not answered yet.
LEMMA ReceiveOnClientStep ==
    ASSUME Inv, NEW n \in 1..Len(toClient), ReceiveOnClient(n) PROVE Inv'
<1>a. TypeInv /\ HeartbeatInv /\ HelloInv /\ HashInv
  BY DEF Inv
<1> DEFINE p == toClient[1]
<1>b. /\ status = "open" /\ toClient' = After(toClient, n)
      /\ lost' = lost \cup LostIn(toClient, n)
      /\ UNCHANGED <<status, handled, expected, hashAge, inHeartbeatLoop, worker, cookie,
                     sinceHash>>
      /\ \/ p.kind = "hello" /\ handshakeCompleted' = TRUE /\ toServer' = toServer
         \/ /\ p.kind = "heartbeat" /\ toServer' = Append(toServer, Heartbeat(p.cookie))
            /\ handshakeCompleted' = handshakeCompleted
  BY DEF ReceiveOnClient, callbackVars, workerVars
<1>c. /\ toServer \in Seq(Packets) /\ toClient \in Seq(Packets) /\ expected \in Seq(Cookies)
      /\ p \in Packets /\ Len(expected) \in Nat
      /\ p.kind = "heartbeat" => p.cookie \in Cookies /\ p = Heartbeat(p.cookie)
  BY <1>a, PacketTypes DEF TypeInv
<1>d. toClient' \in Seq(Packets)
  BY <1>b, <1>c, AfterRead
<1> HIDE DEF p
<1>e. toServer' \in Seq(Packets)
  <2>1. \A x \in Packets : Append(toServer, x) \in Seq(Packets)
    BY <1>c
  <2> QED
    BY <1>b, <1>c, <2>1, PacketTypes
<1>f. NoHash' <=> NoHash
  <2>1. CASE toServer' = toServer
    BY <2>1 DEF NoHash
  <2>2. CASE toServer' # toServer
    BY <2>2, <1>b, <1>c, Added, PacketTypes
  <2> QED
    BY <2>1, <2>2
<1>1. TypeInv'
  BY <1>a, <1>b, <1>d, <1>e DEF TypeInv
<1>2. HeartbeatInv'
  <2> SUFFICES ASSUME "heartbeat" \notin lost'
               PROVE  \E k \in 0..Len(expected') :
                        /\ Carries(toServer', SubSeq(expected', 1, k))
                        /\ Carries(toClient', SubSeq(expected', k + 1, Len(expected')))
    BY <1>a, <1>b DEF HeartbeatInv, NoFalseReject
  <2>1. "heartbeat" \notin lost /\ "heartbeat" \notin LostIn(toClient, n)
    BY <1>b
  <2>2. PICK k \in 0..Len(expected) :
          /\ Carries(toServer, SubSeq(expected, 1, k))
          /\ Carries(toClient, SubSeq(expected, k + 1, Len(expected)))
    BY <2>1, <1>a, <1>b DEF HeartbeatInv
  <2> DEFINE a == SubSeq(expected, 1, k)
             b == SubSeq(expected, k + 1, Len(expected))
  <2>3. /\ a \in Seq(Cookies) /\ Len(a) = k /\ \A i \in 1..k : a[i] = expected[i]
        /\ b \in Seq(Cookies) /\ Len(b) = Len(expected) - k
        /\ \A i \in 1..(Len(expected) - k) : b[i] = expected[k + i]
    <3>1. expected \in Seq(Cookies)
      BY <1>c
    <3> QED
      BY <3>1, Parts
  <2>4. IF p.kind = "heartbeat"
        THEN b # <<>> /\ p = Heartbeat(b[1]) /\ Carries(toClient', Tail(b))
        ELSE Carries(toClient', b)
    BY <2>1, <2>2, <2>3, <1>b, <1>c, CarriesRead DEF p
  <2>5. CASE p.kind = "hello"
    BY <2>2, <2>4, <2>5, <1>b DEF a, b
  <2>6. CASE p.kind = "heartbeat"
    <3>1. /\ b # <<>> /\ p = Heartbeat(b[1]) /\ Carries(toClient', Tail(b))
          /\ toServer' = Append(toServer, Heartbeat(p.cookie))
      BY <2>4, <2>6, <1>b
    <3>2. k + 1 \in 0..Len(expected) /\ k + 1 \in 1..Len(expected) /\ b[1] = expected[k + 1]
          /\ b[1] \in Cookies
      BY <3>1, <2>3, <1>c
    <3>3. p.cookie = b[1]
      BY <3>1, <3>2, PacketTypes
    <3> DEFINE c == SubSeq(expected, 1, k + 1)
               d == SubSeq(expected, (k + 1) + 1, Len(expected))
    <3>4. /\ c \in Seq(Cookies) /\ Len(c) = k + 1 /\ \A i \in 1..(k + 1) : c[i] = expected[i]
          /\ d \in Seq(Cookies) /\ Len(d) = Len(expected) - (k + 1)
          /\ \A i \in 1..(Len(expected) - (k + 1)) : d[i] = expected[(k + 1) + i]
      BY <1>c, <3>2, Parts
    <3>5. Carries(toServer', Append(a, b[1]))
      BY <2>2, <2>3, <3>1, <3>2, <3>3, <1>c, CarriesMore
    <3>6. /\ Append(a, b[1]) \in Seq(Cookies) /\ Len(Append(a, b[1])) = k + 1
          /\ \A i \in 1..k : Append(a, b[1])[i] = a[i]
          /\ Append(a, b[1])[k + 1] = b[1]
      BY <2>3, <3>2
    <3>7. /\ Tail(b) \in Seq(Cookies) /\ Len(Tail(b)) = Len(b) - 1
          /\ \A i \in 1..(Len(b) - 1) : Tail(b)[i] = b[i + 1]
      BY <2>3, <3>1
    <3> HIDE DEF a, b, c, d
    <3>8. Carries(toServer', c)
      <4>1. ASSUME NEW i \in 1..(k + 1) PROVE Append(a, b[1])[i] = c[i]
        <5>1. i \in 1..k \/ i = k + 1
          BY <4>1
        <5> QED
          BY <5>1, <2>3, <3>2, <3>4, <3>6
      <4> QED
        BY <4>1, <3>4, <3>5, <3>6, CarriesSame
    <3>9. Carries(toClient', d)
      <4>1. Len(Tail(b)) = Len(d) /\ Len(d) = Len(expected) - (k + 1)
        BY <2>3, <3>4, <3>7, <1>c
      <4>2. ASSUME NEW i \in 1..Len(d) PROVE Tail(b)[i] = d[i]
        <5>1. /\ i \in 1..(Len(b) - 1) /\ i + 1 \in 1..(Len(expected) - k)
              /\ k + (i + 1) = (k + 1) + i
          BY <4>1, <4>2, <2>3, <1>c
        <5> QED
          BY <5>1, <4>1, <4>2, <2>3, <3>4, <3>7
      <4> QED
        BY <4>1, <4>2, <3>1, <3>4, <3>7, CarriesSame
    <3> QED
      BY <3>2, <3>8, <3>9, <1>b DEF c, d
  <2> QED
    BY <2>5, <2>6, <1>b
<1>3. HelloInv'
  <2> SUFFICES ASSUME ~handshakeCompleted' PROVE HelloInv'
    BY DEF HelloInv
  <2>1. p.kind = "heartbeat" /\ ~handshakeCompleted
    BY <1>b
  <2>2. toClient # <<>>
    BY <1>c
  <2> QED
    BY <2>1, <2>2, <1>a, <1>b DEF HelloInv, First, p
<1>4. HashInv'
  <2>1. CASE handshakeCompleted
    BY <2>1, <1>a, <1>b, <1>f DEF HashInv, NoFalseTimeout
  <2>2. CASE ~handshakeCompleted
    BY <2>2, <1>a, <1>b, <1>f, SessionAssumption DEF HashInv, HelloInv, NoFalseTimeout
  <2> QED
    BY <2>1, <2>2
<1> QED
  BY <1>1, <1>2, <1>3, <1>4 DEF Inv

\* The client's own packets go between the answers.
LEMMA SendStep == ASSUME Inv, SendHash \/ SendInfo PROVE Inv'
<1>a. TypeInv /\ HeartbeatInv /\ HelloInv /\ HashInv
  BY DEF Inv
<1>b. PICK kind \in {"hash", "info"} :
        /\ status = "open" /\ toServer' = Append(toServer, Packet(kind))
        /\ kind = "hash" => handshakeCompleted /\ sinceHash' = 0
        /\ kind # "hash" => sinceHash' = sinceHash
  BY DEF SendHash, SendInfo, clientVars
<1>c. UNCHANGED <<status, toClient, lost, handled, expected, hashAge, worker, cookie,
                  handshakeCompleted>>
  BY DEF SendHash, SendInfo, clientVars, callbackVars, workerVars
<1>d. /\ Packet(kind) \in Packets /\ Packet(kind).kind = kind /\ kind # "heartbeat"
      /\ toServer \in Seq(Packets) /\ expected \in Seq(Cookies)
  BY <1>a, PacketTypes DEF TypeInv, Kinds
<1>e. /\ toServer' \in Seq(Packets) /\ (NoHash' <=> NoHash /\ kind # "hash")
      /\ First(toServer, "hello") => First(toServer', "hello")
  BY <1>b, <1>d, Added, PacketTypes DEF First
<1>1. TypeInv'
  BY <1>a, <1>b, <1>c, <1>e, SessionAssumption DEF TypeInv
<1>2. HeartbeatInv'
  <2> SUFFICES ASSUME "heartbeat" \notin lost
               PROVE  \E k \in 0..Len(expected) :
                        /\ Carries(toServer', SubSeq(expected, 1, k))
                        /\ Carries(toClient, SubSeq(expected, k + 1, Len(expected)))
    BY <1>a, <1>b, <1>c DEF HeartbeatInv, NoFalseReject
  <2>1. PICK k \in 0..Len(expected) :
          /\ Carries(toServer, SubSeq(expected, 1, k))
          /\ Carries(toClient, SubSeq(expected, k + 1, Len(expected)))
    BY <1>a, <1>b DEF HeartbeatInv
  <2>2. SubSeq(expected, 1, k) \in Seq(Cookies)
    BY <1>d, Parts
  <2>3. Carries(toServer', SubSeq(expected, 1, k))
    BY <2>1, <2>2, <1>b, <1>d, CarriesOther
  <2> QED
    BY <2>1, <2>3
<1>3. HelloInv'
  BY <1>a, <1>b, <1>c, <1>e DEF HelloInv, First
<1>4. HashInv'
  BY <1>a, <1>b, <1>c, <1>e DEF HashInv, NoFalseTimeout
<1> QED
  BY <1>1, <1>2, <1>3, <1>4 DEF Inv

\* The streams stay: the worker, the monitor, the end of the session, time.
LEMMA OtherStep ==
    ASSUME Inv,
           QueueWorker \/ WorkerEnds \/ MonitorTimesOut \/ Goodbye \/ TimePasses
               \/ UNCHANGED vars
    PROVE  Inv'
<1>a. TypeInv /\ HeartbeatInv /\ HelloInv /\ HashInv
  BY DEF Inv
<1>b. UNCHANGED <<toServer, toClient, lost, expected, cookie, handshakeCompleted>>
  BY DEF QueueWorker, WorkerEnds, MonitorTimesOut, Goodbye, TimePasses, vars, streams,
     callbackVars, workerVars, clientVars
<1>c. ASSUME handled' \in BOOLEAN, hashAge' \in Nat, sinceHash' \in 0..HashPeriod PROVE TypeInv'
  BY <1>a, <1>b, <1>c DEF TypeInv
<1>d. handled \in BOOLEAN /\ hashAge \in Nat /\ sinceHash \in 0..HashPeriod
  BY <1>a DEF TypeInv
<1>e. HashPeriod \in Nat /\ MaxHashDelay \in Nat /\ HashPeriod <= MaxHashDelay
  BY SessionAssumption
<1>1. CASE QueueWorker
  <2>1. status' = status /\ hashAge' = hashAge /\ sinceHash' = sinceHash /\ handled /\ handled' = FALSE
    BY <1>1 DEF QueueWorker, clientVars
  <2>2. HeartbeatInv' /\ HashInv'
    BY <2>1, <1>a, <1>b DEF HeartbeatInv, HashInv, NoHash, NoFalseReject, NoFalseTimeout
  <2>3. HelloInv'
    BY <2>1, <1>a, <1>b DEF HelloInv, NoHash, First
  <2> QED
    BY <2>1, <2>2, <2>3, <1>c, <1>d DEF Inv
<1>2. CASE WorkerEnds
  <2>1. status' = status /\ hashAge' = hashAge /\ sinceHash' = sinceHash /\ handled' = handled
        /\ worker' = "none"
    BY <1>2 DEF WorkerEnds, clientVars, callbackVars
  <2>2. HeartbeatInv' /\ HashInv'
    BY <2>1, <1>a, <1>b DEF HeartbeatInv, HashInv, NoHash, NoFalseReject, NoFalseTimeout
  <2>3. HelloInv'
    BY <2>1, <1>a, <1>b DEF HelloInv, NoHash, First
  <2> QED
    BY <2>1, <2>2, <2>3, <1>c, <1>d DEF Inv
<1>3. CASE MonitorTimesOut
  <2>1. status = "open" /\ status' = "timedOut" /\ hashAge > MaxHashDelay
        /\ hashAge' = hashAge /\ sinceHash' = sinceHash /\ handled' = handled
    BY <1>3 DEF MonitorTimesOut, clientVars, callbackVars
  <2>2. "hash" \in lost
    BY <2>1, <1>a, <1>d, <1>e DEF HashInv, HelloInv
  <2> QED
    BY <2>1, <2>2, <1>b, <1>c, <1>d
    DEF Inv, HeartbeatInv, HashInv, HelloInv, NoFalseReject, NoFalseTimeout
<1>4. CASE Goodbye
  <2>1. status' = "left" /\ hashAge' = hashAge /\ sinceHash' = sinceHash /\ handled' = handled
    BY <1>4 DEF Goodbye, clientVars, callbackVars
  <2> QED
    BY <2>1, <1>b, <1>c, <1>d
    DEF Inv, HeartbeatInv, HashInv, HelloInv, NoFalseReject, NoFalseTimeout
<1>5. CASE TimePasses
  <2>1. /\ status = "open" /\ status' = status /\ handled' = handled
        /\ toServer = <<>> /\ toClient = <<>>
        /\ ~(handshakeCompleted /\ sinceHash = HashPeriod) /\ hashAge' = hashAge + 1
        /\ sinceHash' = IF sinceHash < HashPeriod THEN sinceHash + 1 ELSE sinceHash
    BY <1>5 DEF TimePasses
  <2>2. handshakeCompleted /\ NoHash
    BY <2>1, <1>a DEF HelloInv, First, NoHash
  <2>3. sinceHash < HashPeriod /\ sinceHash' = sinceHash + 1
    BY <2>1, <2>2, <1>d, <1>e
  <2>4. TypeInv'
    BY <2>1, <2>3, <1>c, <1>d, <1>e
  <2>5. NoHash'
    BY <2>2, <1>b DEF NoHash
  <2>6. "hash" \notin lost => hashAge' <= sinceHash' /\ hashAge' <= HashPeriod
    BY <2>1, <2>2, <2>3, <1>a, <1>d, <1>e DEF HashInv
  <2>7. HashInv'
    BY <2>1, <2>5, <2>6, <1>b DEF HashInv, NoFalseTimeout
  <2>8. HelloInv' /\ HeartbeatInv'
    BY <2>1, <2>2, <1>a, <1>b DEF HelloInv, HeartbeatInv, NoFalseReject
  <2> QED
    BY <2>4, <2>7, <2>8 DEF Inv
<1>6. CASE UNCHANGED vars
  <2>1. UNCHANGED <<status, hashAge, sinceHash, handled, worker>>
    BY <1>6 DEF vars, callbackVars, workerVars, clientVars
  <2>2. HeartbeatInv' /\ HashInv'
    BY <2>1, <1>a, <1>b DEF HeartbeatInv, HashInv, NoHash, NoFalseReject, NoFalseTimeout
  <2>3. HelloInv'
    BY <2>1, <1>a, <1>b DEF HelloInv, NoHash, First
  <2> QED
    BY <2>1, <2>2, <2>3, <1>c, <1>d DEF Inv
<1> QED
  BY <1>1, <1>2, <1>3, <1>4, <1>5, <1>6

\* The invariant is inductive.
LEMMA InvStep == Inv /\ [Next]_vars => Inv'
<1> SUFFICES ASSUME Inv, [Next]_vars PROVE Inv'
  OBVIOUS
<1>1. CASE ReadCallback
  BY <1>1, ReceiveOnServerStep, OtherStep DEF ReadCallback
<1>2. CASE Worker
  BY <1>2, SendHeartbeatStep, OtherStep DEF Worker
<1>3. CASE RecvThread
  BY <1>3, ReceiveOnClientStep DEF RecvThread
<1>4. CASE SendHash \/ SendInfo
  BY <1>4, SendStep
<1>5. CASE MonitorTimesOut \/ Goodbye \/ TimePasses \/ UNCHANGED vars
  BY <1>5, OtherStep
<1> QED
  BY <1>1, <1>2, <1>3, <1>4, <1>5 DEF Next

-----------------------------------------------------------------------------

\* The invariant of a session.
LEMMA Invariant == Spec => []Inv
<1>1. Init => Inv
  BY InitInv
<1>2. Inv /\ [Next]_vars => Inv'
  BY InvStep
<1> QED
  BY <1>1, <1>2, PTL DEF Spec

\* NetClient.cpp and Server.cs: a client that answers every heartbeat it reads is refused
\* for a wrong answer only after a heartbeat was lost in a read, for any number of
\* heartbeats under way.
THEOREM AnswersAreAccepted == Spec => []NoFalseReject
<1>1. Inv => NoFalseReject
  BY DEF Inv, HeartbeatInv
<1> QED
  BY <1>1, Invariant, PTL

\* NetClient.cpp and Server.cs: a client that checks its hashes every HashPeriod is banned
\* for a missing check only after one was lost in a read, whenever the period is no longer
\* than the delay the server allows.
THEOREM ChecksAreInTime == Spec => []NoFalseTimeout
<1>1. Inv => NoFalseTimeout
  BY DEF Inv, HashInv
<1> QED
  BY <1>1, Invariant, PTL

=============================================================================
