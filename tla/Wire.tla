-------------------------------- MODULE Wire --------------------------------
(***************************************************************************)
(* Packets on the chat connection: a header of type and length, and the     *)
(* arguments a schema lists (aochat/packet.py), read from a stream of bytes *)
(* that may end anywhere (aochat/protocol.py).  Scaled: a byte has Base     *)
(* values, the lower half of which are the ASCII characters; a number is    *)
(* four bytes, a length and a packet type two, as in the code.              *)
(***************************************************************************)
EXTENDS Integers, SequencesExt

CONSTANTS
    Base,      \* values of a byte, a multiple of four
    Schemas,   \* packet types and their argument codes, in both directions
    Samples    \* <<type, arguments>> to send

\* struct.pack and unpack, big-endian, of a number in n bytes.
Pack(v, n) == [j \in 1..n |-> (v \div Base^(n - j)) % Base]
Unpack(bytes) == FoldLeft(LAMBDA v, b : v * Base + b, 0, bytes)

-----------------------------------------------------------------------------
(* Writing.                                                                 *)

\* str.encode(): UTF-8, in which a character past ASCII takes two bytes, the
\* second of them past ASCII again.
Utf8(c) ==
    IF c < Base \div 2 THEN <<c>>
    ELSE IF c < 3 * (Base \div 4) THEN <<Base - 2, c>>
    ELSE <<Base - 1, c - Base \div 4>>

Encode(text) == FlattenSeq([n \in 1..Len(text) |-> Utf8(text[n])])

\* Mutant: the length counts characters.
EncodeStringByChars(text) == Pack(Len(text), 2) \o Encode(text)

EncodeString(text) == LET data == Encode(text) IN Pack(Len(data), 2) \o data

\* Outbound packets have arguments of these two kinds only.
EncodeArg(code, v) == IF code = "I" THEN Pack(v, 4) ELSE EncodeString(v)

EncodeArgs(type, args) ==
    FlattenSeq([n \in 1..Len(args) |-> EncodeArg(Schemas[type][n], args[n])])

EncodePacket(type, args) ==
    LET payload == EncodeArgs(type, args)
    IN Pack(type, 2) \o Pack(Len(payload), 2) \o payload

-----------------------------------------------------------------------------
(* Reading.                                                                 *)

Take(bytes, n) == SubSeq(bytes, 1, IF n < Len(bytes) THEN n ELSE Len(bytes))
Drop(bytes, n) == SubSeq(bytes, n + 1, Len(bytes))

\* One argument from the front of the payload, and the rest.  A string is a slice,
\* which is short without complaint when the payload is.
DecodeNumber(bytes) == <<Unpack(SubSeq(bytes, 1, 4)), Drop(bytes, 4)>>
DecodeString(bytes) ==
    LET length == Unpack(SubSeq(bytes, 1, 2))
    IN <<Take(Drop(bytes, 2), length), Drop(bytes, 2 + length)>>

\* A list: its length, then that many of them.
DecodeMany(code, bytes) ==
    LET More(done, n) ==
            LET one == IF code = "i" THEN DecodeNumber(done[2]) ELSE DecodeString(done[2])
            IN <<Append(done[1], one[1]), one[2]>>
    IN FoldLeft(More, <<<<>>, Drop(bytes, 2)>>, [n \in 1..Unpack(SubSeq(bytes, 1, 2)) |-> n])

DecodeArg(code, bytes) ==
    CASE code = "I" -> DecodeNumber(bytes)
      [] code = "S" -> DecodeString(bytes)
      [] OTHER -> DecodeMany(code, bytes)

\* Bytes are read as Latin-1: each is a character.
DecodeArgs(type, payload) ==
    LET Step(done, code) ==
            LET arg == DecodeArg(code, done[2])
            IN <<Append(done[1], arg[1]), arg[2]>>
    IN FoldLeft(Step, <<<<>>, payload>>, Schemas[type])[1]

\* read_packet again and again, until the stream ends: readexactly decodes nothing
\* before all of the header and all of the payload are there.
ReadPackets(stream) ==
    LET From[n \in 0..Len(stream)] ==
            LET left == Drop(stream, n)
                length == Unpack(SubSeq(left, 3, 4))
                type == Unpack(SubSeq(left, 1, 2))
            IN IF Len(left) < 4 \/ Len(left) < 4 + length THEN <<>>
               ELSE <<<<type, DecodeArgs(type, Take(Drop(left, 4), length))>>>>
                    \o (IF n + 4 + length > Len(stream) THEN <<>> ELSE From[n + 4 + length])
    IN From[0]

-----------------------------------------------------------------------------
(* Properties                                                               *)

\* Texts of ASCII characters only, so that their characters are their bytes.
IsAscii(text) == \A n \in DOMAIN text : text[n] < Base \div 2
AsciiOnly(p) ==
    \A n \in DOMAIN p[2] :
        /\ Schemas[p[1]][n] = "S" => IsAscii(p[2][n])
        /\ Schemas[p[1]][n] = "s" => \A j \in DOMAIN p[2][n] : IsAscii(p[2][n][j])

\* The reference for what only the server sends: its list of characters.
ListCode == [i |-> "I", s |-> "S"]
ServerArg(code, v) ==
    IF code \in DOMAIN ListCode
    THEN Pack(Len(v), 2) \o FlattenSeq([n \in 1..Len(v) |-> EncodeArg(ListCode[code], v[n])])
    ELSE EncodeArg(code, v)
ServerPacket(type, args) ==
    LET payload == FlattenSeq([n \in 1..Len(args) |-> ServerArg(Schemas[type][n], args[n])])
    IN Pack(type, 2) \o Pack(Len(payload), 2) \o payload

Wired(p) ==
    IF \E n \in DOMAIN p[2] : Schemas[p[1]][n] \in DOMAIN ListCode
    THEN ServerPacket(p[1], p[2]) ELSE EncodePacket(p[1], p[2])

Read(code, v) ==
    CASE code = "S" -> Encode(v)
      [] code = "s" -> [n \in DOMAIN v |-> Encode(v[n])]
      [] OTHER -> v

\* Of two packets sent one after the other over a connection that breaks at any
\* byte, exactly those are read that arrived whole; every number is the one that
\* was sent, and every text its UTF-8 bytes, which are the text only if it is ASCII.
WholePacketsRead ==
    \A p, q \in Samples : \A cut \in 0..Len(Wired(p) \o Wired(q)) :
        LET got == ReadPackets(SubSeq(Wired(p) \o Wired(q), 1, cut))
            whole == (IF cut >= Len(Wired(p)) THEN 1 ELSE 0)
                     + (IF cut = Len(Wired(p) \o Wired(q)) THEN 1 ELSE 0)
        IN /\ Len(got) = whole
           /\ \A n \in 1..whole :
                 LET sent == <<p, q>>[n] IN
                 /\ got[n] = <<sent[1], [k \in DOMAIN sent[2] |->
                                            Read(Schemas[sent[1]][k], sent[2][k])]>>
                 /\ got[n] = sent <=> AsciiOnly(sent)
=============================================================================
