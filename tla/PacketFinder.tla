----------------------------- MODULE PacketFinder -----------------------------
(***************************************************************************)
(* Finding messages in the bytes of a serial sensor or of its log file     *)
(* (UbloxUartSensor.cpp, EmlidUartSensor.cpp, KvhUartSensor.cpp, and the   *)
(* file readers that call them).  findPacket gets one byte and returns a   *)
(* packet when that byte completes one; it is one step here, an action for *)
(* each of its branches.                                                   *)
(*                                                                         *)
(* A stream is a sequence of bytes, divided into chunks: whole messages,   *)
(* damaged ones and foreign bytes.  The finder sees its bytes only.        *)
(***************************************************************************)
EXTENDS Integers, Sequences, SequencesExt

CONSTANTS Streams,    (* [sensor, bytes, chunks]: what may be received       *)
          Capacity,   (* of _buffer, by sensor (DefaultReadBufferSize)       *)
          MaxAscii,   (* MAX_SIZE_ASCII_PACKET of the KVH sensor             *)
          MaxRewinds  (* bound: times a file is read again                   *)

Sensors == {"ublox", "emlid", "kvh"}

ASSUME PacketFinderAssumption ==
  /\ Capacity \in [Sensors -> Nat \ {0}]
  /\ Capacity["kvh"] > 40 /\ MaxAscii \in 1 .. Capacity["kvh"]
  /\ MaxRewinds \in Nat

VARIABLES stream,  (* one of Streams                                         *)
          pos,     (* bytes the finder was given                             *)
          finder,  (* what it remembers between two bytes                    *)
          found,   (* what it returned: first and last byte, type            *)
          ready,   (* history: messages it was ready for when they began     *)
          rewinds, (* times the file was read again                          *)
          thrown   (* an exception left findPacket                           *)

vars == <<stream, pos, finder, found, ready, rewinds, thrown>>

-------------------------------------------------------------------------------
(* Bytes with a meaning: BINARY_SYNC_CHAR_1 and 2 (of the u-blox sensor; those *)
(* of the Emlid sensor are others, which makes no difference), '$', '*', the   *)
(* wildcard for a checksum, the end of a line, and the byte that breaks a text *)
(* off.                                                                        *)
Sync1 == 181
Sync2 == 98
AsciiStart == 36
Star == 42
Wildcard == <<88, 88>>
CR == 13
LF == 10
Escape == 0

(* The headers of the KVH sensor and the sizes of their packets. *)
KvhHeaders == {[bytes |-> <<254, 129, 255, 85>>, size |-> 36],
               [bytes |-> <<254, 129, 255, 86>>, size |-> 40],
               [bytes |-> <<254, 129, 255, 87>>, size |-> 38],
               [bytes |-> <<254, 129, 0, 170>>, size |-> 11],
               [bytes |-> <<254, 129, 0, 171>>, size |-> 13]}

(* The bytes between the second sync character and the payload: a message    *)
(* class (not with Emlid), an id, the length of the payload in two bytes.    *)
HeaderLength(sensor) == IF sensor = "ublox" THEN 4 ELSE 3

(* resetTracking.  The header the KVH sensor is looking for (_eState) stays. *)
Idle == [building |-> "none", buffer |-> <<>>, cr |-> FALSE, header |-> 0,
         left |-> 0, tag |-> <<>>]

Reset(f) == [Idle EXCEPT !.tag = f.tag]

-------------------------------------------------------------------------------
(* Which packets are valid.                                                    *)

(* checksumUBX; it stands for the other checksums too, of which no more is     *)
(* needed than that they tell the damaged messages of an instance.             *)
Checksum(s) == FoldLeft(LAMBDA ck, b : LET a == (ck[1] + b) % 256
                                       IN  <<a, (ck[2] + a) % 256>>, <<0, 0>>, s)

(* The last n bytes. *)
LastBytes(p, n) == SubSeq(p, Len(p) - n + 1, Len(p))

(* packetTypeFunction *)
Type(sensor, p) ==
  CASE sensor = "kvh" /\ LastBytes(p, 2) = <<CR, LF>> -> "ascii"
    [] sensor = "kvh" /\ LastBytes(p, 2) # <<CR, LF>> ->
         IF \E h \in KvhHeaders : h.bytes = SubSeq(p, 1, 4) /\ h.size >= 36
           THEN "binary" ELSE "unknown"
    [] sensor # "kvh" -> IF p[1] = AsciiStart THEN "ascii" ELSE "binary"

(* Mutant: no checksum for the text of the u-blox sensor either. *)
Valid_AnyText(sensor, p) ==
  LET n == Len(p)
  IN  IF sensor = "kvh"
        THEN Type(sensor, p) = "ascii" \/ LastBytes(p, 2) = Checksum(SubSeq(p, 1, n - 4))
        ELSE n > 8 /\ (Type(sensor, p) = "binary"
                          => LastBytes(p, 2) = Checksum(SubSeq(p, 3, n - 2)))

(* checksumFunction.  Only the u-blox sensor has a checksum for text.          *)
Valid(sensor, p) ==
  LET n == Len(p)
      type == Type(sensor, p)
  IN  CASE sensor = "kvh" ->
             type = "ascii" \/ LastBytes(p, 2) = Checksum(SubSeq(p, 1, n - 4))
        [] sensor # "kvh" /\ type = "binary" ->
             n > 8 /\ LastBytes(p, 2) = Checksum(SubSeq(p, 3, n - 2))
        [] sensor = "ublox" /\ type = "ascii" ->
             n > 8 /\ p[n - 4] = Star
                   /\ SubSeq(p, n - 3, n - 2) \in {Wildcard, Checksum(SubSeq(p, 2, n - 5))}
        [] sensor = "emlid" /\ type = "ascii" -> n > 8

-------------------------------------------------------------------------------
(* What the sensors send.                                                      *)

(* Binary data announce the length of their payload, low byte first; a text     *)
(* has no escape before its end, and after a carriage return nothing but others *)
(* and the line feed.  The KVH sensor sends binary data of known sizes and      *)
(* lines of ASCII characters.                                                   *)
Announced(sensor, p) == LET h == HeaderLength(sensor) + 2 IN h + p[h - 1] + 256 * p[h] + 2
BinaryFrame(sensor, p) ==
  /\ Len(p) > HeaderLength(sensor) + 2 /\ p[1] = Sync1 /\ p[2] = Sync2
  /\ Len(p) = Announced(sensor, p)
IsLine(p) ==
  /\ Len(p) > 2 /\ p[Len(p) - 1] = CR /\ p[Len(p)] = LF
  /\ \A i \in 2 .. Len(p) - 2 : p[i] # Escape /\ (p[i] = CR => p[i + 1] = CR)
TextFrame(p) == IsLine(p) /\ p[1] = AsciiStart
KvhFrame(p) == \E h \in KvhHeaders : Len(p) = h.size /\ SubSeq(p, 1, 4) = h.bytes
KvhLine(p) == /\ IsLine(p) /\ Len(p) <= MaxAscii
              /\ \A i \in 1 .. Len(p) - 2 : p[i] \in 1 .. 127

Framed(sensor, p) == IF sensor = "kvh" THEN KvhFrame(p) \/ KvhLine(p)
                                       ELSE BinaryFrame(sensor, p) \/ TextFrame(p)

(* A message is framed and valid, fits into the buffer, and binary data of the *)
(* KVH sensor hold no header, which the sensor does not escape.                *)
IsMessage(sensor, p) ==
  /\ Framed(sensor, p) /\ Len(p) <= Capacity[sensor]
  /\ Type(sensor, p) # "unknown" /\ Valid(sensor, p)
  /\ sensor = "kvh" => \A i \in 2 .. Len(p) - 3, h \in KvhHeaders : SubSeq(p, i, i + 3) # h.bytes

ASSUME StreamsAssumption ==
  /\ Streams \subseteq [sensor : Sensors, bytes : Seq(0 .. 255),
                         chunks : Seq([kind : {"message", "damaged", "foreign"},
                                       first : Nat, last : Nat])]
  /\ \A s \in Streams :
       /\ \A k \in DOMAIN s.chunks : /\ 1 <= s.chunks[k].first
                                     /\ s.chunks[k].first <= s.chunks[k].last
                                     /\ s.chunks[k].last <= Len(s.bytes)
       /\ \A i \in DOMAIN s.bytes :
            \E k \in DOMAIN s.chunks : i \in s.chunks[k].first .. s.chunks[k].last
       /\ \A j, k \in DOMAIN s.chunks : j < k => s.chunks[j].last < s.chunks[k].first
       /\ \A k \in DOMAIN s.chunks : s.chunks[k].kind = "message"
            => IsMessage(s.sensor, SubSeq(s.bytes, s.chunks[k].first, s.chunks[k].last))

-------------------------------------------------------------------------------
(* findPacket.                                                                 *)

Byte == stream.bytes[pos + 1]

(* Mutant: a full buffer is emptied, and what was being built goes on. *)
Now_GoesOn == IF Len(finder.buffer) = Capacity[stream.sensor]
                THEN [finder EXCEPT !.buffer = <<>>] ELSE finder

(* Mutant: nobody looks whether the buffer is full. *)
Now_NoLimit == finder

(* A full buffer is thrown away before the byte is looked at. *)
Now == IF Len(finder.buffer) = Capacity[stream.sensor] THEN Reset(finder) ELSE finder

Grown == Append(Now.buffer, Byte)

(* bFindImuHeader: the part of a header that was seen, and whether it is one.  *)
Tag == LET t == Append(Now.tag, Byte)
       IN  IF \E h \in KvhHeaders : IsStrictPrefix(t, h.bytes) THEN t ELSE <<>>
HeaderFound == /\ stream.sensor = "kvh"
               /\ \E h \in KvhHeaders : h.bytes = Append(Now.tag, Byte)

(* What the next byte does if no packet is complete. *)
Goes(f) == /\ finder' = IF stream.sensor = "kvh" THEN [f EXCEPT !.tag = Tag] ELSE f
           /\ UNCHANGED <<found, thrown>>

(* Whether a message is recognised that begins with the next byte: a text of   *)
(* the KVH sensor is not, if its first byte completes a header.                *)
Listens == IF stream.sensor = "kvh" /\ Byte = 254
             THEN Now.tag = <<>> ELSE Now.building = "none" /\ ~HeaderFound

Messages == {k \in DOMAIN stream.chunks : stream.chunks[k].kind = "message"}

Reads == /\ pos < Len(stream.bytes) /\ ~thrown
         /\ pos' = pos + 1
         /\ ready' = ready \cup {k \in Messages : stream.chunks[k].first = pos + 1 /\ Listens}
         /\ UNCHANGED <<stream, rewinds>>

(* A possible packet: it is returned if it is valid, the tracking starts anew. *)
(* The self tests of the KVH sensor have no type, of which LOG_CRITICAL makes  *)
(* an exception that nobody catches.                                           *)
Complete ==
  LET type == Type(stream.sensor, Grown)
  IN  /\ finder' = [(IF type = "unknown" THEN [Now EXCEPT !.buffer = Grown] ELSE Reset(Now))
                       EXCEPT !.tag = IF stream.sensor = "kvh" THEN Tag ELSE <<>>]
      /\ found' = IF type # "unknown" /\ Valid(stream.sensor, Grown)
                    THEN Append(found, [first |-> pos + 2 - Len(Grown), last |-> pos + 1,
                                        type |-> type])
                    ELSE found
      /\ thrown' = (type = "unknown")

(* The start of a message, or a byte between messages. *)
Start == /\ stream.sensor # "kvh" /\ Now.building = "none"
         /\ Goes(CASE Byte = Sync1 -> [Reset(Now) EXCEPT !.building = "binary", !.buffer = <<Byte>>]
                   [] Byte = AsciiStart -> [Reset(Now) EXCEPT !.building = "ascii",
                                                              !.buffer = <<Byte>>]
                   [] OTHER -> Now)

(* The second sync character; anything else is dropped, a first one too. *)
SecondSync == /\ stream.sensor # "kvh" /\ Now.building = "binary" /\ Now.header = 0
              /\ Goes(IF Byte = Sync2
                        THEN [Now EXCEPT !.buffer = Grown, !.header = 1] ELSE Reset(Now))

(* Mutant: the bytes of the length are swapped. *)
Header_Swapped ==
  /\ stream.sensor # "kvh" /\ Now.building = "binary"
  /\ Now.header \in 1 .. HeaderLength(stream.sensor)
  /\ Goes([Now EXCEPT !.buffer = Grown, !.header = @ + 1,
                      !.left = IF Now.header = HeaderLength(stream.sensor)
                                 THEN 256 * Now.buffer[Len(Now.buffer)] + Byte + 2 ELSE 0])

(* The length of the payload, low byte first, and the two bytes of the checksum. *)
Header ==
  /\ stream.sensor # "kvh" /\ Now.building = "binary"
  /\ Now.header \in 1 .. HeaderLength(stream.sensor)
  /\ Goes([Now EXCEPT !.buffer = Grown, !.header = @ + 1,
                      !.left = IF Now.header = HeaderLength(stream.sensor)
                                 THEN Now.buffer[Len(Now.buffer)] + 256 * Byte + 2 ELSE 0])

Payload == /\ stream.sensor # "kvh" /\ Now.building = "binary"
           /\ Now.header = HeaderLength(stream.sensor) + 1
           /\ IF Now.left = 1 THEN Complete
                              ELSE Goes([Now EXCEPT !.buffer = Grown, !.left = @ - 1])

(* Text, up to carriage return and line feed. *)
Text == /\ Now.building = "ascii" /\ ~HeaderFound
        /\ IF Now.cr /\ Byte = LF
             THEN Complete
             ELSE LET f == CASE Byte = Escape -> Reset(Now)
                             [] Byte = CR -> [Now EXCEPT !.buffer = Grown, !.cr = TRUE]
                             [] OTHER -> IF Now.cr THEN Reset(Now)
                                                   ELSE [Now EXCEPT !.buffer = Grown]
                  IN  Goes(IF stream.sensor = "kvh" /\ Len(f.buffer) >= MaxAscii
                             THEN Reset(f) ELSE f)

(* A header of the KVH sensor, wherever it comes, begins a binary packet. *)
KvhHeader == /\ HeaderFound
             /\ Goes([Reset(Now) EXCEPT !.building = "binary",
                                        !.buffer = Append(Now.tag, Byte)])

(* Any other byte between messages begins a text. *)
KvhStart == /\ stream.sensor = "kvh" /\ Now.building = "none" /\ ~HeaderFound
            /\ Goes([Reset(Now) EXCEPT !.building = "ascii", !.buffer = <<Byte>>])

KvhPayload == /\ stream.sensor = "kvh" /\ Now.building = "binary" /\ ~HeaderFound
              /\ IF \E h \in KvhHeaders : IsPrefix(h.bytes, Now.buffer) /\ Len(Grown) = h.size
                   THEN Complete
                   ELSE Goes([Now EXCEPT !.buffer = Grown])

Find == Reads /\ \/ Start \/ SecondSync \/ Header \/ Payload \/ Text
                 \/ KvhHeader \/ KvhStart \/ KvhPayload

(* resetNode of the file readers: the file is read from its start again, after *)
(* a packet or at the end of the file.  The finder is not told.                *)
Rewind == /\ rewinds < MaxRewinds /\ ~thrown /\ pos > 0
          /\ \/ pos = Len(stream.bytes)
             \/ found # <<>> /\ Last(found).last = pos
          /\ pos' = 0 /\ found' = <<>> /\ ready' = {}
          /\ rewinds' = rewinds + 1
          /\ UNCHANGED <<stream, finder, thrown>>

Init == /\ stream \in Streams
        /\ pos = 0 /\ finder = Idle /\ found = <<>> /\ ready = {}
        /\ rewinds = 0 /\ thrown = FALSE

Next == Find \/ Rewind

Spec == Init /\ [][Next]_vars

-------------------------------------------------------------------------------
(* What was returned is chunk k. *)
Is(p, k) == p.first = stream.chunks[k].first /\ p.last = stream.chunks[k].last

Passed(k) == pos >= stream.chunks[k].last

Found(k) == \E i \in DOMAIN found : Is(found[i], k)

(* The finder never holds more than its buffer, and what it remembers is of    *)
(* the packet it builds.                                                       *)
TypeOK ==
  /\ pos \in 0 .. Len(stream.bytes)
  /\ finder \in [building : {"none", "ascii", "binary"}, buffer : Seq(0 .. 255), cr : BOOLEAN,
                 header : 0 .. 5, left : Nat, tag : Seq(0 .. 255)]
  /\ Len(finder.buffer) <= Capacity[stream.sensor]
  /\ finder.building = "none" => finder = Reset(finder)
  /\ finder.left > 0 => finder.building = "binary" /\ finder.header = HeaderLength(stream.sensor) + 1
  /\ ready \subseteq Messages /\ rewinds \in 0 .. MaxRewinds /\ thrown \in BOOLEAN

(* What is returned is in the order of the stream, and no byte is used twice.  *)
FoundInOrder == \A i, j \in DOMAIN found : i < j => found[i].last < found[j].first

(* A packet with a checksum that is returned is a message that was sent, whole *)
(* and from one place of the stream, in the order of the stream and once: what *)
(* the finder was building before (in a damaged message, in foreign bytes, at  *)
(* the end of an earlier reading of the file) does not get into it.            *)
FoundWereSent ==
  /\ \A i \in DOMAIN found :
       found[i].type = "binary" \/ stream.sensor = "ublox"
         => \E k \in Messages : Is(found[i], k)
  /\ FoundInOrder

(* A message is returned if nothing else was being built when it began,        *)
(* whatever its payload looks like.                                            *)
HeardIsFound == \A k \in ready : Passed(k) => Found(k)

(* Chunks that may leave the finder with something to build although the       *)
(* message after them begins: everything but messages without a start in them. *)
Starts == IF stream.sensor = "kvh" THEN {254} ELSE {Sync1, AsciiStart}
Disturbs(k) == LET c == stream.chunks[k]
               IN  \/ c.kind # "message"
                   \/ \E i \in c.first + 1 .. c.last : stream.bytes[i] \in Starts

(* How far that reaches: as long as the buffer lasts, and for the KVH sensor,  *)
(* which looks for its binary header in everything, not longer than a header.  *)
Reach == IF stream.sensor = "kvh" THEN 4 ELSE Capacity[stream.sensor]

(* After damaged or foreign bytes the finder recovers: a message that begins   *)
(* further behind them than their reach is found.  The end of the file counts  *)
(* as such bytes when the file is read again.                                  *)
Recovers ==
  \A k \in Messages :
    LET first == stream.chunks[k].first
    IN  /\ Passed(k) /\ stream.bytes[first] \in Starts
        /\ \A j \in 1 .. k - 1 : Disturbs(j) => first - stream.chunks[j].last >= Reach
        /\ rewinds > 0 => first >= Reach
        => Found(k)
===============================================================================
