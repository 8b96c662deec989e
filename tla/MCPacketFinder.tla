---------------------------- MODULE MCPacketFinder ----------------------------
(* Instances of PacketFinder for TLC: streams of a few chunks. *)
EXTENDS PacketFinder

Chunk(k, b) == [kind |-> k, bytes |-> b]

(* The stream of a sequence of chunks. *)
Stream(sensor, chunks) ==
  LET joined(n) == FlattenSeq([k \in 1 .. n |-> chunks[k].bytes])
  IN  [sensor |-> sensor, bytes |-> joined(Len(chunks)),
       chunks |-> [k \in DOMAIN chunks |-> [kind  |-> chunks[k].kind,
                                            first |-> Len(joined(k - 1)) + 1,
                                            last  |-> Len(joined(k))]]]

(* A message of the u-blox protocol (class, id) or of the Emlid one (id), with *)
(* its payload; a line of text.                                                *)
Binary(head, payload) ==
  LET body == head \o <<Len(payload), 0>> \o payload
  IN  <<Sync1, Sync2>> \o body \o Checksum(body)
Line(s) == <<AsciiStart>> \o s \o <<Star>> \o Checksum(s) \o <<CR, LF>>

(* Messages, one with sync characters in its payload, one with a wildcard for  *)
(* its checksum; one cut off, one with a length that is much too long, one     *)
(* with a wrong byte, one without payload; a first sync character, a '$', both *)
(* line ends, an escape.                                                       *)
Chunks(head) ==
  {Chunk("message", Binary(head, <<1, 2>>)),
   Chunk("message", Binary(head, <<Sync1, Sync2, AsciiStart>>)),
   Chunk("message", Line(<<71, 80, 90>>)),
   Chunk("message", <<AsciiStart, 71, 80, 90, Star>> \o Wildcard \o <<CR, LF>>),
   Chunk("damaged", SubSeq(Binary(head, <<1, 2>>), 1, 7)),
   Chunk("damaged", <<Sync1, Sync2>> \o head \o <<255, 255>>),
   Chunk("damaged", [Binary(head, <<1, 2>>) EXCEPT ![7] = 9]),
   Chunk("damaged", Binary(head, <<>>)),
   Chunk("damaged", [Line(<<71, 80, 90>>) EXCEPT ![3] = 65]),
   Chunk("foreign", <<Sync1>>),
   Chunk("foreign", <<AsciiStart, 71, CR, CR>>),
   Chunk("foreign", <<AsciiStart, Escape, 7, LF>>)}

(* The KVH sensor: inertial data, text; data cut off, with a wrong byte, the   *)
(* result of a self test; the start of a header, a long text, the same with    *)
(* the start of a header behind it, a text that is broken off.                 *)
Kvh(payload) == LET p == <<254, 129, 255, 85>> \o payload IN p \o <<1, 1>> \o Checksum(p)
Data == Kvh([i \in 1 .. 28 |-> i + 20])
KvhChunks ==
  {Chunk("message", Data),
   Chunk("message", <<85, 80, 90, CR, LF>>),
   Chunk("damaged", SubSeq(Data, 1, 20)),
   Chunk("damaged", [Data EXCEPT ![9] = 9]),
   Chunk("damaged", <<254, 129, 0, 170, 1, 1, 1, 1, 1, 1, 1>>),
   Chunk("foreign", <<254, 129>>),
   Chunk("foreign", [i \in 1 .. 20 |-> 65]),
   Chunk("foreign", [i \in 1 .. 9 |-> 65] \o <<254, 129, 255>>),
   Chunk("foreign", <<7, Escape, 8, CR, 9>>)}

Of(sensor, chunks, n) ==
  {Stream(sensor, s) : s \in UNION {[1 .. i -> chunks] : i \in 1 .. n}}

(* A chunk before messages that take more bytes than the buffer has. *)
Calm(sensor, head) ==
  LET calm == Chunk("message", Binary(head, <<1, 2>>))
  IN  {Stream(sensor, <<c, calm, calm, calm>>) : c \in Chunks(head)}

MCStreams == Of("ublox", Chunks(<<1, 7>>), 3) \cup Calm("ublox", <<1, 7>>)
             \cup Of("emlid", Chunks(<<7>>), 3) \cup Calm("emlid", <<7>>)
             \cup Of("kvh", KvhChunks, 3)

MCCapacity == [s \in Sensors |-> IF s = "kvh" THEN 41 ELSE 18]
===============================================================================
