-------------------------- MODULE PacketFinderProofs ---------------------------
(***************************************************************************)
(* What the packet finders do, for every set of streams, every capacity of *)
(* the buffer and any number of readings of a file.                        *)
(*                                                                         *)
(* Every action of findPacket has one of five outcomes (Outcome): the byte *)
(* is dropped with what was being built, it begins a packet, it is added   *)
(* to one, it completes a header of the KVH sensor, or it completes a      *)
(* packet.  The theorems need no more of the actions than this and what    *)
(* the finder remembers (Shaped), where its bytes come from (Placed), what *)
(* it is after n bytes of a message it was ready for (On), and what it may *)
(* be building when a message begins (Known).                              *)
(***************************************************************************)
EXTENDS PacketFinder, SequenceTheorems, TLAPS

Bytes == 0 .. 255

Serial == stream.sensor # "kvh"

FinderType == [building : {"none", "ascii", "binary"}, buffer : Seq(Bytes), cr : BOOLEAN,
               header : 0 .. 5, left : Nat, tag : Seq(Bytes)]

(* The start of a header of the KVH sensor. *)
HeaderStart(t) == /\ Len(t) < 4
                  /\ \E h \in KvhHeaders : \A i \in 1 .. Len(t) : t[i] = h.bytes[i]

(* Binary data, up to where they are: the header is counted, and what is left   *)
(* makes it as long as it announced.                                            *)
BinaryPart(f) ==
  LET n == Len(f.buffer)
      h == HeaderLength(stream.sensor) + 2
  IN  /\ n >= 1 /\ f.buffer[1] = Sync1 /\ (n >= 2 => f.buffer[2] = Sync2)
      /\ f.header = IF n <= h THEN n - 1 ELSE h - 1
      /\ n < h => f.left = 0
      /\ n >= h => f.left >= 1 /\ n + f.left = Announced(stream.sensor, f.buffer)

TextPart(f) ==
  LET n == Len(f.buffer)
  IN  /\ n >= 1 /\ f.header = 0 /\ f.left = 0
      /\ \A i \in 2 .. n - 1 : f.buffer[i] # Escape /\ (f.buffer[i] = CR => f.buffer[i + 1] = CR)
      /\ f.cr <=> (n >= 2 /\ f.buffer[n] = CR)
      /\ n >= 2 => f.buffer[n] # Escape
      /\ Serial => f.buffer[1] = AsciiStart

Shaped(f) ==
  /\ f \in FinderType
  /\ f.building = "none" => f.buffer = <<>> /\ ~f.cr /\ f.header = 0 /\ f.left = 0
  /\ f.building = "ascii" => TextPart(f)
  /\ f.building = "binary" => /\ ~f.cr
                              /\ IF Serial THEN BinaryPart(f) ELSE f.header = 0 /\ f.left = 0
  /\ Serial => f.tag = <<>>
  /\ HeaderStart(f.tag)

Typed == /\ stream \in Streams
         /\ pos \in 0 .. Len(stream.bytes)
         /\ Shaped(finder) /\ Len(finder.buffer) <= Capacity[stream.sensor]
         /\ ready \subseteq Messages /\ rewinds \in 0 .. MaxRewinds /\ thrown \in BOOLEAN

-------------------------------------------------------------------------------
(* The headers of the KVH sensor.                                              *)

LEMMA HeaderFacts ==
  ASSUME NEW h \in KvhHeaders
  PROVE  /\ h.bytes \in Seq(Bytes) /\ Len(h.bytes) = 4 /\ h.size \in 11 .. 40
         /\ h.bytes[1] = 254 /\ h.bytes[2] = 129 /\ h.bytes[3] \in {255, 0}
         /\ h.bytes[4] \in {85, 86, 87, 170, 171}
<1>1. h.size \in 11 .. 40 /\ \E b \in {255, 0}, c \in {85, 86, 87, 170, 171} :
                                h.bytes = <<254, 129, b, c>>
  BY DEF KvhHeaders
<1>2. PICK b \in {255, 0}, c \in {85, 86, 87, 170, 171} : h.bytes = <<254, 129, b, c>>
  BY <1>1
<1>3. b \in Bytes /\ c \in Bytes /\ 254 \in Bytes /\ 129 \in Bytes
  BY DEF Bytes
<1>4. h.bytes \in Seq(Bytes) /\ Len(h.bytes) = 4
  BY <1>2, <1>3
<1>5. h.bytes[1] = 254 /\ h.bytes[2] = 129 /\ h.bytes[3] = b /\ h.bytes[4] = c
  BY <1>2
<1>. QED  BY <1>1, <1>4, <1>5

LEMMA HeaderUnique ==
  ASSUME NEW g \in KvhHeaders, NEW h \in KvhHeaders,
         \A i \in 1 .. 4 : g.bytes[i] = h.bytes[i]
  PROVE  g = h
  BY DEF KvhHeaders

LEMMA PrefixMeans ==
  ASSUME NEW t \in Seq(Bytes), NEW h \in KvhHeaders
  PROVE  IsStrictPrefix(t, h.bytes) <=> /\ Len(t) < 4
                                        /\ \A i \in 1 .. Len(t) : t[i] = h.bytes[i]
<1>1. /\ h.bytes \in Seq(Bytes) /\ Len(h.bytes) = 4
  BY HeaderFacts
<1>5. Len(t) \in Nat
  BY LenProperties
<1>2. \A i \in 1 .. Len(t) : t[i] \in Bytes
  BY ElementOfSeq
<1>3. CASE Len(t) <= 4
  <2>1. /\ SubSeq(t, 1, Len(t)) \in Seq(Bytes) /\ Len(SubSeq(t, 1, Len(t))) = Len(t)
        /\ \A i \in 1 .. Len(t) : SubSeq(t, 1, Len(t))[i] = t[i]
    BY <1>2, <1>5, SubSeqProperties
  <2>2. \A i \in 1 .. Len(t) : h.bytes[i] \in Bytes
    BY <1>1, <1>3, <1>5, ElementOfSeq
  <2>3. /\ SubSeq(h.bytes, 1, Len(t)) \in Seq(Bytes) /\ Len(SubSeq(h.bytes, 1, Len(t))) = Len(t)
        /\ \A i \in 1 .. Len(t) : SubSeq(h.bytes, 1, Len(t))[i] = h.bytes[i]
    BY <1>5, <2>2, SubSeqProperties
  <2>4. SubSeq(t, 1, Len(t)) = SubSeq(h.bytes, 1, Len(t))
          <=> \A i \in 1 .. Len(t) : t[i] = h.bytes[i]
    BY <2>1, <2>3, SeqEqual
  <2>5. (\A i \in 1 .. Len(t) : t[i] = h.bytes[i]) => (t = h.bytes <=> Len(t) = 4)
    BY <1>1, SeqEqual
  <2>. DEFINE same == \A i \in 1 .. Len(t) : t[i] = h.bytes[i]
             equal == SubSeq(t, 1, Len(t)) = SubSeq(h.bytes, 1, Len(t))
  <2>6. /\ IsStrictPrefix(t, h.bytes) <=> equal /\ t # h.bytes
        /\ equal <=> same
        /\ same => (t = h.bytes <=> Len(t) = 4)
    BY <1>1, <1>3, <2>4, <2>5 DEF IsStrictPrefix, IsPrefix
  <2>. HIDE DEF same, equal
  <2>7. IsStrictPrefix(t, h.bytes) <=> same /\ Len(t) # 4
    BY <2>6
  <2>8. Len(t) # 4 <=> Len(t) < 4
    <3>. \A n \in Nat : n <= 4 => (n # 4 <=> n < 4)
      OBVIOUS
    <3>. QED  BY <1>3, <1>5, Zenon
  <2>. QED  BY <2>7, <2>8, Zenon DEF same
<1>4. CASE Len(t) > 4
  BY <1>1, <1>4, <1>5 DEF IsStrictPrefix, IsPrefix
<1>. QED  BY <1>3, <1>4, <1>5

LEMMA HeaderMeans ==
  ASSUME NEW t \in Seq(Bytes), NEW h \in KvhHeaders
  PROVE  h.bytes = t <=> Len(t) = 4 /\ \A i \in 1 .. 4 : t[i] = h.bytes[i]
<1>1. /\ h.bytes \in Seq(Bytes) /\ Len(h.bytes) = 4
  BY HeaderFacts
<1>. QED  BY <1>1, SeqEqual

-------------------------------------------------------------------------------
(* What the finder has before a byte is looked at, and the part of a header.   *)

LEMMA StreamFacts ==
  ASSUME Typed
  PROVE  /\ stream.sensor \in Sensors
         /\ stream.bytes \in Seq(Bytes)
         /\ Len(stream.bytes) \in Nat
         /\ Capacity[stream.sensor] \in Nat /\ Capacity[stream.sensor] >= 1
         /\ pos \in Nat
         /\ pos < Len(stream.bytes) => Byte \in Bytes
<1>1. /\ stream.sensor \in Sensors
      /\ stream.bytes \in Seq(Bytes)
  BY StreamsAssumption DEF Typed, Bytes
<1>2. Len(stream.bytes) \in Nat
  BY <1>1, LenProperties
<1>3. Capacity[stream.sensor] \in Nat \ {0}
  BY <1>1, PacketFinderAssumption
<1>4. pos \in Nat
  BY <1>2 DEF Typed
<1>5. pos < Len(stream.bytes) => pos + 1 \in 1 .. Len(stream.bytes)
  BY <1>2, <1>4
<1>6. pos < Len(stream.bytes) => Byte \in Bytes
  BY <1>1, <1>5, ElementOfSeq, Zenon DEF Byte
<1>. QED  BY <1>1, <1>2, <1>3, <1>4, <1>6

LEMMA ResetShaped ==
  ASSUME NEW f, Shaped(f)
  PROVE  /\ Shaped(Reset(f))
         /\ Reset(f).building = "none" /\ Reset(f).buffer = <<>> /\ Reset(f).tag = f.tag
         /\ f.building = "none" => f = Reset(f)
<1>1. f \in FinderType
  BY DEF Shaped
<1>2. <<>> \in Seq(Bytes)
  OBVIOUS
<1>3. Idle \in FinderType
  BY <1>2 DEF Idle, FinderType
<1>4. /\ Reset(f) \in FinderType
      /\ Reset(f).building = "none" /\ Reset(f).buffer = <<>> /\ Reset(f).cr = FALSE
      /\ Reset(f).header = 0 /\ Reset(f).left = 0 /\ Reset(f).tag = f.tag
  BY <1>1, <1>3 DEF Reset, Idle, FinderType
<1>5. Shaped(Reset(f))
  BY <1>4 DEF Shaped
<1>6. f.building = "none" => f = Reset(f)
  BY <1>1, <1>4 DEF Shaped, FinderType
<1>. QED  BY <1>4, <1>5, <1>6

LEMMA NowFacts ==
  ASSUME Typed
  PROVE  /\ Shaped(Now)
         /\ Len(Now.buffer) \in Nat
         /\ Len(Now.buffer) < Capacity[stream.sensor]
         /\ Now.tag = finder.tag
         /\ Now.building # "none" => Now = finder
         /\ Now.building = "none" => Now = Reset(Now) /\ Now.buffer = <<>>
<1>1. Shaped(finder) /\ Shaped(Reset(finder))
  BY ResetShaped DEF Typed
<1>2. Len(finder.buffer) \in Nat
  BY <1>1, LenProperties DEF Shaped, FinderType
<1>3. /\ Capacity[stream.sensor] \in Nat /\ Capacity[stream.sensor] >= 1
      /\ Len(finder.buffer) <= Capacity[stream.sensor]
  BY StreamFacts DEF Typed
<1>4. Len(<<>>) = 0
  OBVIOUS
<1>5. CASE Len(finder.buffer) = Capacity[stream.sensor]
  <2>1. Now = Reset(finder)
    BY <1>5 DEF Now
  <2>2. /\ Now.building = "none" /\ Now.buffer = <<>> /\ Now.tag = finder.tag
        /\ Now = Reset(Now) /\ Shaped(Now)
    BY <1>1, <2>1, ResetShaped
  <2>. QED  BY <1>3, <1>4, <2>2
<1>6. CASE Len(finder.buffer) # Capacity[stream.sensor]
  <2>1. Now = finder
    BY <1>6 DEF Now
  <2>2. Now.building = "none" => Now = Reset(Now) /\ Now.buffer = <<>>
    BY <1>1, <2>1, ResetShaped DEF Shaped
  <2>. QED  BY <1>1, <1>2, <1>3, <1>6, <2>1, <2>2
<1>. QED  BY <1>5, <1>6

LEMMA TagFacts ==
  ASSUME Typed, pos < Len(stream.bytes)
  PROVE  /\ Tag \in Seq(Bytes) /\ HeaderStart(Tag)
         /\ Len(Now.tag) \in Nat /\ Len(Now.tag) < 4
         /\ Tag # <<>> => Tag = Append(Now.tag, Byte)
         /\ Tag = <<>> \/ Len(Tag) = Len(Now.tag) + 1
         /\ HeaderFound => Len(Now.tag) = 3 /\ Tag = <<>>
<1>1. Byte \in Bytes /\ Now.tag \in Seq(Bytes) /\ HeaderStart(Now.tag)
  BY StreamFacts, NowFacts DEF Shaped, FinderType
<1>2. Len(Now.tag) \in Nat
  BY <1>1, LenProperties
<1>. DEFINE t == Append(Now.tag, Byte)
<1>3. t \in Seq(Bytes)
  BY <1>1, AppendProperties
<1>12. Len(t) = Len(Now.tag) + 1
  BY <1>1, AppendProperties
<1>4. Tag = IF \E h \in KvhHeaders : IsStrictPrefix(t, h.bytes) THEN t ELSE <<>>
  BY DEF Tag
<1>5. HeaderFound => \E h \in KvhHeaders : h.bytes = t
  BY DEF HeaderFound
<1>. HIDE DEF t
<1>6. HeaderStart(<<>>)
  <2>1. Len(<<>>) = 0 /\ KvhHeaders # {}
    BY DEF KvhHeaders
  <2>. QED  BY <2>1 DEF HeaderStart
<1>7. (\E h \in KvhHeaders : IsStrictPrefix(t, h.bytes)) => HeaderStart(t)
  BY <1>3, PrefixMeans DEF HeaderStart
<1>8. Tag \in Seq(Bytes) /\ HeaderStart(Tag)
  BY <1>3, <1>4, <1>6, <1>7
<1>9. HeaderFound => Len(Now.tag) = 3
  <2>1. HeaderFound => Len(t) = 4
    BY <1>3, <1>5, HeaderMeans
  <2>2. \A n \in Nat : n + 1 = 4 => n = 3
    OBVIOUS
  <2>. QED  BY <1>2, <1>12, <2>1, <2>2, Zenon
<1>10. HeaderFound => Tag = <<>>
  <2>1. HeaderFound => Len(t) = 4
    BY <1>3, <1>5, HeaderMeans
  <2>2. \A h \in KvhHeaders : IsStrictPrefix(t, h.bytes) => Len(t) < 4
    BY <1>3, PrefixMeans, Zenon
  <2>3. Len(t) = 4 => ~(Len(t) < 4)
    OBVIOUS
  <2>. QED  BY <1>4, <2>1, <2>2, <2>3
<1>11. Len(Now.tag) < 4
  BY <1>1 DEF HeaderStart
<1>. QED  BY <1>2, <1>12, <1>4, <1>8, <1>9, <1>10, <1>11 DEF t

-------------------------------------------------------------------------------
(* What a byte does.  The new state of the finder is some f, but for its tag.  *)

Tagged(f) == IF Serial THEN f ELSE [f EXCEPT !.tag = Tag]

Becomes(f) == /\ finder' = Tagged(f)
              /\ Shaped(f) /\ f.tag = Now.tag

Keeps == found' = found /\ thrown' = thrown

(* The byte, and what was being built, is dropped. *)
Drops ==
  /\ Becomes(Reset(Now)) /\ Keeps /\ ~HeaderFound
  /\ \/ Serial /\ Now.building = "none" /\ Byte \notin Starts
     \/ Serial /\ Now.building = "binary" /\ Len(Now.buffer) = 1 /\ Byte # Sync2
     \/ /\ Now.building = "ascii" /\ ~(Now.cr /\ Byte = LF)
        /\ \/ Byte = Escape
           \/ Now.cr /\ Byte \notin {CR, LF}
           \/ ~Serial /\ Len(Grown) >= MaxAscii

(* It begins a packet. *)
Begins ==
  \E f \in FinderType :
    /\ Becomes(f) /\ Keeps /\ ~HeaderFound
    /\ Now.building = "none" /\ f.building # "none" /\ f.buffer = <<Byte>>
    /\ IF Serial THEN Byte \in Starts ELSE f.building = "ascii"

(* It is added to the packet, which is not complete or has no type. *)
Grows ==
  \E f \in FinderType :
    /\ Becomes(f) /\ found' = found /\ ~HeaderFound
    /\ Now.building # "none" /\ f.building = Now.building /\ f.buffer = Grown
    /\ thrown' = thrown \/ thrown' = TRUE
    /\ ~Serial /\ Now.building = "binary" /\ KvhFrame(Grown)
         => Type(stream.sensor, Grown) = "unknown"

(* It completes a header of the KVH sensor. *)
Heads ==
  \E f \in FinderType :
    /\ Becomes(f) /\ Keeps /\ HeaderFound
    /\ f.building = "binary" /\ f.buffer = Append(Now.tag, Byte)

(* It completes a packet. *)
IsFramed ==
  /\ Now.building = "binary" => IF Serial THEN BinaryFrame(stream.sensor, Grown) ELSE KvhFrame(Grown)
  /\ Now.building = "ascii" => IsLine(Grown) /\ (Serial => Grown[1] = AsciiStart)

Packet == [first |-> pos + 2 - Len(Grown), last |-> pos + 1, type |-> Type(stream.sensor, Grown)]

Completes ==
  /\ Becomes(Reset(Now)) /\ ~HeaderFound /\ thrown' = FALSE
  /\ Now.building # "none" /\ IsFramed
  /\ Type(stream.sensor, Grown) # "unknown"
  /\ Type(stream.sensor, Grown) = "ascii" => ~Serial \/ Now.building = "ascii"
  /\ found' = IF Valid(stream.sensor, Grown) THEN Append(found, Packet) ELSE found

Outcome == Drops \/ Begins \/ Grows \/ Heads \/ Completes

LEMMA GrownFacts ==
  ASSUME Typed, pos < Len(stream.bytes)
  PROVE  /\ Grown \in Seq(Bytes)
         /\ Len(Grown) = Len(Now.buffer) + 1
         /\ \A i \in 1 .. Len(Now.buffer) : Grown[i] = Now.buffer[i]
         /\ Grown[Len(Now.buffer) + 1] = Byte
<1>1. Byte \in Bytes /\ Now.buffer \in Seq(Bytes)
  BY StreamFacts, NowFacts DEF Shaped, FinderType
<1>. QED  BY <1>1, AppendProperties DEF Grown

(* The finder as it begins with a byte. *)
LEMMA BegunFacts ==
  ASSUME Typed, pos < Len(stream.bytes), NEW f \in FinderType,
         f.building \in {"binary", "ascii"}, f.buffer = <<Byte>>, ~f.cr,
         f.header = 0, f.left = 0, f.tag = Now.tag,
         Serial /\ f.building = "binary" => Byte = Sync1,
         Serial /\ f.building = "ascii" => Byte = AsciiStart
  PROVE  Shaped(f)
<1>1. Len(f.buffer) = 1 /\ f.buffer[1] = Byte
  OBVIOUS
<1>2. stream.sensor \in Sensors
  BY StreamFacts
<1>3. HeaderLength(stream.sensor) \in {3, 4}
  BY DEF HeaderLength
<1>4. f.building = "binary" /\ Serial => BinaryPart(f)
  BY <1>1, <1>3 DEF BinaryPart
<1>5. f.building = "ascii" => TextPart(f)
  BY <1>1 DEF TextPart
<1>6. /\ Serial => f.tag = <<>>
      /\ HeaderStart(f.tag)
  BY NowFacts DEF Shaped
<1>. QED  BY <1>4, <1>5, <1>6 DEF Shaped

LEMMA StartOutcome ==
  ASSUME Typed, pos < Len(stream.bytes), Start
  PROVE  Outcome
<1>1. Serial /\ Now.building = "none" /\ ~HeaderFound
  BY DEF Start, Serial, HeaderFound
<1>2. Shaped(Now) /\ Shaped(Reset(Now)) /\ Reset(Now).tag = Now.tag /\ Now = Reset(Now)
  BY <1>1, NowFacts, ResetShaped
<1>3. Starts = {Sync1, AsciiStart}
  BY <1>1 DEF Starts, Serial
<1>4. \A f : Goes(f) => finder' = Tagged(f) /\ Keeps
  BY <1>1 DEF Goes, Tagged, Keeps, Serial
<1>5. <<Byte>> \in Seq(Bytes)
  BY StreamFacts
<1>6. Reset(Now) \in FinderType /\ ~Reset(Now).cr /\ Reset(Now).header = 0 /\ Reset(Now).left = 0
  BY <1>1, <1>2 DEF Shaped
<1>7. CASE Byte = Sync1
  <2>. DEFINE f == [Reset(Now) EXCEPT !.building = "binary", !.buffer = <<Byte>>]
  <2>1. Goes(f)
    BY <1>1, <1>7 DEF Start, Sync1, AsciiStart
  <2>2. f \in FinderType /\ f.building = "binary" /\ f.buffer = <<Byte>> /\ ~f.cr /\ f.header = 0
        /\ f.left = 0 /\ f.tag = Now.tag
    BY <1>2, <1>5, <1>6 DEF FinderType
  <2>. HIDE DEF f
  <2>3. Shaped(f)
    BY <1>7, <2>2, BegunFacts
  <2>. QED  BY <1>1, <1>3, <1>4, <1>7, <2>1, <2>2, <2>3 DEF Outcome, Begins, Becomes
<1>8. CASE Byte = AsciiStart
  <2>. DEFINE f == [Reset(Now) EXCEPT !.building = "ascii", !.buffer = <<Byte>>]
  <2>1. Goes(f)
    BY <1>1, <1>8 DEF Start, Sync1, AsciiStart
  <2>2. f \in FinderType /\ f.building = "ascii" /\ f.buffer = <<Byte>> /\ ~f.cr /\ f.header = 0
        /\ f.left = 0 /\ f.tag = Now.tag
    BY <1>2, <1>5, <1>6 DEF FinderType
  <2>. HIDE DEF f
  <2>3. Shaped(f)
    BY <1>8, <2>2, BegunFacts
  <2>. QED  BY <1>1, <1>3, <1>4, <1>8, <2>1, <2>2, <2>3 DEF Outcome, Begins, Becomes
<1>9. CASE Byte \notin {Sync1, AsciiStart}
  <2>1. Goes(Now)
    BY <1>9 DEF Start
  <2>. QED  BY <1>1, <1>2, <1>3, <1>4, <1>9, <2>1 DEF Outcome, Drops, Becomes
<1>. QED  BY <1>7, <1>8, <1>9

Had == Len(Now.buffer)
Lead == HeaderLength(stream.sensor) + 2

(* What binary data are known to be while they are received, in numbers. *)
LEMMA BinaryFacts ==
  ASSUME Typed, pos < Len(stream.bytes), Serial, Now.building = "binary"
  PROVE  /\ Had \in Nat /\ Had >= 1 /\ Lead \in {5, 6}
         /\ Now.buffer[1] = Sync1 /\ (Had >= 2 => Now.buffer[2] = Sync2)
         /\ Now.header = IF Had <= Lead THEN Had - 1 ELSE Lead - 1
         /\ Now.left \in Nat
         /\ Had < Lead => Now.left = 0
         /\ Had >= Lead => Now.left >= 1 /\ Had + Now.left = Lead + Now.buffer[Lead - 1] + 256 * Now.buffer[Lead] + 2
         /\ Len(Grown) = Had + 1
         /\ \A i \in 1 .. Had : Grown[i] = Now.buffer[i] /\ Grown[i] \in Nat
         /\ Grown[Had + 1] = Byte /\ Byte \in Nat
<1>1. Shaped(Now) /\ Len(Now.buffer) \in Nat
  BY NowFacts
<1>2. BinaryPart(Now) /\ Now.left \in Nat /\ Now.buffer \in Seq(Bytes)
  BY <1>1 DEF Shaped, FinderType
<1>3. HeaderLength(stream.sensor) \in {3, 4}
  BY DEF HeaderLength
<1>4. \A i \in 1 .. Had : Now.buffer[i] \in Bytes
  BY <1>2, ElementOfSeq DEF Had
<1>5. Byte \in Bytes
  BY StreamFacts
<1>6. \A b \in Bytes : b \in Nat
  BY DEF Bytes
<1>7. /\ Len(Grown) = Had + 1
      /\ \A i \in 1 .. Had : Grown[i] = Now.buffer[i]
      /\ Grown[Had + 1] = Byte
  BY GrownFacts DEF Had
<1>8. /\ Had >= 1 /\ Now.buffer[1] = Sync1 /\ (Had >= 2 => Now.buffer[2] = Sync2)
      /\ Now.header = IF Had <= Lead THEN Had - 1 ELSE Lead - 1
      /\ Had < Lead => Now.left = 0
      /\ Had >= Lead => Now.left >= 1 /\ Had + Now.left = Lead + Now.buffer[Lead - 1] + 256 * Now.buffer[Lead] + 2
  BY <1>2 DEF BinaryPart, Announced, Had, Lead
<1>9. Had \in Nat /\ Lead \in {5, 6}
  BY <1>1, <1>3 DEF Had, Lead
<1>10. \A i \in 1 .. Had : Grown[i] = Now.buffer[i] /\ Grown[i] \in Nat
  BY <1>4, <1>6, <1>7
<1>. QED  BY <1>2, <1>5, <1>6, <1>7, <1>8, <1>9, <1>10

Update(f, buffer, header, left) ==
  [f EXCEPT !.buffer = buffer, !.header = header, !.left = left]

IsUpdate(g, f, buffer, header, left) ==
  /\ g \in FinderType /\ g.building = f.building /\ g.buffer = buffer
  /\ g.header = header /\ (g.cr <=> f.cr) /\ g.left = left /\ g.tag = f.tag

LEMMA UpdateFacts ==
  ASSUME NEW f \in FinderType, NEW b \in Seq(Bytes), NEW i \in 0 .. 5, NEW l \in Nat
  PROVE  IsUpdate(Update(f, b, i, l), f, b, i, l)
BY DEF FinderType, Update, IsUpdate

(* The finder with the next byte. *)
LEMMA GrowsShaped ==
  ASSUME Typed, pos < Len(stream.bytes), NEW f \in FinderType,
         Now.building # "none", f.building = Now.building, f.buffer = Grown, f.tag = Now.tag,
         f.building = "binary" => ~f.cr /\ IF Serial THEN BinaryPart(f) ELSE f.header = 0 /\ f.left = 0,
         f.building = "ascii" => TextPart(f)
  PROVE  Shaped(f)
BY NowFacts DEF Shaped

LEMMA SecondSyncOutcome ==
  ASSUME Typed, pos < Len(stream.bytes), SecondSync
  PROVE  Outcome
<1>1. Serial /\ Now.building = "binary" /\ Now.header = 0 /\ ~HeaderFound
  BY DEF SecondSync, Serial, HeaderFound
<1>2. Shaped(Now) /\ Shaped(Reset(Now)) /\ Reset(Now).tag = Now.tag
  BY NowFacts, ResetShaped
<1>3. \A f : Goes(f) => finder' = Tagged(f) /\ Keeps
  BY <1>1 DEF Goes, Tagged, Keeps, Serial
<1>4. /\ Had \in Nat /\ Had >= 1 /\ Lead \in {5, 6}
      /\ Now.buffer[1] = Sync1
      /\ Now.header = IF Had <= Lead THEN Had - 1 ELSE Lead - 1
      /\ Len(Grown) = Had + 1 /\ Grown[1] = Now.buffer[1] /\ Grown[Had + 1] = Byte
  BY <1>1, BinaryFacts
<1>5. Had = 1
  BY <1>1, <1>4
<1>6. CASE Byte = Sync2
  <2>. DEFINE f == Update(Now, Grown, 1, Now.left)
  <2>1. Goes(f)
    <3>1. Now \in FinderType
      BY <1>2 DEF Shaped
    <3>2. f = [Now EXCEPT !.buffer = Grown, !.header = 1]
      BY <3>1 DEF FinderType, Update
    <3>. QED  BY <1>6, <3>2 DEF SecondSync
  <2>2. Now \in FinderType /\ Grown \in Seq(Bytes)
    BY <1>2, GrownFacts DEF Shaped
  <2>7. Now.left \in Nat /\ 1 \in 0 .. 5
    BY <2>2 DEF FinderType
  <2>3. /\ f \in FinderType /\ f.building = "binary" /\ f.buffer = Grown /\ f.header = 1
        /\ (f.cr <=> Now.cr) /\ f.left = Now.left /\ f.tag = Now.tag
    <3>1. IsUpdate(f, Now, Grown, 1, Now.left)
      BY <2>2, <2>7, UpdateFacts
    <3>. QED  BY <1>1, <3>1 DEF IsUpdate
  <2>. HIDE DEF f
  <2>4. ~Now.cr /\ Now.left = 0
    BY <1>1, <1>2, <1>4, <1>5, BinaryFacts DEF Shaped, BinaryPart, Had, Lead
  <2>5. BinaryPart(f)
    <3>1. Len(f.buffer) = 2 /\ f.buffer[1] = Sync1 /\ f.buffer[2] = Sync2
      BY <1>4, <1>5, <1>6, <2>3
    <3>2. f.header = 1 /\ f.left = 0
      BY <2>3, <2>4
    <3>3. HeaderLength(stream.sensor) + 2 \in {5, 6}
      BY <1>4 DEF Lead
    <3>. QED  BY <3>1, <3>2, <3>3 DEF BinaryPart
  <2>6. Shaped(f)
    BY <1>1, <2>3, <2>4, <2>5, GrowsShaped
  <2>. QED  BY <1>1, <1>3, <2>1, <2>3, <2>6 DEF Outcome, Grows, Becomes, Keeps
<1>7. CASE Byte # Sync2
  <2>1. Goes(Reset(Now))
    BY <1>7 DEF SecondSync
  <2>. QED  BY <1>1, <1>2, <1>3, <1>5, <1>7, <2>1 DEF Outcome, Drops, Becomes, Had
<1>. QED  BY <1>6, <1>7

LEMMA HeaderOutcome ==
  ASSUME Typed, pos < Len(stream.bytes), Header
  PROVE  Outcome
<1>1. Serial /\ Now.building = "binary" /\ ~HeaderFound
  BY DEF Header, Serial, HeaderFound
<1>2. Shaped(Now)
  BY NowFacts
<1>3. \A f : Goes(f) => finder' = Tagged(f) /\ Keeps
  BY <1>1 DEF Goes, Tagged, Keeps, Serial
<1>. DEFINE left == IF Now.header = HeaderLength(stream.sensor)
                      THEN Now.buffer[Len(Now.buffer)] + 256 * Byte + 2 ELSE 0
            f == Update(Now, Grown, Now.header + 1, left)
<1>4. /\ Had \in Nat /\ Had >= 1 /\ Lead \in {5, 6}
      /\ Now.buffer[1] = Sync1 /\ (Had >= 2 => Now.buffer[2] = Sync2)
      /\ Now.header = IF Had <= Lead THEN Had - 1 ELSE Lead - 1
      /\ Len(Grown) = Had + 1 /\ Byte \in Nat
      /\ \A i \in 1 .. Had : Grown[i] = Now.buffer[i] /\ Grown[i] \in Nat
      /\ Grown[Had + 1] = Byte
  BY <1>1, BinaryFacts
<1>5. Now.header \in 1 .. Lead - 2 /\ HeaderLength(stream.sensor) = Lead - 2
  BY <1>4 DEF Header, HeaderLength, Lead
<1>6. Goes(f)
  BY DEF Header, Update
<1>7. Now.header = Had - 1 /\ Had >= 2 /\ Had + 1 <= Lead
  BY <1>4, <1>5
<1>8. /\ left \in Nat
      /\ Had + 1 < Lead => left = 0
      /\ Had + 1 = Lead => left = Grown[Lead - 1] + 256 * Grown[Lead] + 2
  <2>1. left = IF Had + 1 = Lead THEN Now.buffer[Had] + 256 * Byte + 2 ELSE 0
    BY <1>4, <1>5, <1>7 DEF Had
  <2>. HIDE DEF left
  <2>2. Grown[Had] = Now.buffer[Had] /\ Grown[Had] \in Nat /\ Grown[Had + 1] = Byte /\ Byte \in Nat
    BY <1>4
  <2>3. CASE Had + 1 = Lead
    <3>1. Lead - 1 = Had
      BY <1>4, <2>3
    <3>2. Grown[Lead - 1] = Now.buffer[Had] /\ Grown[Lead] = Byte
      BY <2>2, <2>3, <3>1
    <3>3. Had \in Nat /\ Lead \in Nat /\ Now.buffer[Had] \in Nat
      BY <1>4, <2>2
    <3>. QED  BY <2>1, <2>2, <2>3, <3>2, <3>3
  <2>. QED  BY <1>4, <2>1, <2>3
<1>9. Had \in 0 .. 5
  BY <1>4, <1>7
<1>. HIDE DEF left
<1>10. Now \in FinderType /\ Grown \in Seq(Bytes) /\ ~Now.cr
  BY <1>1, <1>2, GrownFacts DEF Shaped
<1>11. /\ f \in FinderType /\ f.building = "binary" /\ f.buffer = Grown /\ f.header = Had
       /\ (f.cr <=> Now.cr) /\ f.left = left /\ f.tag = Now.tag
  <2>1. Now.header + 1 = Had
    BY <1>4, <1>7
  <2>2. IsUpdate(Update(Now, Grown, Had, left), Now, Grown, Had, left)
    BY <1>8, <1>9, <1>10, UpdateFacts
  <2>3. f = Update(Now, Grown, Had, left)
    BY <2>1
  <2>. QED  BY <1>1, <2>2, <2>3 DEF IsUpdate
<1>. HIDE DEF f
<1>12. BinaryPart(f)
  <2>1. /\ Len(f.buffer) = Had + 1 /\ f.buffer[1] = Sync1 /\ f.buffer[2] = Sync2
    BY <1>4, <1>7, <1>11
  <2>2. Had + 1 >= Lead => left >= 1 /\ Had + 1 + left = Announced(stream.sensor, f.buffer)
    <3>1. CASE Had + 1 = Lead
      <4>1. Grown[Lead - 1] \in Nat /\ Grown[Lead] \in Nat
        BY <1>4, <1>7, <3>1
      <4>2. left >= 1 /\ Had + 1 + left = Lead + Grown[Lead - 1] + 256 * Grown[Lead] + 2
        <5>1. left = Grown[Lead - 1] + 256 * Grown[Lead] + 2 /\ Had \in Nat /\ Lead \in Nat
          BY <1>4, <1>8, <3>1
        <5>. DEFINE x == Grown[Lead - 1]  c == 256 * Grown[Lead]
        <5>2. x \in Nat /\ c \in Nat /\ left = x + c + 2
          BY <4>1, <5>1
        <5>. HIDE DEF x, c
        <5>3. left >= 1 /\ Had + 1 + left = Lead + x + c + 2
          BY <3>1, <5>1, <5>2
        <5>. QED  BY <5>3 DEF x, c
      <4>3. f.buffer = Grown
        BY <1>11
      <4>4. Announced(stream.sensor, Grown) = Lead + Grown[Lead - 1] + 256 * Grown[Lead] + 2
        BY DEF Announced, Lead
      <4>. QED  BY <4>2, <4>3, <4>4
    <3>. QED  BY <1>4, <1>7, <3>1
  <2>. QED  BY <1>4, <1>7, <1>8, <1>11, <2>1, <2>2 DEF BinaryPart, Lead
<1>13. Shaped(f)
  BY <1>1, <1>10, <1>11, <1>12, GrowsShaped
<1>. QED  BY <1>1, <1>3, <1>6, <1>11, <1>13 DEF Outcome, Grows, Becomes, Keeps

LEMMA TypeFacts ==
  ASSUME NEW p \in Seq(Bytes)
  PROVE  /\ Serial => Type(stream.sensor, p) = IF p[1] = AsciiStart THEN "ascii" ELSE "binary"
         /\ ~Serial /\ IsLine(p) => Type(stream.sensor, p) = "ascii"
<1>1. Serial => Type(stream.sensor, p) = IF p[1] = AsciiStart THEN "ascii" ELSE "binary"
  BY DEF Type, Serial
<1>2. ASSUME ~Serial, IsLine(p)
      PROVE  Type(stream.sensor, p) = "ascii"
  <2>1. Len(p) \in Nat
    BY LenProperties
  <2>2. Len(p) > 2 /\ p[Len(p) - 1] = CR /\ p[Len(p)] = LF
    BY <1>2 DEF IsLine
  <2>. DEFINE n == Len(p)
  <2>. HIDE DEF n
  <2>3. n \in Nat /\ n > 2 /\ p[n - 1] = CR /\ p[n] = LF
    BY <2>1, <2>2 DEF n
  <2>4. n - 2 + 1 = n - 1 /\ n - 1 \in 1 .. n /\ n \in 1 .. n /\ n - 1 \in Int
        /\ n - (n - 1) + 1 = 2 /\ (n - 1) + 1 - 1 = n - 1 /\ (n - 1) + 2 - 1 = n /\ n - 1 <= n
    BY <2>3
  <2>5. \A i \in n - 1 .. n : p[i] \in Bytes
    <3>1. \A i \in 1 .. n : p[i] \in Bytes
      BY ElementOfSeq DEF n
    <3>2. \A i \in n - 1 .. n : i \in 1 .. n
      BY <2>3
    <3>. QED  BY <3>1, <3>2
  <2>6. /\ SubSeq(p, n - 1, n) \in Seq(Bytes) /\ Len(SubSeq(p, n - 1, n)) = 2
        /\ \A i \in 1 .. 2 : SubSeq(p, n - 1, n)[i] = p[(n - 1) + i - 1]
    <3>. DEFINE q == SubSeq(p, n - 1, n)
    <3>1. /\ q \in Seq(Bytes)
          /\ Len(q) = IF n - 1 <= n THEN n - (n - 1) + 1 ELSE 0
          /\ \A i \in 1 .. n - (n - 1) + 1 : q[i] = p[(n - 1) + i - 1]
      BY <2>3, <2>4, <2>5, SubSeqProperties
    <3>. QED  BY <2>4, <3>1
  <2>7. SubSeq(p, n - 1, n)[1] = CR /\ SubSeq(p, n - 1, n)[2] = LF
    BY <2>3, <2>4, <2>6
  <2>8. <<CR, LF>> \in Seq(Bytes) /\ Len(<<CR, LF>>) = 2 /\ <<CR, LF>>[1] = CR /\ <<CR, LF>>[2] = LF
    BY DEF CR, LF, Bytes
  <2>9. SubSeq(p, n - 1, n) = <<CR, LF>>
    <3>. DEFINE q == SubSeq(p, n - 1, n)  e == <<CR, LF>>
    <3>4. q[1] = CR /\ q[2] = LF /\ e[1] = CR /\ e[2] = LF
      BY <2>7, <2>8
    <3>2. q \in Seq(Bytes) /\ e \in Seq(Bytes) /\ Len(q) = 2 /\ Len(e) = 2
      BY <2>6, <2>8
    <3>. HIDE DEF q, e
    <3>1. \A i \in 1 .. 2 : q[i] = e[i]
      <4>1. \A i \in 1 .. 2 : i = 1 \/ i = 2
        OBVIOUS
      <4>. QED  BY <3>4, <4>1
    <3>3. q = e
      BY <3>1, <3>2, SeqEqual
    <3>. QED  BY <3>3 DEF q, e
  <2>10. LastBytes(p, 2) = <<CR, LF>>
    BY <2>4, <2>9 DEF LastBytes, n
  <2>. QED  BY <1>2, <2>10 DEF Type, Serial
<1>. QED  BY <1>1, <1>2

(* The first bytes of a packet are a header. *)
LEMMA FrontMeans ==
  ASSUME NEW p \in Seq(Bytes), Len(p) >= 4, NEW h \in KvhHeaders
  PROVE  /\ SubSeq(p, 1, 4) = h.bytes <=> \A i \in 1 .. 4 : p[i] = h.bytes[i]
         /\ IsPrefix(h.bytes, p) <=> \A i \in 1 .. 4 : p[i] = h.bytes[i]
<1>1. h.bytes \in Seq(Bytes) /\ Len(h.bytes) = 4
  BY HeaderFacts
<1>2. Len(p) \in Nat
  BY LenProperties
<1>3. \A i \in 1 .. 4 : i \in 1 .. Len(p) /\ i \in 1 .. Len(h.bytes)
  BY <1>1, <1>2
<1>4. \A i \in 1 .. 4 : p[i] \in Bytes /\ h.bytes[i] \in Bytes
  BY <1>1, <1>3, ElementOfSeq
<1>5. /\ SubSeq(p, 1, 4) \in Seq(Bytes) /\ Len(SubSeq(p, 1, 4)) = 4
      /\ \A i \in 1 .. 4 : SubSeq(p, 1, 4)[i] = p[i]
  BY <1>4, SubSeqProperties
<1>6. /\ SubSeq(h.bytes, 1, 4) \in Seq(Bytes) /\ Len(SubSeq(h.bytes, 1, 4)) = 4
      /\ \A i \in 1 .. 4 : SubSeq(h.bytes, 1, 4)[i] = h.bytes[i]
  BY <1>4, SubSeqProperties
<1>7. SubSeq(p, 1, 4) = h.bytes <=> \A i \in 1 .. 4 : p[i] = h.bytes[i]
  BY <1>1, <1>5, SeqEqual
<1>8. SubSeq(h.bytes, 1, 4) = h.bytes
  BY <1>1, <1>6, SeqEqual
<1>9. IsPrefix(h.bytes, p) <=> SubSeq(h.bytes, 1, 4) = SubSeq(p, 1, 4)
  BY <1>1 DEF IsPrefix
<1>. QED  BY <1>7, <1>8, <1>9

LEMMA CompleteOutcome ==
  ASSUME Typed, pos < Len(stream.bytes), Complete, ~HeaderFound, Now.building # "none", IsFramed
  PROVE  Outcome
<1>. DEFINE type == Type(stream.sensor, Grown)
<1>1. Shaped(Now) /\ Shaped(Reset(Now)) /\ Reset(Now).tag = Now.tag /\ Now \in FinderType
      /\ Reset(Now) \in FinderType
  BY NowFacts, ResetShaped DEF Shaped
<1>2. Grown \in Seq(Bytes)
  BY GrownFacts
<1>3. Tag \in Seq(Bytes)
  BY TagFacts
<1>4. /\ Now.building = "ascii" => type = "ascii"
      /\ Serial => type # "unknown"
      /\ Serial /\ Now.building = "binary" => type = "binary"
  <2>1. /\ Serial => type = IF Grown[1] = AsciiStart THEN "ascii" ELSE "binary"
        /\ ~Serial /\ IsLine(Grown) => type = "ascii"
    BY <1>2, TypeFacts
  <2>2. Serial /\ Now.building = "binary" => Grown[1] # AsciiStart
    BY DEF IsFramed, BinaryFrame, Sync1, AsciiStart
  <2>3. Now.building = "ascii" => IsLine(Grown) /\ (Serial => Grown[1] = AsciiStart)
    BY DEF IsFramed
  <2>. HIDE DEF type
  <2>. QED  BY <2>1, <2>2, <2>3
<1>5. Now.building \in {"ascii", "binary"}
  BY <1>1 DEF FinderType
<1>6. finder' = [(IF type = "unknown" THEN [Now EXCEPT !.buffer = Grown] ELSE Reset(Now))
                   EXCEPT !.tag = IF stream.sensor = "kvh" THEN Tag ELSE <<>>]
  BY DEF Complete
<1>7. thrown' = (type = "unknown")
  BY DEF Complete
<1>8. found' = IF type # "unknown" /\ Valid(stream.sensor, Grown) THEN Append(found, Packet) ELSE found
  BY DEF Complete, Packet
<1>9. CASE type = "unknown"
  <2>. DEFINE f == [Now EXCEPT !.buffer = Grown]
  <2>1. ~Serial /\ Now.building = "binary"
    BY <1>4, <1>5, <1>9
  <2>2. f \in FinderType /\ f.building = "binary" /\ f.buffer = Grown /\ (f.cr <=> Now.cr)
        /\ f.header = Now.header /\ f.left = Now.left /\ f.tag = Now.tag
    BY <1>1, <1>2, <2>1 DEF FinderType
  <2>3. finder' = Tagged(f)
    BY <1>6, <1>9, <2>1 DEF Tagged, Serial
  <2>. HIDE DEF f
  <2>4. Shaped(f)
    BY <1>1, <2>1, <2>2, GrowsShaped DEF Shaped
  <2>. QED  BY <1>7, <1>8, <1>9, <2>1, <2>2, <2>3, <2>4 DEF Outcome, Grows, Becomes
<1>10. CASE type # "unknown"
  <2>1. Serial => Reset(Now).tag = <<>>
    BY <1>1 DEF Shaped
  <2>2. Serial => finder' = Reset(Now)
    <3>1. Serial => finder' = [Reset(Now) EXCEPT !.tag = <<>>]
      BY <1>6, <1>10 DEF Serial
    <3>. QED  BY <1>1, <2>1, <3>1 DEF FinderType
  <2>3. finder' = Tagged(Reset(Now))
    BY <1>6, <1>10, <2>2 DEF Tagged, Serial
  <2>4. Becomes(Reset(Now))
    BY <1>1, <2>3 DEF Becomes
  <2>. QED  BY <1>4, <1>5, <1>7, <1>8, <1>10, <2>4 DEF Outcome, Completes
<1>. QED  BY <1>9, <1>10

LEMMA PayloadOutcome ==
  ASSUME Typed, pos < Len(stream.bytes), Payload
  PROVE  Outcome
<1>1. Serial /\ Now.building = "binary" /\ ~HeaderFound /\ Now.header = Lead - 1
  BY DEF Payload, Serial, HeaderFound, HeaderLength, Lead
<1>2. Shaped(Now)
  BY NowFacts
<1>3. \A f : Goes(f) => finder' = Tagged(f) /\ Keeps
  BY <1>1 DEF Goes, Tagged, Keeps, Serial
<1>4. /\ Had \in Nat /\ Had >= 1 /\ Lead \in {5, 6}
      /\ Now.buffer[1] = Sync1 /\ (Had >= 2 => Now.buffer[2] = Sync2)
      /\ Now.header = IF Had <= Lead THEN Had - 1 ELSE Lead - 1
      /\ Len(Grown) = Had + 1
      /\ \A i \in 1 .. Had : Grown[i] = Now.buffer[i] /\ Grown[i] \in Nat
      /\ Now.left \in Nat
      /\ Had >= Lead => Now.left >= 1 /\ Had + Now.left = Lead + Now.buffer[Lead - 1] + 256 * Now.buffer[Lead] + 2
  BY <1>1, BinaryFacts
<1>5. Had >= Lead
  BY <1>1, <1>4
<1>6. Lead - 1 \in 1 .. Had /\ Lead \in 1 .. Had /\ 1 \in 1 .. Had /\ 2 \in 1 .. Had
  BY <1>4, <1>5
<1>7. /\ Grown[1] = Sync1 /\ Grown[2] = Sync2
      /\ Grown[Lead - 1] = Now.buffer[Lead - 1] /\ Grown[Lead] = Now.buffer[Lead]
      /\ Grown[Lead - 1] \in Nat /\ Grown[Lead] \in Nat
  <2>1. \A i \in 1 .. Had : Grown[i] = Now.buffer[i] /\ Grown[i] \in Nat
    BY <1>4
  <2>2. Now.buffer[1] = Sync1 /\ Now.buffer[2] = Sync2
    <3>1. Had >= 2
      BY <1>4, <1>5
    <3>. QED  BY <1>4, <3>1
  <2>. QED  BY <1>6, <2>1, <2>2
<1>8. Had + Now.left = Announced(stream.sensor, Grown) /\ Now.left >= 1
  <2>1. Had + Now.left = Lead + Grown[Lead - 1] + 256 * Grown[Lead] + 2
    BY <1>4, <1>5, <1>7
  <2>. QED  BY <1>4, <1>5, <2>1 DEF Announced, Lead
<1>9. CASE Now.left = 1
  <2>1. Complete
    BY <1>9 DEF Payload
  <2>2. Len(Grown) = Announced(stream.sensor, Grown)
    BY <1>4, <1>8, <1>9
  <2>3. Len(Grown) > HeaderLength(stream.sensor) + 2
    <3>1. Len(Grown) > Lead
      BY <1>4, <1>5
    <3>. QED  BY <3>1 DEF Lead
  <2>4. IsFramed
    BY <1>1, <1>7, <2>2, <2>3 DEF IsFramed, BinaryFrame
  <2>. QED  BY <1>1, <2>1, <2>4, CompleteOutcome
<1>10. CASE Now.left # 1
  <2>. DEFINE f == Update(Now, Grown, Now.header, Now.left - 1)
  <2>1. Now \in FinderType /\ Grown \in Seq(Bytes) /\ ~Now.cr
    BY <1>1, <1>2, GrownFacts DEF Shaped
  <2>2. Goes(f)
    <3>1. f = [Now EXCEPT !.buffer = Grown, !.left = @ - 1]
      BY <2>1 DEF FinderType, Update
    <3>. QED  BY <1>10, <3>1 DEF Payload
  <2>3. Now.left - 1 \in Nat /\ Now.header \in 0 .. 5
    BY <1>1, <1>4, <1>8
  <2>4. IsUpdate(f, Now, Grown, Now.header, Now.left - 1)
    BY <2>1, <2>3, UpdateFacts
  <2>. HIDE DEF f
  <2>5. BinaryPart(f)
    <3>1. /\ Len(f.buffer) = Had + 1 /\ f.buffer[1] = Sync1 /\ f.buffer[2] = Sync2
          /\ f.header = Lead - 1 /\ f.left = Now.left - 1
      BY <1>1, <1>4, <1>7, <2>4 DEF IsUpdate
    <3>2. Had + 1 + f.left = Announced(stream.sensor, f.buffer)
      <4>1. Announced(stream.sensor, f.buffer) = Had + Now.left
        BY <1>8, <2>4 DEF IsUpdate
      <4>2. Had \in Nat /\ Now.left \in Nat /\ f.left = Now.left - 1
        BY <1>4, <3>1
      <4>. HIDE DEF f
      <4>3. Had + 1 + f.left = Had + Now.left
        BY <4>2
      <4>. QED  BY <4>1, <4>3
    <3>3. f.left >= 1
      BY <1>4, <1>8, <1>10, <3>1
    <3>4. /\ Had + 1 >= 1 /\ ~(Had + 1 < Lead) /\ (Had + 1 <= Lead => FALSE) /\ Had + 1 >= Lead
      BY <1>4, <1>5
    <3>. QED  BY <3>1, <3>2, <3>3, <3>4 DEF BinaryPart, Lead
  <2>6. Shaped(f)
    BY <1>1, <2>1, <2>4, <2>5, GrowsShaped DEF IsUpdate
  <2>. QED  BY <1>1, <1>3, <2>2, <2>4, <2>6 DEF Outcome, Grows, Becomes, Keeps, IsUpdate
<1>. QED  BY <1>9, <1>10

(* What a text is known to be while it is received, with the next byte.        *)
LEMMA LineFacts ==
  ASSUME Typed, pos < Len(stream.bytes), Now.building = "ascii"
  PROVE  /\ Had \in Nat /\ Had >= 1
         /\ Now.header = 0 /\ Now.left = 0
         /\ \A i \in 2 .. Had - 1 : Grown[i] # Escape /\ (Grown[i] = CR => Grown[i + 1] = CR)
         /\ Now.cr <=> (Had >= 2 /\ Grown[Had] = CR)
         /\ Had >= 2 => Grown[Had] # Escape
         /\ Serial => Grown[1] = AsciiStart
         /\ Len(Grown) = Had + 1 /\ Grown[Had + 1] = Byte
<1>1. TextPart(Now)
  BY NowFacts DEF Shaped
<1>2. /\ Len(Grown) = Had + 1
      /\ \A i \in 1 .. Had : Grown[i] = Now.buffer[i]
      /\ Grown[Had + 1] = Byte
  BY GrownFacts DEF Had
<1>3. Had \in Nat
  BY NowFacts DEF Had
<1>4. /\ Had >= 1 /\ Now.header = 0 /\ Now.left = 0
      /\ \A i \in 2 .. Had - 1 : Now.buffer[i] # Escape /\ (Now.buffer[i] = CR => Now.buffer[i + 1] = CR)
      /\ Now.cr <=> (Had >= 2 /\ Now.buffer[Had] = CR)
      /\ Had >= 2 => Now.buffer[Had] # Escape
      /\ Serial => Now.buffer[1] = AsciiStart
  BY <1>1 DEF TextPart, Had
<1>5. Grown[Had] = Now.buffer[Had] /\ Grown[1] = Now.buffer[1]
  BY <1>2, <1>3, <1>4
<1>6. \A i \in 2 .. Had - 1 : Grown[i] = Now.buffer[i] /\ Grown[i + 1] = Now.buffer[i + 1]
  <2>1. \A i \in 2 .. Had - 1 : i \in 1 .. Had /\ i + 1 \in 1 .. Had
    BY <1>3
  <2>. QED  BY <1>2, <2>1
<1>7. \A i \in 2 .. Had - 1 : Grown[i] # Escape /\ (Grown[i] = CR => Grown[i + 1] = CR)
  BY <1>4, <1>6
<1>. QED  BY <1>2, <1>3, <1>4, <1>5, <1>7

UpdateText(f, buffer, cr) == [f EXCEPT !.buffer = buffer, !.cr = cr]

IsUpdateText(g, f, buffer, cr) ==
  /\ g \in FinderType /\ g.building = f.building /\ g.buffer = buffer
  /\ g.header = f.header /\ (g.cr <=> cr) /\ g.left = f.left /\ g.tag = f.tag

LEMMA UpdateTextFacts ==
  ASSUME NEW f \in FinderType, NEW b \in Seq(Bytes), NEW c \in BOOLEAN
  PROVE  IsUpdateText(UpdateText(f, b, c), f, b, c)
BY DEF FinderType, UpdateText, IsUpdateText

(* A byte of a text that is not too long. *)
LEMMA LineGrows ==
  ASSUME Typed, pos < Len(stream.bytes), Now.building = "ascii",
         NEW f, IsUpdateText(f, Now, Grown, Byte = CR),
         Byte # Escape, Now.cr => Byte = CR
  PROVE  Shaped(f)
<1>1. /\ Had \in Nat /\ Had >= 1
      /\ Now.header = 0 /\ Now.left = 0
      /\ \A i \in 2 .. Had - 1 : Grown[i] # Escape /\ (Grown[i] = CR => Grown[i + 1] = CR)
      /\ Now.cr <=> (Had >= 2 /\ Grown[Had] = CR)
      /\ Had >= 2 => Grown[Had] # Escape
      /\ Serial => Grown[1] = AsciiStart
      /\ Len(Grown) = Had + 1 /\ Grown[Had + 1] = Byte
  BY LineFacts
<1>2. \A i \in 2 .. Had : Grown[i] # Escape /\ (Grown[i] = CR => Grown[i + 1] = CR)
  <2>1. \A i \in 2 .. Had : i = Had \/ i \in 2 .. Had - 1
    BY <1>1
  <2>2. Had >= 2 => Grown[Had] # Escape /\ (Grown[Had] = CR => Grown[Had + 1] = CR)
    BY <1>1
  <2>3. \A i \in 2 .. Had : Had >= 2
    BY <1>1
  <2>. QED  BY <1>1, <2>1, <2>2, <2>3
<1>3. /\ f \in FinderType /\ f.building = "ascii" /\ f.buffer = Grown
      /\ f.header = 0 /\ (f.cr <=> Byte = CR) /\ f.left = 0 /\ f.tag = Now.tag
  BY <1>1 DEF IsUpdateText
<1>4. TextPart(f)
  <2>1. /\ Len(f.buffer) = Had + 1 /\ Had + 1 >= 1 /\ (Had + 1) - 1 = Had /\ Had + 1 >= 2
    BY <1>1, <1>3
  <2>2. /\ \A i \in 2 .. Had : f.buffer[i] # Escape /\ (f.buffer[i] = CR => f.buffer[i + 1] = CR)
        /\ f.cr <=> f.buffer[Had + 1] = CR
        /\ f.buffer[Had + 1] # Escape
        /\ Serial => f.buffer[1] = AsciiStart
    BY <1>1, <1>2, <1>3
  <2>. QED  BY <1>3, <2>1, <2>2 DEF TextPart
<1>. QED  BY <1>3, <1>4, GrowsShaped

LEMMA GoesTagged ==
  ASSUME NEW f, Goes(f)
  PROVE  finder' = Tagged(f) /\ Keeps
BY DEF Goes, Tagged, Keeps, Serial

LEMMA TextOutcome ==
  ASSUME Typed, pos < Len(stream.bytes), Text
  PROVE  Outcome
<1>1. Now.building = "ascii" /\ ~HeaderFound
  BY DEF Text
<1>2. /\ Had \in Nat /\ Had >= 1
      /\ Now.header = 0 /\ Now.left = 0
      /\ \A i \in 2 .. Had - 1 : Grown[i] # Escape /\ (Grown[i] = CR => Grown[i + 1] = CR)
      /\ Now.cr <=> (Had >= 2 /\ Grown[Had] = CR)
      /\ Had >= 2 => Grown[Had] # Escape
      /\ Serial => Grown[1] = AsciiStart
      /\ Len(Grown) = Had + 1 /\ Grown[Had + 1] = Byte
  BY <1>1, LineFacts
<1>3. Shaped(Now) /\ Now \in FinderType /\ Grown \in Seq(Bytes)
  BY NowFacts, GrownFacts DEF Shaped
<1>4. Shaped(Reset(Now)) /\ Reset(Now).tag = Now.tag /\ Reset(Now).buffer = <<>>
  BY <1>3, ResetShaped
<1>5. Escape # CR /\ Escape # LF /\ CR # LF
  BY DEF Escape, CR, LF
<1>6. CASE Now.cr /\ Byte = LF
  <2>1. Complete
    BY <1>6 DEF Text
  <2>2. IsLine(Grown)
    <3>1. Had >= 2 /\ Grown[Had] = CR /\ Grown[Had + 1] = LF
      BY <1>2, <1>6
    <3>2. Had + 1 > 2 /\ (Had + 1) - 1 = Had /\ (Had + 1) - 2 = Had - 1
      BY <1>2, <3>1
    <3>. QED  BY <1>2, <3>1, <3>2 DEF IsLine
  <2>3. IsFramed
    BY <1>1, <1>2, <2>2 DEF IsFramed
  <2>. QED  BY <1>1, <2>1, <2>3, CompleteOutcome
<1>. DEFINE Cut(f) == IF stream.sensor = "kvh" /\ Len(f.buffer) >= MaxAscii THEN Reset(f) ELSE f
<1>7. ASSUME ~(Now.cr /\ Byte = LF)
      PROVE  /\ Byte = Escape => Goes(Cut(Reset(Now)))
             /\ Byte = CR => Goes(Cut([Now EXCEPT !.buffer = Grown, !.cr = TRUE]))
             /\ Byte \notin {CR, Escape} => IF Now.cr THEN Goes(Cut(Reset(Now)))
                                            ELSE Goes(Cut([Now EXCEPT !.buffer = Grown]))
  BY <1>5, <1>7 DEF Text
<1>8. Cut(Reset(Now)) = Reset(Now)
  <2>2. Len(<<>>) = 0 /\ MaxAscii >= 1 /\ MaxAscii \in Int
    BY PacketFinderAssumption
  <2>3. ~(Len(Reset(Now).buffer) >= MaxAscii)
    BY <1>4, <2>2
  <2>. QED  BY <2>3
<1>9. Goes(Reset(Now)) /\ (Byte = Escape \/ (Now.cr /\ Byte \notin {CR, LF})) => Outcome
  <2>1. Goes(Reset(Now)) => Becomes(Reset(Now)) /\ Keeps
    BY <1>4, GoesTagged DEF Becomes
  <2>. QED  BY <1>1, <1>5, <2>1 DEF Outcome, Drops
<1>10. ASSUME NEW f, IsUpdateText(f, Now, Grown, Byte = CR), Goes(Cut(f)),
              Byte # Escape, Now.cr => Byte = CR
       PROVE  Outcome
  <2>1. Shaped(f)
    BY <1>1, <1>10, LineGrows
  <2>2. f \in FinderType /\ f.building = "ascii" /\ f.buffer = Grown /\ f.tag = Now.tag
    BY <1>1, <1>10 DEF IsUpdateText
  <2>3. CASE stream.sensor = "kvh" /\ Len(f.buffer) >= MaxAscii
    <3>1. Reset(f) = Reset(Now)
      BY <2>2 DEF Reset
    <3>2. Goes(Reset(Now))
      BY <1>10, <2>3, <3>1
    <3>3. Becomes(Reset(Now)) /\ Keeps
      BY <1>4, <3>2, GoesTagged DEF Becomes
    <3>. QED  BY <1>1, <1>5, <1>10, <2>2, <2>3, <3>3 DEF Outcome, Drops, Serial
  <2>4. CASE ~(stream.sensor = "kvh" /\ Len(f.buffer) >= MaxAscii)
    <3>1. Goes(f)
      BY <1>10, <2>4
    <3>2. Becomes(f) /\ Keeps
      BY <2>1, <2>2, <3>1, GoesTagged DEF Becomes
    <3>. QED  BY <1>1, <2>2, <3>2 DEF Outcome, Grows, Keeps
  <2>. QED  BY <2>3, <2>4
<1>11. CASE Byte = Escape
  <2>1. ~(Now.cr /\ Byte = LF)
    BY <1>5, <1>11
  <2>. QED  BY <1>7, <1>8, <1>9, <1>11, <2>1
<1>12. CASE Byte = CR
  <2>. DEFINE f == UpdateText(Now, Grown, TRUE)
  <2>1. ~(Now.cr /\ Byte = LF) /\ Byte # Escape
    BY <1>5, <1>12
  <2>2. Goes(Cut(f))
    BY <1>7, <1>12, <2>1 DEF UpdateText
  <2>3. IsUpdateText(f, Now, Grown, TRUE)
    BY <1>3, UpdateTextFacts
  <2>. HIDE DEF f
  <2>4. IsUpdateText(f, Now, Grown, Byte = CR)
    BY <1>12, <2>3 DEF IsUpdateText
  <2>. QED  BY <1>10, <1>12, <2>1, <2>2, <2>4
<1>13. CASE Byte \notin {CR, Escape} /\ Now.cr /\ Byte # LF
  BY <1>7, <1>8, <1>9, <1>13
<1>14. CASE Byte \notin {CR, Escape} /\ ~Now.cr
  <2>. DEFINE f == UpdateText(Now, Grown, FALSE)
  <2>1. f = [Now EXCEPT !.buffer = Grown]
    BY <1>3, <1>14 DEF FinderType, UpdateText
  <2>2. Goes(Cut(f))
    BY <1>7, <1>14, <2>1
  <2>3. IsUpdateText(f, Now, Grown, FALSE)
    BY <1>3, UpdateTextFacts
  <2>. HIDE DEF f
  <2>4. IsUpdateText(f, Now, Grown, Byte = CR)
    BY <1>14, <2>3 DEF IsUpdateText
  <2>. QED  BY <1>10, <1>14, <2>2, <2>4
<1>. QED  BY <1>6, <1>11, <1>12, <1>13, <1>14

LEMMA KvhHeaderOutcome ==
  ASSUME Typed, pos < Len(stream.bytes), KvhHeader
  PROVE  Outcome
<1>. DEFINE b == Append(Now.tag, Byte)
            f == [Reset(Now) EXCEPT !.building = "binary", !.buffer = b]
<1>1. HeaderFound /\ ~Serial /\ Goes(f)
  BY DEF KvhHeader, HeaderFound, Serial
<1>2. Shaped(Reset(Now)) /\ Reset(Now).tag = Now.tag /\ Reset(Now).building = "none"
  BY NowFacts, ResetShaped
<1>3. b \in Seq(Bytes)
  <2>1. Now.tag \in Seq(Bytes) /\ Byte \in Bytes
    BY NowFacts, StreamFacts DEF Shaped, FinderType
  <2>. QED  BY <2>1, AppendProperties
<1>4. Reset(Now) \in FinderType /\ ~Reset(Now).cr /\ Reset(Now).header = 0 /\ Reset(Now).left = 0
      /\ HeaderStart(Now.tag)
  BY <1>2 DEF Shaped
<1>5. f \in FinderType /\ f.building = "binary" /\ f.buffer = b /\ ~f.cr /\ f.header = 0 /\ f.left = 0
      /\ f.tag = Now.tag
  BY <1>2, <1>3, <1>4 DEF FinderType
<1>. HIDE DEF f
<1>6. Shaped(f)
  BY <1>1, <1>4, <1>5 DEF Shaped
<1>7. Becomes(f) /\ Keeps
  BY <1>1, <1>5, <1>6, GoesTagged DEF Becomes
<1>. QED  BY <1>1, <1>5, <1>7 DEF Outcome, Heads

LEMMA KvhStartOutcome ==
  ASSUME Typed, pos < Len(stream.bytes), KvhStart
  PROVE  Outcome
<1>. DEFINE f == [Reset(Now) EXCEPT !.building = "ascii", !.buffer = <<Byte>>]
<1>1. ~Serial /\ Now.building = "none" /\ ~HeaderFound /\ Goes(f)
  BY DEF KvhStart, Serial
<1>2. Shaped(Reset(Now)) /\ Reset(Now).tag = Now.tag /\ Reset(Now).building = "none"
  BY NowFacts, ResetShaped
<1>3. <<Byte>> \in Seq(Bytes)
  BY StreamFacts
<1>4. Reset(Now) \in FinderType /\ ~Reset(Now).cr /\ Reset(Now).header = 0 /\ Reset(Now).left = 0
  BY <1>2 DEF Shaped
<1>5. f \in FinderType /\ f.building = "ascii" /\ f.buffer = <<Byte>> /\ ~f.cr /\ f.header = 0
      /\ f.left = 0 /\ f.tag = Now.tag
  BY <1>2, <1>3, <1>4 DEF FinderType
<1>. HIDE DEF f
<1>6. Shaped(f)
  BY <1>1, <1>5, BegunFacts
<1>7. Becomes(f) /\ Keeps
  BY <1>1, <1>5, <1>6, GoesTagged DEF Becomes
<1>. QED  BY <1>1, <1>5, <1>7 DEF Outcome, Begins

LEMMA KvhPayloadOutcome ==
  ASSUME Typed, pos < Len(stream.bytes), KvhPayload
  PROVE  Outcome
<1>1. ~Serial /\ Now.building = "binary" /\ ~HeaderFound
  BY DEF KvhPayload, Serial
<1>2. Shaped(Now) /\ Now \in FinderType /\ Now.buffer \in Seq(Bytes) /\ Had \in Nat /\ ~Now.cr
      /\ Now.header = 0 /\ Now.left = 0
  BY <1>1, NowFacts DEF Shaped, FinderType, Had
<1>3. /\ Grown \in Seq(Bytes) /\ Len(Grown) = Had + 1
      /\ \A i \in 1 .. Had : Grown[i] = Now.buffer[i]
  BY GrownFacts DEF Had
<1>4. \A h \in KvhHeaders : h.size \in 11 .. 40 /\ Len(h.bytes) = 4
  BY HeaderFacts
<1>5. ASSUME NEW h \in KvhHeaders, Had >= 4
      PROVE  IsPrefix(h.bytes, Now.buffer) <=> SubSeq(Grown, 1, 4) = h.bytes
  <2>1. \A i \in 1 .. 4 : Grown[i] = Now.buffer[i]
    BY <1>2, <1>3, <1>5
  <2>2. Len(Grown) >= 4 /\ Len(Now.buffer) >= 4
    BY <1>2, <1>3, <1>5 DEF Had
  <2>3. IsPrefix(h.bytes, Now.buffer) <=> \A i \in 1 .. 4 : Now.buffer[i] = h.bytes[i]
    BY <1>2, <2>2, FrontMeans
  <2>4. SubSeq(Grown, 1, 4) = h.bytes <=> \A i \in 1 .. 4 : Grown[i] = h.bytes[i]
    BY <1>3, <2>2, FrontMeans
  <2>. QED  BY <2>1, <2>3, <2>4
<1>6. \A h \in KvhHeaders : Len(Grown) = h.size => Had >= 4
  <2>. SUFFICES ASSUME NEW h \in KvhHeaders, Len(Grown) = h.size
                PROVE  Had >= 4
    OBVIOUS
  <2>1. Had \in Nat /\ Had + 1 = h.size
    BY <1>2, <1>3
  <2>. DEFINE s == h.size
  <2>2. s \in 11 .. 40 /\ Had \in Nat /\ Had + 1 = s
    BY <1>4, <2>1
  <2>. HIDE DEF s
  <2>. QED  BY <2>2
<1>7. KvhFrame(Grown) <=> \E h \in KvhHeaders : IsPrefix(h.bytes, Now.buffer) /\ Len(Grown) = h.size
  BY <1>5, <1>6 DEF KvhFrame
<1>8. CASE KvhFrame(Grown)
  <2>1. Complete
    BY <1>7, <1>8 DEF KvhPayload
  <2>2. IsFramed
    BY <1>1, <1>8 DEF IsFramed
  <2>. QED  BY <1>1, <2>1, <2>2, CompleteOutcome
<1>9. CASE ~KvhFrame(Grown)
  <2>. DEFINE f == [Now EXCEPT !.buffer = Grown]
  <2>1. Goes(f)
    BY <1>7, <1>9 DEF KvhPayload
  <2>2. f \in FinderType /\ f.building = "binary" /\ f.buffer = Grown /\ ~f.cr /\ f.header = 0
        /\ f.left = 0 /\ f.tag = Now.tag
    BY <1>1, <1>2, <1>3 DEF FinderType
  <2>. HIDE DEF f
  <2>3. Shaped(f)
    BY <1>1, <2>2, GrowsShaped
  <2>4. Becomes(f) /\ Keeps
    BY <2>1, <2>2, <2>3, GoesTagged DEF Becomes
  <2>. QED  BY <1>1, <1>9, <2>2, <2>4 DEF Outcome, Grows, Keeps
<1>. QED  BY <1>8, <1>9

(* Every byte has one of the outcomes. *)
LEMMA FindOutcome ==
  ASSUME Typed, Find
  PROVE  /\ pos < Len(stream.bytes) /\ pos' = pos + 1 /\ ~thrown
         /\ ready' = ready \cup {k \in Messages : stream.chunks[k].first = pos + 1 /\ Listens}
         /\ UNCHANGED <<stream, rewinds>>
         /\ Outcome
<1>1. /\ pos < Len(stream.bytes) /\ pos' = pos + 1 /\ ~thrown
      /\ ready' = ready \cup {k \in Messages : stream.chunks[k].first = pos + 1 /\ Listens}
      /\ UNCHANGED <<stream, rewinds>>
  BY DEF Find, Reads
<1>2. Start \/ SecondSync \/ Header \/ Payload \/ Text \/ KvhHeader \/ KvhStart \/ KvhPayload
  BY DEF Find
<1>. QED  BY <1>1, <1>2, StartOutcome, SecondSyncOutcome, HeaderOutcome, PayloadOutcome, TextOutcome,
             KvhHeaderOutcome, KvhStartOutcome, KvhPayloadOutcome

-------------------------------------------------------------------------------
(* The type invariant.                                                         *)

LEMMA BecomesFacts ==
  ASSUME Typed, pos < Len(stream.bytes), NEW f, Becomes(f)
  PROVE  /\ finder'.building = f.building /\ finder'.buffer = f.buffer
         /\ finder'.tag = IF Serial THEN <<>> ELSE Tag
         /\ Shaped(finder')
<1>1. Shaped(f) /\ f \in FinderType /\ finder' = Tagged(f)
  BY DEF Becomes, Shaped
<1>2. Tag \in Seq(Bytes) /\ HeaderStart(Tag)
  BY TagFacts
<1>3. CASE Serial
  <2>1. finder' = f
    BY <1>1, <1>3 DEF Tagged
  <2>. QED  BY <1>1, <1>3, <2>1 DEF Shaped
<1>4. CASE ~Serial
  <2>1. /\ finder' \in FinderType /\ finder'.building = f.building /\ finder'.buffer = f.buffer
        /\ (finder'.cr <=> f.cr) /\ finder'.header = f.header /\ finder'.left = f.left
        /\ finder'.tag = Tag
    BY <1>1, <1>2, <1>4 DEF Tagged, FinderType
  <2>2. f.building = "ascii" => TextPart(finder')
    BY <1>1, <1>4, <2>1 DEF Shaped, TextPart
  <2>3. Shaped(finder')
    BY <1>1, <1>2, <1>4, <2>1, <2>2 DEF Shaped
  <2>. QED  BY <1>4, <2>1, <2>3
<1>. QED  BY <1>3, <1>4

LEMMA ShapedPrime ==
  ASSUME stream' = stream, Shaped(finder')
  PROVE  Shaped(finder)'
BY DEF Shaped, Serial, BinaryPart, TextPart, Announced, HeaderLength

LEMMA Fits ==
  ASSUME Typed, pos < Len(stream.bytes), Outcome
  PROVE  /\ Shaped(finder') /\ Len(finder'.buffer) <= Capacity[stream.sensor]
         /\ thrown' \in BOOLEAN
<1>. DEFINE C == Capacity[stream.sensor]
<1>1. C \in Nat /\ C >= 1
  BY StreamFacts
<1>2. ASSUME NEW f, Becomes(f), Len(f.buffer) <= C
      PROVE  Shaped(finder') /\ Len(finder'.buffer) <= C
  BY <1>2, BecomesFacts
<1>. HIDE DEF C
<1>3. Len(<<>>) = 0 /\ Len(<<Byte>>) = 1
  OBVIOUS
<1>4. Becomes(Reset(Now)) => Shaped(finder') /\ Len(finder'.buffer) <= C
  <2>1. Reset(Now).buffer = <<>>
    BY NowFacts, ResetShaped
  <2>. QED  BY <1>1, <1>2, <1>3, <2>1
<1>5. thrown \in BOOLEAN
  BY DEF Typed
<1>6. CASE Drops
  BY <1>4, <1>5, <1>6 DEF Drops, Keeps, C
<1>7. CASE Begins
  BY <1>1, <1>2, <1>3, <1>5, <1>7 DEF Begins, Keeps, C
<1>8. CASE Grows
  <2>1. PICK f \in FinderType : Becomes(f) /\ f.buffer = Grown /\ (thrown' = thrown \/ thrown' = TRUE)
    BY <1>8 DEF Grows
  <2>2. Len(Grown) <= C
    <3>1. Len(Now.buffer) \in Nat /\ Len(Now.buffer) < C
      BY NowFacts DEF C
    <3>2. Len(Grown) = Len(Now.buffer) + 1
      BY GrownFacts
    <3>. QED  BY <1>1, <3>1, <3>2
  <2>. QED  BY <1>2, <1>5, <2>1, <2>2 DEF C
<1>9. CASE Heads
  <2>1. PICK f \in FinderType : Becomes(f) /\ f.buffer = Append(Now.tag, Byte) /\ Keeps
    BY <1>9 DEF Heads
  <2>2. Len(Append(Now.tag, Byte)) <= C
    <3>1. Now.tag \in Seq(Bytes) /\ Byte \in Bytes
      BY NowFacts, StreamFacts DEF Shaped, FinderType
    <3>2. Len(Append(Now.tag, Byte)) = Len(Now.tag) + 1
      BY <3>1, AppendProperties
    <3>3. Len(Now.tag) = 3
      BY <1>9, TagFacts DEF Heads
    <3>4. C > 40
      <4>1. stream.sensor = "kvh"
        BY <1>9 DEF Heads, HeaderFound
      <4>. QED  BY <4>1, PacketFinderAssumption DEF C
    <3>. QED  BY <1>1, <3>2, <3>3, <3>4
  <2>. QED  BY <1>2, <1>5, <2>1, <2>2 DEF C, Keeps
<1>10. CASE Completes
  BY <1>4, <1>10 DEF Completes, C
<1>. QED  BY <1>6, <1>7, <1>8, <1>9, <1>10 DEF Outcome

LEMMA InitTyped ==
  ASSUME Init
  PROVE  Typed
<1>1. stream \in Streams /\ pos = 0 /\ finder = Idle /\ ready = {} /\ rewinds = 0 /\ thrown = FALSE
  BY DEF Init
<1>2. Len(stream.bytes) \in Nat /\ Capacity[stream.sensor] \in Nat
  <2>1. stream.sensor \in Sensors /\ stream.bytes \in Seq(Bytes)
    BY <1>1, StreamsAssumption DEF Bytes
  <2>. QED  BY <2>1, LenProperties, PacketFinderAssumption
<1>3. /\ Idle \in FinderType /\ Idle.building = "none" /\ Idle.buffer = <<>> /\ ~Idle.cr
      /\ Idle.header = 0 /\ Idle.left = 0 /\ Idle.tag = <<>>
  <2>1. <<>> \in Seq(Bytes)
    OBVIOUS
  <2>. QED  BY <2>1 DEF Idle, FinderType
<1>4. HeaderStart(<<>>) /\ Len(<<>>) = 0
  <2>1. Len(<<>>) = 0 /\ KvhHeaders # {}
    BY DEF KvhHeaders
  <2>. QED  BY <2>1 DEF HeaderStart
<1>5. Shaped(finder)
  BY <1>1, <1>3, <1>4 DEF Shaped
<1>6. pos \in 0 .. Len(stream.bytes)
  BY <1>1, <1>2
<1>7. Len(finder.buffer) <= Capacity[stream.sensor]
  <2>1. Len(finder.buffer) = 0
    BY <1>1, <1>3, <1>4
  <2>. QED  BY <1>2, <2>1
<1>8. rewinds \in 0 .. MaxRewinds
  BY <1>1, PacketFinderAssumption
<1>. QED  BY <1>1, <1>5, <1>6, <1>7, <1>8 DEF Typed

LEMMA NextTyped ==
  ASSUME Typed, [Next]_vars
  PROVE  Typed'
<1>1. Len(stream.bytes) \in Nat /\ pos \in Nat
  BY StreamFacts
<1>2. CASE Find
  <2>1. /\ pos < Len(stream.bytes) /\ pos' = pos + 1 /\ Outcome /\ stream' = stream /\ rewinds' = rewinds
        /\ ready' = ready \cup {k \in Messages : stream.chunks[k].first = pos + 1 /\ Listens}
    BY <1>2, FindOutcome
  <2>2. Shaped(finder)' /\ Len(finder'.buffer) <= Capacity[stream.sensor] /\ thrown' \in BOOLEAN
    BY <2>1, Fits, ShapedPrime
  <2>3. pos' \in 0 .. Len(stream.bytes)
    BY <1>1, <2>1
  <2>4. Messages' = Messages
    BY <2>1 DEF Messages
  <2>5. ready' \subseteq Messages
    BY <2>1 DEF Typed
  <2>. QED  BY <2>1, <2>2, <2>3, <2>4, <2>5 DEF Typed
<1>3. CASE Rewind
  <2>1. /\ pos' = 0 /\ ready' = {} /\ rewinds < MaxRewinds /\ rewinds' = rewinds + 1
        /\ UNCHANGED <<stream, finder, thrown>>
    BY <1>3 DEF Rewind
  <2>2. Shaped(finder)'
    BY <2>1, ShapedPrime DEF Typed
  <2>3. rewinds' \in 0 .. MaxRewinds
    BY <2>1, PacketFinderAssumption DEF Typed
  <2>4. pos' \in 0 .. Len(stream.bytes)
    BY <1>1, <2>1
  <2>. QED  BY <2>1, <2>2, <2>3, <2>4 DEF Typed
<1>4. CASE UNCHANGED vars
  <2>1. /\ stream' = stream /\ pos' = pos /\ finder' = finder /\ ready' = ready
        /\ rewinds' = rewinds /\ thrown' = thrown
    BY <1>4 DEF vars
  <2>2. Shaped(finder)'
    BY <2>1, ShapedPrime DEF Typed
  <2>3. Messages' = Messages
    BY <2>1 DEF Messages
  <2>. QED  BY <2>1, <2>2, <2>3 DEF Typed
<1>. QED  BY <1>2, <1>3, <1>4 DEF Next

LEMMA AlwaysTyped == Spec => []Typed
BY InitTyped, NextTyped, PTL DEF Spec

(* The finder never holds more than its buffer, and what it remembers is of     *)
(* the packet it builds: findPacket of all three sensors.                       *)
THEOREM FinderTypeCorrect == Spec => []TypeOK
<1>1. Typed => TypeOK
  <2>. SUFFICES ASSUME Typed
                PROVE  TypeOK
    OBVIOUS
  <2>1. Shaped(finder) /\ finder \in FinderType
    BY DEF Typed, Shaped
  <2>2. finder.building = "none" => finder = Reset(finder)
    BY <2>1, ResetShaped
  <2>3. finder.building = "binary" /\ Serial /\ finder.left > 0
          => finder.header = HeaderLength(stream.sensor) + 1
    <3>. SUFFICES ASSUME finder.building = "binary", Serial, finder.left > 0
                  PROVE  finder.header = HeaderLength(stream.sensor) + 1
      OBVIOUS
    <3>. DEFINE n == Len(finder.buffer)  h == HeaderLength(stream.sensor) + 2
    <3>1. /\ finder.header = IF n <= h THEN n - 1 ELSE h - 1
          /\ n < h => finder.left = 0
      BY <2>1 DEF Shaped, BinaryPart
    <3>2. n \in Nat /\ h \in {5, 6}
      BY <2>1, LenProperties DEF FinderType, HeaderLength
    <3>. HIDE DEF n, h
    <3>3. finder.header = h - 1
      BY <3>1, <3>2
    <3>. QED  BY <3>2, <3>3 DEF h, HeaderLength
  <2>4. finder.left > 0 => finder.building = "binary" /\ Serial
    BY <2>1 DEF Shaped, TextPart, FinderType
  <2>5. finder.left > 0 => finder.building = "binary" /\ finder.header = HeaderLength(stream.sensor) + 1
    BY <2>3, <2>4
  <2>. QED  BY <2>1, <2>2, <2>5 DEF TypeOK, Typed, FinderType, Bytes
<1>. QED  BY <1>1, AlwaysTyped, PTL

-------------------------------------------------------------------------------
(* Where the bytes come from that the finder holds.                            *)

LEMMA OutcomeFacts ==
  ASSUME Typed, pos < Len(stream.bytes), Outcome
  PROVE  /\ Shaped(finder')
         /\ finder'.tag = IF Serial THEN <<>> ELSE Tag
         /\ Drops => finder'.building = "none" /\ finder'.buffer = <<>> /\ found' = found
         /\ Begins => /\ Now.building = "none" /\ finder'.building # "none"
                      /\ finder'.buffer = <<Byte>> /\ found' = found /\ ~HeaderFound
                      /\ IF Serial THEN Byte \in Starts ELSE finder'.building = "ascii"
         /\ Grows => /\ Now.building # "none" /\ finder'.building = Now.building
                     /\ finder'.buffer = Grown /\ found' = found /\ ~HeaderFound
         /\ Heads => /\ finder'.building = "binary" /\ finder'.buffer = Append(Now.tag, Byte)
                     /\ found' = found
         /\ Completes => finder'.building = "none" /\ finder'.buffer = <<>>
<1>1. ASSUME NEW f, Becomes(f)
      PROVE  /\ finder'.building = f.building /\ finder'.buffer = f.buffer
             /\ finder'.tag = IF Serial THEN <<>> ELSE Tag
             /\ Shaped(finder')
  BY <1>1, BecomesFacts
<1>2. Reset(Now).building = "none" /\ Reset(Now).buffer = <<>>
  BY NowFacts, ResetShaped
<1>3. \E f : Becomes(f)
  BY DEF Outcome, Drops, Begins, Grows, Heads, Completes
<1>4. Drops => finder'.building = "none" /\ finder'.buffer = <<>> /\ found' = found
  BY <1>1, <1>2 DEF Drops, Keeps
<1>5. Begins => /\ Now.building = "none" /\ finder'.building # "none"
                /\ finder'.buffer = <<Byte>> /\ found' = found /\ ~HeaderFound
                /\ IF Serial THEN Byte \in Starts ELSE finder'.building = "ascii"
  BY <1>1 DEF Begins, Keeps
<1>6. Grows => /\ Now.building # "none" /\ finder'.building = Now.building
               /\ finder'.buffer = Grown /\ found' = found /\ ~HeaderFound
  BY <1>1 DEF Grows
<1>7. Heads => /\ finder'.building = "binary" /\ finder'.buffer = Append(Now.tag, Byte)
               /\ found' = found
  BY <1>1 DEF Heads, Keeps
<1>8. Completes => finder'.building = "none" /\ finder'.buffer = <<>>
  BY <1>1, <1>2 DEF Completes
<1>. QED  BY <1>1, <1>3, <1>4, <1>5, <1>6, <1>7, <1>8

PacketType == [first : Int, last : Nat, type : {"ascii", "binary", "unknown"}]

LEMMA FoundFacts ==
  ASSUME Typed, pos < Len(stream.bytes), Outcome
  PROVE  /\ Packet \in PacketType
         /\ \/ found' = found
            \/ /\ Completes /\ Valid(stream.sensor, Grown)
               /\ found' = Append(found, Packet)
<1>1. Len(Grown) \in Nat /\ pos \in Nat
  BY GrownFacts, LenProperties, StreamFacts
<1>2. Type(stream.sensor, Grown) \in {"ascii", "binary", "unknown"}
  <2>1. CASE Serial
    BY <2>1 DEF Type, Serial
  <2>2. CASE ~Serial
    BY <2>2 DEF Type, Serial
  <2>. QED  BY <2>1, <2>2
<1>3. pos + 2 - Len(Grown) \in Int /\ pos + 1 \in Nat
  BY <1>1
<1>4. Packet \in PacketType
  BY <1>2, <1>3 DEF Packet, PacketType
<1>5. Completes => found' = IF Valid(stream.sensor, Grown) THEN Append(found, Packet) ELSE found
  BY DEF Completes
<1>. QED  BY <1>4, <1>5, OutcomeFacts DEF Outcome

(* The bytes before position p, as far as there are any, are those of s. *)
EndsAt(s, p) == \A i \in 1 .. Len(s) : p - Len(s) + i >= 1 => s[i] = stream.bytes[p - Len(s) + i]

Placed ==
  /\ EndsAt(finder.buffer, pos) /\ EndsAt(finder.tag, pos)
  /\ rewinds = 0 => Len(finder.buffer) <= pos /\ Len(finder.tag) <= pos
  /\ found \in Seq(PacketType)

LEMMA ReadsOn ==
  ASSUME Typed, pos < Len(stream.bytes), NEW s \in Seq(Bytes), EndsAt(s, pos)
  PROVE  EndsAt(Append(s, Byte), pos + 1) /\ Len(Append(s, Byte)) = Len(s) + 1
<1>1. Byte \in Bytes /\ pos \in Nat
  BY StreamFacts
<1>2. Len(s) \in Nat
  BY LenProperties
<1>3. /\ Len(Append(s, Byte)) = Len(s) + 1
      /\ \A i \in 1 .. Len(s) : Append(s, Byte)[i] = s[i]
      /\ Append(s, Byte)[Len(s) + 1] = Byte
  BY <1>1, AppendProperties
<1>. DEFINE t == Append(s, Byte)  n == Len(s)
<1>. HIDE DEF t, n
<1>4. \A i \in 1 .. n + 1 : (pos + 1) - (n + 1) + i = pos - n + i /\ (i \in 1 .. n \/ i = n + 1)
      /\ (i = n + 1 => pos - n + i = pos + 1)
  BY <1>1, <1>2 DEF n
<1>5. \A i \in 1 .. n + 1 : (pos + 1) - (n + 1) + i >= 1 => t[i] = stream.bytes[(pos + 1) - (n + 1) + i]
  BY <1>3, <1>4 DEF EndsAt, n, t, Byte
<1>. QED  BY <1>3, <1>5 DEF EndsAt, n, t

LEMMA HeldFacts ==
  ASSUME Typed, Placed
  PROVE  /\ EndsAt(<<>>, pos) /\ EndsAt(Now.buffer, pos) /\ EndsAt(Now.tag, pos)
         /\ rewinds = 0 => Len(Now.buffer) <= pos /\ Len(Now.tag) <= pos
         /\ Now.buffer \in Seq(Bytes) /\ Now.tag \in Seq(Bytes) /\ <<>> \in Seq(Bytes)
<1>1. Len(<<>>) = 0 /\ pos \in Nat
  BY StreamFacts
<1>2. EndsAt(<<>>, pos)
  BY <1>1 DEF EndsAt
<1>3. /\ Now.building # "none" => Now = finder
      /\ Now.building = "none" => Now.buffer = <<>>
      /\ Now.tag = finder.tag
      /\ Now.buffer \in Seq(Bytes) /\ Now.tag \in Seq(Bytes)
  BY NowFacts DEF Shaped, FinderType
<1>. QED  BY <1>1, <1>2, <1>3 DEF Placed

LEMMA FindPlaced ==
  ASSUME Typed, Placed, pos < Len(stream.bytes), Outcome, pos' = pos + 1,
         stream' = stream, rewinds' = rewinds
  PROVE  Placed'
<1>1. pos \in Nat /\ Byte \in Bytes
  BY StreamFacts
<1>2. /\ EndsAt(<<>>, pos) /\ EndsAt(Now.buffer, pos) /\ EndsAt(Now.tag, pos)
      /\ rewinds = 0 => Len(Now.buffer) <= pos /\ Len(Now.tag) <= pos
      /\ Now.buffer \in Seq(Bytes) /\ Now.tag \in Seq(Bytes) /\ <<>> \in Seq(Bytes)
  BY HeldFacts
<1>. DEFINE Good(s) == EndsAt(s, pos + 1) /\ (rewinds = 0 => Len(s) <= pos + 1)
<1>3. ASSUME NEW s \in Seq(Bytes), EndsAt(s, pos), rewinds = 0 => Len(s) <= pos
      PROVE  Good(Append(s, Byte))
  <2>1. Len(s) \in Nat
    BY LenProperties
  <2>2. EndsAt(Append(s, Byte), pos + 1) /\ Len(Append(s, Byte)) = Len(s) + 1
    BY <1>3, ReadsOn
  <2>3. rewinds = 0 => Len(s) + 1 <= pos + 1
    BY <1>1, <1>3, <2>1
  <2>. QED  BY <2>2, <2>3
<1>4. Good(<<>>)
  <2>1. Len(<<>>) = 0
    OBVIOUS
  <2>. QED  BY <1>1, <2>1 DEF EndsAt
<1>5. Good(<<Byte>>)
  <2>1. <<Byte>> = Append(<<>>, Byte) /\ Len(<<>>) = 0
    OBVIOUS
  <2>2. rewinds = 0 => Len(<<>>) <= pos
    BY <1>1, <2>1
  <2>3. Good(Append(<<>>, Byte))
    BY <1>2, <1>3, <2>2
  <2>. QED  BY <2>1, <2>3
<1>6. Good(Grown)
  BY <1>2, <1>3 DEF Grown
<1>7. Good(Append(Now.tag, Byte))
  BY <1>2, <1>3
<1>. HIDE DEF Good
<1>8. Good(finder'.buffer)
  BY <1>4, <1>5, <1>6, <1>7, OutcomeFacts DEF Outcome
<1>9. Good(finder'.tag)
  BY <1>4, <1>7, OutcomeFacts, TagFacts
<1>10. found' \in Seq(PacketType)
  BY FoundFacts, AppendProperties DEF Placed
<1>11. \A s : EndsAt(s, pos + 1) => \A i \in 1 .. Len(s) :
          pos' - Len(s) + i >= 1 => s[i] = stream'.bytes[pos' - Len(s) + i]
  BY DEF EndsAt
<1>12. EndsAt(finder.buffer, pos)' /\ EndsAt(finder.tag, pos)'
  BY <1>8, <1>9, <1>11 DEF Good, EndsAt
<1>. QED  BY <1>8, <1>9, <1>10, <1>12 DEF Placed, Good

LEMMA NextPlaced ==
  ASSUME Typed, Placed, [Next]_vars
  PROVE  Placed'
<1>1. CASE Find
  BY <1>1, FindOutcome, FindPlaced
<1>2. CASE Rewind
  <2>1. pos' = 0 /\ rewinds' # 0 /\ found' = <<>> /\ UNCHANGED <<stream, finder>>
    BY <1>2 DEF Rewind, Typed
  <2>2. Len(finder.buffer) \in Nat /\ Len(finder.tag) \in Nat
    BY LenProperties DEF Typed, Shaped, FinderType
  <2>3. \A n \in Nat : \A i \in 1 .. n : ~(0 - n + i >= 1)
    OBVIOUS
  <2>4. EndsAt(finder.buffer, pos)' /\ EndsAt(finder.tag, pos)'
    BY <2>1, <2>2, <2>3 DEF EndsAt
  <2>5. found' \in Seq(PacketType)
    BY <2>1
  <2>. QED  BY <2>1, <2>4, <2>5 DEF Placed
<1>3. CASE UNCHANGED vars
  BY <1>3 DEF vars, Placed, EndsAt
<1>. QED  BY <1>1, <1>2, <1>3 DEF Next

LEMMA AlwaysPlaced == Spec => []Placed
<1>1. Init => Placed
  <2>. SUFFICES ASSUME Init
                PROVE  Placed
    OBVIOUS
  <2>1. pos = 0 /\ finder.buffer = <<>> /\ finder.tag = <<>> /\ found = <<>> /\ Len(<<>>) = 0
    BY DEF Init, Idle
  <2>. QED  BY <2>1 DEF Placed, EndsAt
<1>2. Typed /\ Placed /\ [Next]_vars => Placed'
  BY NextPlaced
<1>. QED  BY <1>1, <1>2, AlwaysTyped, PTL DEF Spec

-------------------------------------------------------------------------------
(* A message that the finder was ready for.                                    *)

Message(k) == SubSeq(stream.bytes, stream.chunks[k].first, stream.chunks[k].last)

LEMMA ChunkFacts ==
  ASSUME Typed, NEW k \in DOMAIN stream.chunks
  PROVE  /\ stream.chunks[k].first \in Nat /\ stream.chunks[k].last \in Nat
         /\ 1 <= stream.chunks[k].first /\ stream.chunks[k].first <= stream.chunks[k].last
         /\ stream.chunks[k].last <= Len(stream.bytes)
<1>1. stream.chunks[k] \in [kind : {"message", "damaged", "foreign"}, first : Nat, last : Nat]
  <2>1. stream.chunks \in Seq([kind : {"message", "damaged", "foreign"}, first : Nat, last : Nat])
    BY StreamsAssumption DEF Typed
  <2>2. DOMAIN stream.chunks = 1 .. Len(stream.chunks)
    BY <2>1, LenProperties
  <2>. QED  BY <2>1, <2>2, ElementOfSeq
<1>2. /\ 1 <= stream.chunks[k].first /\ stream.chunks[k].first <= stream.chunks[k].last
      /\ stream.chunks[k].last <= Len(stream.bytes)
  BY StreamsAssumption DEF Typed
<1>. QED  BY <1>1, <1>2

LEMMA MessageFacts ==
  ASSUME Typed, NEW k \in Messages
  PROVE  /\ Message(k) \in Seq(Bytes)
         /\ Len(Message(k)) = stream.chunks[k].last - stream.chunks[k].first + 1
         /\ \A j \in 1 .. Len(Message(k)) : Message(k)[j] = stream.bytes[stream.chunks[k].first + j - 1]
         /\ IsMessage(stream.sensor, Message(k))
<1>. DEFINE a == stream.chunks[k].first  b == stream.chunks[k].last
<1>1. a \in Nat /\ b \in Nat /\ 1 <= a /\ a <= b /\ b <= Len(stream.bytes)
  BY ChunkFacts DEF Messages
<1>2. IsMessage(stream.sensor, Message(k))
  BY StreamsAssumption DEF Typed, Messages, Message
<1>. HIDE DEF a, b
<1>3. \A i \in a .. b : stream.bytes[i] \in Bytes
  <2>1. \A i \in a .. b : i \in 1 .. Len(stream.bytes)
    BY <1>1, StreamFacts
  <2>. QED  BY <2>1, StreamFacts, ElementOfSeq
<1>4. /\ SubSeq(stream.bytes, a, b) \in Seq(Bytes)
      /\ Len(SubSeq(stream.bytes, a, b)) = b - a + 1
      /\ \A i \in 1 .. b - a + 1 : SubSeq(stream.bytes, a, b)[i] = stream.bytes[a + i - 1]
  BY <1>1, <1>3, SubSeqProperties
<1>. QED  BY <1>2, <1>4 DEF Message, a, b

(* The buffer is the part of m before the next byte, which is of m.            *)
Follows(m) == /\ m \in Seq(Bytes) /\ Len(m) \in Nat
              /\ Had \in Nat /\ Had >= 1 /\ Had < Len(m)
              /\ Len(Grown) = Had + 1 /\ \A j \in 1 .. Had + 1 : Grown[j] = m[j]
              /\ m[Had + 1] = Byte

LEMMA FollowsMessage ==
  ASSUME Typed, Placed, pos < Len(stream.bytes), NEW k \in Messages,
         stream.chunks[k].first <= pos, pos < stream.chunks[k].last,
         Len(Now.buffer) = pos + 1 - stream.chunks[k].first
  PROVE  /\ Follows(Message(k))
         /\ pos + 1 = stream.chunks[k].last <=> Had + 1 = Len(Message(k))
         /\ Had + 1 = Len(Message(k)) => Grown = Message(k) /\ Is(Packet, k)
<1>. DEFINE m == Message(k)  a == stream.chunks[k].first  b == stream.chunks[k].last
<1>1. a \in Nat /\ b \in Nat /\ 1 <= a /\ a <= pos /\ pos < b /\ pos \in Nat
  BY ChunkFacts, StreamFacts DEF Messages
<1>2. /\ m \in Seq(Bytes) /\ Len(m) = b - a + 1
      /\ \A j \in 1 .. Len(m) : m[j] = stream.bytes[a + j - 1]
  BY MessageFacts
<1>3. Had = pos + 1 - a
  BY DEF Had
<1>4. /\ Grown \in Seq(Bytes) /\ Len(Grown) = Had + 1
      /\ \A i \in 1 .. Had : Grown[i] = Now.buffer[i]
      /\ Grown[Had + 1] = Byte
  BY GrownFacts DEF Had
<1>5. \A i \in 1 .. Had : pos - Had + i >= 1 => Now.buffer[i] = stream.bytes[pos - Had + i]
  BY HeldFacts DEF EndsAt, Had
<1>6. Is(Packet, k) <=> pos + 2 - Len(Grown) = a /\ pos + 1 = b
  BY DEF Is, Packet
<1>. HIDE DEF m, a, b
<1>7. Had \in Nat /\ Had >= 1 /\ Had < Len(m) /\ Len(m) \in Nat
  BY <1>1, <1>2, <1>3
<1>8. \A j \in 1 .. Had : Grown[j] = m[j]
  <2>1. \A j \in 1 .. Had : pos - Had + j = a + j - 1 /\ a + j - 1 >= 1 /\ j \in 1 .. Len(m)
    BY <1>1, <1>2, <1>3
  <2>. QED  BY <1>2, <1>4, <1>5, <2>1
<1>9. m[Had + 1] = Byte
  <2>1. Had + 1 \in 1 .. Len(m) /\ a + (Had + 1) - 1 = pos + 1
    BY <1>1, <1>2, <1>3
  <2>. QED  BY <1>2, <2>1 DEF Byte
<1>10. \A j \in 1 .. Had + 1 : Grown[j] = m[j]
  <2>1. \A j \in 1 .. Had + 1 : j \in 1 .. Had \/ j = Had + 1
    BY <1>7
  <2>. QED  BY <1>4, <1>8, <1>9, <2>1
<1>11. pos + 1 = b <=> Had + 1 = Len(m)
  BY <1>1, <1>2, <1>3
<1>12. Had + 1 = Len(m) => Grown = m
  BY <1>2, <1>4, <1>10, SeqEqual
<1>13. pos + 2 - (Had + 1) = a
  BY <1>1, <1>3
<1>14. Follows(m)
  BY <1>2, <1>4, <1>7, <1>9, <1>10 DEF Follows
<1>. QED  BY <1>4, <1>6, <1>11, <1>12, <1>13, <1>14 DEF m, a, b

(* A text goes on up to its end.                                               *)
LEMMA LineStep ==
  ASSUME Typed, pos < Len(stream.bytes), Outcome, ~HeaderFound, NEW m, Follows(m),
         Now.building = "ascii", IsLine(m), ~Serial => Len(m) <= MaxAscii
  PROVE  IF Had + 1 < Len(m) THEN Grows ELSE Completes
<1>. DEFINE n == Len(m)
<1>1. /\ Had \in Nat /\ n \in Nat /\ Had >= 1 /\ Had < n
      /\ Len(Grown) = Had + 1 /\ \A j \in 1 .. Had + 1 : Grown[j] = m[j]
      /\ m[Had + 1] = Byte
  BY DEF Follows
<1>2. /\ n > 2 /\ m[n - 1] = CR /\ m[n] = LF
      /\ \A i \in 2 .. n - 2 : m[i] # Escape /\ (m[i] = CR => m[i + 1] = CR)
  BY DEF IsLine
<1>3. Now.cr <=> (Had >= 2 /\ Grown[Had] = CR)
  BY LineFacts
<1>4. Escape # CR /\ Escape # LF /\ CR # LF
  BY DEF Escape, CR, LF
<1>5. MaxAscii \in Nat
  BY PacketFinderAssumption
<1>6. ~Serial => n <= MaxAscii
  OBVIOUS
<1>. HIDE DEF n
<1>7. Had + 1 \in 1 .. Had + 1 /\ Had \in 1 .. Had + 1 /\ Grown[Had] = m[Had] /\ Grown[Had + 1] = m[Had + 1]
  BY <1>1
<1>8. (Had + 1 \in 2 .. n - 2 \/ Had + 1 = n - 1 \/ Had + 1 = n) /\ Had + 1 >= 2 /\ (Had + 1 = n => Had = n - 1)
  BY <1>1
<1>9. ~Drops
  <2>1. Byte # Escape
    BY <1>1, <1>2, <1>4, <1>8
  <2>2. Now.cr => Byte \in {CR, LF}
    <3>. SUFFICES ASSUME Now.cr, Had + 1 # n, Had + 1 # n - 1
                  PROVE  Byte = CR
      BY <1>1, <1>2
    <3>1. Had \in 2 .. n - 2
      BY <1>1, <1>3, <1>8
    <3>. QED  BY <1>1, <1>2, <1>3, <1>7, <3>1
  <2>3. ~Serial /\ Len(Grown) >= MaxAscii => Now.cr /\ Byte = LF
    <3>. SUFFICES ASSUME ~Serial, Len(Grown) >= MaxAscii
                  PROVE  Now.cr /\ Byte = LF
      OBVIOUS
    <3>1. Had + 1 = n
      BY <1>1, <1>5, <1>6
    <3>2. Had = n - 1 /\ Had >= 2
      BY <1>1, <1>2, <3>1
    <3>. QED  BY <1>1, <1>2, <1>3, <1>7, <3>1, <3>2
  <2>. QED  BY <2>1, <2>2, <2>3 DEF Drops
<1>10. Grows \/ Completes
  BY <1>9 DEF Outcome, Begins, Heads
<1>11. CASE Had + 1 < n
  <2>1. ~Completes
    <3>. SUFFICES ASSUME Completes
                  PROVE  FALSE
      OBVIOUS
    <3>1. IsLine(Grown)
      BY DEF Completes, IsFramed
    <3>2. Had + 1 > 2 /\ Grown[(Had + 1) - 1] = CR /\ Grown[Had + 1] = LF
      BY <1>1, <3>1 DEF IsLine
    <3>3. (Had + 1) - 1 = Had /\ Had \in 2 .. n - 2
      BY <1>1, <1>11, <3>2
    <3>. QED  BY <1>2, <1>4, <1>7, <3>2, <3>3
  <2>. QED  BY <1>10, <1>11, <2>1 DEF n
<1>12. CASE Had + 1 = n
  <2>1. ~Grows
    <3>. SUFFICES ASSUME Grows
                  PROVE  FALSE
      OBVIOUS
    <3>1. TextPart(finder') /\ finder'.buffer = Grown
      BY OutcomeFacts DEF Shaped
    <3>2. \A i \in 2 .. (Had + 1) - 1 : Grown[i] = CR => Grown[i + 1] = CR
      BY <1>1, <3>1 DEF TextPart
    <3>3. Had = n - 1 /\ Had \in 2 .. (Had + 1) - 1
      BY <1>1, <1>2, <1>12
    <3>. QED  BY <1>2, <1>4, <1>7, <1>12, <3>2, <3>3
  <2>2. ~(Had + 1 < n)
    BY <1>1, <1>12
  <2>. QED  BY <1>10, <2>1, <2>2 DEF n
<1>. QED  BY <1>1, <1>11, <1>12

(* Binary data of a serial sensor go on up to the length they announce.        *)
LEMMA DataStep ==
  ASSUME Typed, pos < Len(stream.bytes), Outcome, NEW m, Follows(m),
         Serial, Now.building = "binary", BinaryFrame(stream.sensor, m)
  PROVE  IF Had + 1 < Len(m) THEN Grows ELSE Completes
<1>. DEFINE n == Len(m)
<1>1. /\ Had \in Nat /\ n \in Nat /\ Had >= 1 /\ Had < n
      /\ Len(Grown) = Had + 1 /\ \A j \in 1 .. Had + 1 : Grown[j] = m[j]
      /\ m[Had + 1] = Byte
  BY DEF Follows
<1>2. n > Lead /\ m[2] = Sync2 /\ n = Announced(stream.sensor, m) /\ Lead \in {5, 6}
  BY DEF BinaryFrame, Lead, HeaderLength
<1>. HIDE DEF n
<1>3. Had + 1 >= Lead => Announced(stream.sensor, Grown) = Announced(stream.sensor, m)
  <2>1. Had + 1 >= Lead => Lead - 1 \in 1 .. Had + 1 /\ Lead \in 1 .. Had + 1
    BY <1>1, <1>2
  <2>2. Had + 1 >= Lead => Grown[Lead - 1] = m[Lead - 1] /\ Grown[Lead] = m[Lead]
    BY <1>1, <2>1
  <2>. QED  BY <2>2 DEF Announced, Lead
<1>4. ~Drops /\ ~Begins /\ ~Heads
  <2>1. Had = 1 => Byte = Sync2
    BY <1>1, <1>2
  <2>. QED  BY <2>1 DEF Drops, Begins, Heads, HeaderFound, Serial, Had
<1>5. Grows \/ Completes
  BY <1>4 DEF Outcome
<1>6. CASE Had + 1 < n
  <2>1. ~Completes
    <3>. SUFFICES ASSUME Completes
                  PROVE  FALSE
      OBVIOUS
    <3>1. BinaryFrame(stream.sensor, Grown)
      BY DEF Completes, IsFramed
    <3>2. Had + 1 > Lead /\ Had + 1 = Announced(stream.sensor, Grown)
      BY <1>1, <3>1 DEF BinaryFrame, Lead
    <3>3. Had + 1 = n
      BY <1>1, <1>2, <1>3, <3>2
    <3>. QED  BY <1>1, <1>6, <3>3
  <2>. QED  BY <1>5, <1>6, <2>1 DEF n
<1>7. CASE Had + 1 = n
  <2>1. ~Grows
    <3>. SUFFICES ASSUME Grows
                  PROVE  FALSE
      OBVIOUS
    <3>1. BinaryPart(finder') /\ finder'.buffer = Grown /\ finder' \in FinderType
      BY OutcomeFacts DEF Shaped
    <3>2. Had + 1 >= Lead => finder'.left >= 1 /\ Had + 1 + finder'.left = Announced(stream.sensor, Grown)
      BY <1>1, <3>1 DEF BinaryPart, Lead
    <3>3. finder'.left \in Nat
      BY <3>1 DEF FinderType
    <3>4. Had + 1 >= Lead
      BY <1>1, <1>2, <1>7
    <3>. QED  BY <1>1, <1>2, <1>3, <1>7, <3>2, <3>3, <3>4
  <2>2. ~(Had + 1 < n)
    BY <1>1, <1>7
  <2>. QED  BY <1>5, <2>1, <2>2 DEF n
<1>. QED  BY <1>1, <1>6, <1>7

LEMMA SubFour ==
  ASSUME NEW p \in Seq(Bytes), NEW a \in 1 .. Len(p) - 3, NEW h \in KvhHeaders
  PROVE  SubSeq(p, a, a + 3) = h.bytes <=> \A j \in 1 .. 4 : p[a + j - 1] = h.bytes[j]
<1>1. h.bytes \in Seq(Bytes) /\ Len(h.bytes) = 4
  BY HeaderFacts
<1>2. Len(p) \in Nat
  BY LenProperties
<1>3. a \in Nat /\ a >= 1 /\ a + 3 <= Len(p) /\ a + 3 \in Nat /\ a <= a + 3 /\ (a + 3) - a + 1 = 4
  BY <1>2
<1>4. \A i \in a .. a + 3 : p[i] \in Bytes
  <2>1. \A i \in a .. a + 3 : i \in 1 .. Len(p)
    BY <1>2, <1>3
  <2>. QED  BY <2>1, ElementOfSeq
<1>5. /\ SubSeq(p, a, a + 3) \in Seq(Bytes) /\ Len(SubSeq(p, a, a + 3)) = 4
      /\ \A j \in 1 .. 4 : SubSeq(p, a, a + 3)[j] = p[a + j - 1]
  <2>. DEFINE b == a + 3
  <2>1. b - a + 1 = 4 /\ a <= b /\ a \in Int /\ b \in Int
    BY <1>3
  <2>2. \A i \in a .. b : p[i] \in Bytes
    BY <1>4
  <2>. HIDE DEF b
  <2>3. /\ SubSeq(p, a, b) \in Seq(Bytes)
        /\ Len(SubSeq(p, a, b)) = IF a <= b THEN b - a + 1 ELSE 0
        /\ \A j \in 1 .. b - a + 1 : SubSeq(p, a, b)[j] = p[a + j - 1]
    BY <2>1, <2>2, SubSeqProperties
  <2>. QED  BY <2>1, <2>3 DEF b
<1>. DEFINE q == SubSeq(p, a, a + 3)
<1>6. q \in Seq(Bytes) /\ Len(q) = 4 /\ \A j \in 1 .. 4 : q[j] = p[a + j - 1]
  BY <1>5
<1>. HIDE DEF q
<1>7. q = h.bytes <=> \A j \in 1 .. 4 : q[j] = h.bytes[j]
  BY <1>1, <1>6, SeqEqual
<1>8. q = h.bytes <=> \A j \in 1 .. 4 : p[a + j - 1] = h.bytes[j]
  BY <1>6, <1>7
<1>. QED  BY <1>8 DEF q

(* A byte that goes on with the start of a header.                             *)
LEMMA TagGrows ==
  ASSUME Typed, pos < Len(stream.bytes), NEW h \in KvhHeaders,
         \A j \in 1 .. Len(Now.tag) : Now.tag[j] = h.bytes[j], Byte = h.bytes[Len(Now.tag) + 1]
  PROVE  /\ Len(Now.tag) < 3 => Len(Tag) = Len(Now.tag) + 1
         /\ Len(Now.tag) = 3 /\ ~Serial => HeaderFound
<1>. DEFINE t == Append(Now.tag, Byte)  n == Len(Now.tag)
<1>1. Now.tag \in Seq(Bytes) /\ Byte \in Bytes
  BY NowFacts, StreamFacts DEF Shaped, FinderType
<1>2. n \in Nat
  BY <1>1, LenProperties
<1>3. /\ t \in Seq(Bytes) /\ Len(t) = n + 1
      /\ \A j \in 1 .. n : t[j] = Now.tag[j]
      /\ t[n + 1] = Byte
  BY <1>1, AppendProperties
<1>4. Tag = IF \E g \in KvhHeaders : IsStrictPrefix(t, g.bytes) THEN t ELSE <<>>
  BY DEF Tag
<1>5. HeaderFound <=> ~Serial /\ \E g \in KvhHeaders : g.bytes = t
  BY DEF HeaderFound, Serial
<1>6. (\A j \in 1 .. n : Now.tag[j] = h.bytes[j]) /\ Byte = h.bytes[n + 1]
  OBVIOUS
<1>. HIDE DEF t, n
<1>7. \A j \in 1 .. n + 1 : t[j] = h.bytes[j]
  <2>1. \A j \in 1 .. n + 1 : j \in 1 .. n \/ j = n + 1
    BY <1>2
  <2>. QED  BY <1>3, <1>6, <2>1
<1>8. n < 3 => IsStrictPrefix(t, h.bytes)
  <2>1. n < 3 => n + 1 < 4
    BY <1>2
  <2>. QED  BY <1>3, <1>7, <2>1, PrefixMeans
<1>9. n = 3 => h.bytes = t
  <2>1. n = 3 => n + 1 = 4
    OBVIOUS
  <2>. QED  BY <1>3, <1>7, <2>1, HeaderMeans
<1>. QED  BY <1>3, <1>4, <1>5, <1>8, <1>9 DEF n

(* A byte of a text is none of the first three of a header.                    *)
LEMMA TextTag ==
  ASSUME Typed, pos < Len(stream.bytes), Byte \in 1 .. 127
  PROVE  Tag = <<>>
<1>. SUFFICES ASSUME Tag # <<>>
              PROVE  FALSE
  OBVIOUS
<1>. DEFINE n == Len(Now.tag)
<1>1. n \in Nat /\ n < 4 /\ Tag = Append(Now.tag, Byte) /\ HeaderStart(Tag) /\ Len(Tag) = n + 1
  BY TagFacts
<1>2. Tag[n + 1] = Byte
  BY <1>1, NowFacts, StreamFacts, AppendProperties DEF Shaped, FinderType
<1>. HIDE DEF n
<1>3. PICK h \in KvhHeaders : \A j \in 1 .. Len(Tag) : Tag[j] = h.bytes[j]
  BY <1>1 DEF HeaderStart
<1>4. n + 1 < 4
  BY <1>1 DEF HeaderStart
<1>5. n + 1 \in {1, 2, 3} /\ Byte = h.bytes[n + 1]
  BY <1>1, <1>2, <1>3, <1>4
<1>6. h.bytes[1] = 254 /\ h.bytes[2] = 129 /\ h.bytes[3] \in {255, 0}
  BY HeaderFacts
<1>7. Byte \in {254, 129, 255, 0}
  BY <1>5, <1>6
<1>. QED  BY <1>7

(* Binary data of the KVH sensor go on up to the size of their header, when no *)
(* other header is in them.                                                    *)
LEMMA KvhStep ==
  ASSUME Typed, pos < Len(stream.bytes), Outcome, NEW m, Follows(m),
         ~Serial, Now.building = "binary", KvhFrame(m), Had >= 4,
         Type(stream.sensor, m) # "unknown",
         \A i \in 2 .. Len(m) - 3, h \in KvhHeaders : SubSeq(m, i, i + 3) # h.bytes,
         Len(Now.tag) <= Had - 4,
         \A j \in 1 .. Len(Now.tag) : Now.tag[j] = m[Had - Len(Now.tag) + j]
  PROVE  /\ ~HeaderFound
         /\ IF Had + 1 < Len(m) THEN Grows ELSE Completes
<1>. DEFINE n == Len(m)
<1>1. /\ Had \in Nat /\ n \in Nat /\ Had >= 1 /\ Had < n /\ m \in Seq(Bytes)
      /\ Len(Grown) = Had + 1 /\ \A j \in 1 .. Had + 1 : Grown[j] = m[j]
      /\ m[Had + 1] = Byte
  BY DEF Follows
<1>2. Grown \in Seq(Bytes)
  BY GrownFacts
<1>3. PICK h \in KvhHeaders : n = h.size /\ SubSeq(m, 1, 4) = h.bytes
  BY DEF KvhFrame
<1>4. ~HeaderFound
  <2>. SUFFICES ASSUME HeaderFound
                PROVE  FALSE
    OBVIOUS
  <2>1. Len(Now.tag) = 3 /\ Had >= 7
    <3>1. Len(Now.tag) = 3
      BY TagFacts
    <3>2. 3 <= Had - 4
      BY <3>1
    <3>. QED  BY <1>1, <3>1, <3>2
  <2>2. PICK g \in KvhHeaders : g.bytes = Append(Now.tag, Byte)
    BY DEF HeaderFound
  <2>3. /\ Append(Now.tag, Byte)[1] = Now.tag[1] /\ Append(Now.tag, Byte)[2] = Now.tag[2]
        /\ Append(Now.tag, Byte)[3] = Now.tag[3] /\ Append(Now.tag, Byte)[4] = Byte
    <3>1. Now.tag \in Seq(Bytes) /\ Byte \in Bytes
      BY NowFacts, StreamFacts DEF Shaped, FinderType
    <3>. QED  BY <2>1, <3>1, AppendProperties
  <2>. DEFINE a == Had - 2
  <2>4. a \in 2 .. n - 3 /\ a \in 1 .. n - 3
        /\ a + 1 - 1 = Had - 3 + 1 /\ a + 2 - 1 = Had - 3 + 2 /\ a + 3 - 1 = Had - 3 + 3 /\ a + 4 - 1 = Had + 1
    BY <1>1, <2>1
  <2>5. Now.tag[1] = m[Had - 3 + 1] /\ Now.tag[2] = m[Had - 3 + 2] /\ Now.tag[3] = m[Had - 3 + 3]
    BY <2>1
  <2>6. SubSeq(m, a, a + 3) # g.bytes
    BY <2>4
  <2>. HIDE DEF a
  <2>7. /\ m[a + 1 - 1] = g.bytes[1] /\ m[a + 2 - 1] = g.bytes[2]
        /\ m[a + 3 - 1] = g.bytes[3] /\ m[a + 4 - 1] = g.bytes[4]
    BY <1>1, <2>2, <2>3, <2>4, <2>5
  <2>8. \A j \in 1 .. 4 : m[a + j - 1] = g.bytes[j]
    <3>1. \A j \in 1 .. 4 : j = 1 \/ j = 2 \/ j = 3 \/ j = 4
      OBVIOUS
    <3>. QED  BY <2>7, <3>1
  <2>. QED  BY <1>1, <2>4, <2>6, <2>8, SubFour
<1>5. Grows \/ Completes
  BY <1>4 DEF Outcome, Drops, Begins, Heads
<1>6. \A j \in 1 .. 4 : m[j] = h.bytes[j]
  <2>1. Len(m) >= 4
    BY <1>1
  <2>. QED  BY <1>1, <1>3, <2>1, FrontMeans
<1>7. ASSUME KvhFrame(Grown)
      PROVE  Had + 1 = n
  <2>1. PICK g \in KvhHeaders : Len(Grown) = g.size /\ SubSeq(Grown, 1, 4) = g.bytes
    BY <1>7 DEF KvhFrame
  <2>2. Len(Grown) >= 4
    BY <1>1
  <2>3. \A j \in 1 .. 4 : Grown[j] = g.bytes[j]
    BY <1>2, <2>1, <2>2, FrontMeans
  <2>4. \A j \in 1 .. 4 : Grown[j] = m[j]
    BY <1>1
  <2>5. \A j \in 1 .. 4 : g.bytes[j] = h.bytes[j]
    BY <1>6, <2>3, <2>4
  <2>6. g = h
    BY <2>5, HeaderUnique
  <2>. QED  BY <1>1, <1>3, <2>1, <2>6
<1>8. CASE Had + 1 < n
  <2>1. ~Completes
    <3>1. Completes => KvhFrame(Grown)
      BY DEF Completes, IsFramed
    <3>. QED  BY <1>1, <1>7, <1>8, <3>1
  <2>. QED  BY <1>4, <1>5, <1>8, <2>1
<1>9. CASE Had + 1 = n
  <2>1. Grown = m
    BY <1>1, <1>2, <1>9, SeqEqual
  <2>2. ~Grows
    BY <2>1 DEF Grows
  <2>3. ~(Had + 1 < n)
    BY <1>1, <1>9
  <2>. QED  BY <1>4, <1>5, <2>2, <2>3
<1>. QED  BY <1>1, <1>8, <1>9

(* What is sent.                                                               *)
LEMMA FrameFacts ==
  ASSUME Typed, NEW k \in Messages
  PROVE  LET m == Message(k)
         IN  /\ Len(m) >= 2 /\ Len(m) <= Capacity[stream.sensor]
             /\ Type(stream.sensor, m) # "unknown" /\ Valid(stream.sensor, m)
             /\ Serial => m[1] \in {Sync1, AsciiStart}
             /\ Serial /\ m[1] = Sync1 => BinaryFrame(stream.sensor, m)
             /\ Serial /\ m[1] = AsciiStart => IsLine(m)
             /\ ~Serial /\ m[1] = 254 =>
                  /\ KvhFrame(m) /\ Len(m) >= 11
                  /\ \A i \in 2 .. Len(m) - 3, h \in KvhHeaders : SubSeq(m, i, i + 3) # h.bytes
             /\ ~Serial /\ m[1] # 254 => KvhLine(m)
<1>. DEFINE m == Message(k)
<1>1. IsMessage(stream.sensor, m) /\ m \in Seq(Bytes)
  BY MessageFacts
<1>2. Len(m) \in Nat
  BY <1>1, LenProperties
<1>3. /\ Framed(stream.sensor, m) /\ Len(m) <= Capacity[stream.sensor]
      /\ Type(stream.sensor, m) # "unknown" /\ Valid(stream.sensor, m)
      /\ ~Serial => \A i \in 2 .. Len(m) - 3, h \in KvhHeaders : SubSeq(m, i, i + 3) # h.bytes
  BY <1>1 DEF IsMessage, Serial
<1>. HIDE DEF m
<1>4. HeaderLength(stream.sensor) \in {3, 4}
  BY DEF HeaderLength
<1>5. BinaryFrame(stream.sensor, m) => Len(m) >= 2 /\ m[1] = Sync1
  BY <1>2, <1>4 DEF BinaryFrame
<1>6. IsLine(m) => Len(m) >= 2
  BY <1>2 DEF IsLine
<1>7. KvhFrame(m) => Len(m) >= 11 /\ m[1] = 254
  <2>0. SUFFICES ASSUME NEW h \in KvhHeaders, Len(m) = h.size /\ SubSeq(m, 1, 4) = h.bytes
                PROVE  Len(m) >= 11 /\ m[1] = 254
    BY DEF KvhFrame
  <2>1. h.size \in 11 .. 40 /\ h.bytes[1] = 254
    BY HeaderFacts
  <2>2. Len(m) >= 11 /\ Len(m) >= 4
    <3>. DEFINE n == Len(m)
    <3>1. n \in 11 .. 40
      BY <2>0, <2>1
    <3>. HIDE DEF n
    <3>2. n >= 11 /\ n >= 4
      BY <3>1
    <3>. QED  BY <3>2 DEF n
  <2>3. m[1] = h.bytes[1]
    BY <1>1, <2>0, <2>2, FrontMeans
  <2>. QED  BY <2>1, <2>2, <2>3
<1>8. KvhLine(m) => m[1] # 254
  <2>. SUFFICES ASSUME KvhLine(m)
                PROVE  m[1] # 254
    OBVIOUS
  <2>1. Len(m) > 2 /\ \A i \in 1 .. Len(m) - 2 : m[i] \in 1 .. 127
    BY DEF KvhLine, IsLine
  <2>2. 1 \in 1 .. Len(m) - 2
    BY <1>2, <2>1
  <2>3. m[1] \in 1 .. 127
    BY <2>1, <2>2
  <2>. QED  BY <2>3
<1>9. Sync1 # AsciiStart
  BY DEF Sync1, AsciiStart
<1>10. CASE Serial
  <2>1. BinaryFrame(stream.sensor, m) \/ (IsLine(m) /\ m[1] = AsciiStart)
    BY <1>3, <1>10 DEF Framed, Serial, TextFrame
  <2>. QED  BY <1>3, <1>5, <1>6, <1>9, <1>10, <2>1 DEF m
<1>11. CASE ~Serial
  <2>1. KvhFrame(m) \/ KvhLine(m)
    BY <1>3, <1>11 DEF Framed, Serial
  <2>2. Len(m) >= 2
    BY <1>2, <1>6, <1>7, <2>1 DEF KvhLine
  <2>. QED  BY <1>3, <1>7, <1>8, <1>11, <2>1, <2>2 DEF m
<1>. QED  BY <1>10, <1>11

Data(k) == ~Serial /\ Message(k)[1] = 254

(* What the finder f is after n bytes of message k.                            *)
On(k, n, f) ==
  IF Data(k)
    THEN IF n < 4 THEN Len(f.tag) = n
                  ELSE f.building = "binary" /\ Len(f.buffer) = n /\ Len(f.tag) <= n - 4
    ELSE /\ Len(f.buffer) = n /\ f.tag = <<>>
         /\ f.building = "ascii" \/ (Serial /\ f.building = "binary")

Returns(k) == found' = Append(found, Packet) /\ Is(Packet, k)

LEMMA PlainOn ==
  ASSUME Typed, Placed, pos < Len(stream.bytes), Outcome, NEW k \in Messages, ~Data(k),
         stream.chunks[k].first <= pos, pos < stream.chunks[k].last,
         On(k, pos + 1 - stream.chunks[k].first, finder)
  PROVE  IF pos + 1 < stream.chunks[k].last
           THEN On(k, pos + 2 - stream.chunks[k].first, finder')
           ELSE Completes /\ Returns(k)
<1>. DEFINE m == Message(k)  n == Len(m)  a == stream.chunks[k].first  b == stream.chunks[k].last
<1>1. a \in Nat /\ b \in Nat /\ 1 <= a /\ a <= pos /\ pos < b /\ pos \in Nat
  BY ChunkFacts, StreamFacts DEF Messages
<1>2. m \in Seq(Bytes) /\ n = b - a + 1
  BY MessageFacts
<1>3. /\ n >= 2 /\ n <= Capacity[stream.sensor]
      /\ Valid(stream.sensor, m)
      /\ Serial => m[1] \in {Sync1, AsciiStart}
      /\ Serial /\ m[1] = Sync1 => BinaryFrame(stream.sensor, m)
      /\ Serial /\ m[1] = AsciiStart => IsLine(m)
      /\ ~Serial /\ m[1] # 254 => KvhLine(m)
  BY FrameFacts
<1>4. /\ Len(finder.buffer) = pos + 1 - a /\ finder.tag = <<>>
      /\ finder.building = "ascii" \/ (Serial /\ finder.building = "binary")
  BY DEF On
<1>5. Now = finder
  <2>1. Capacity[stream.sensor] \in Nat
    BY StreamFacts
  <2>2. pos + 1 - a < n
    BY <1>1, <1>2
  <2>. HIDE DEF n, a
  <2>3. pos + 1 - a # Capacity[stream.sensor]
    BY <1>1, <1>2, <1>3, <2>1, <2>2
  <2>. QED  BY <1>4, <2>3 DEF Now
<1>6. /\ Follows(m)
      /\ pos + 1 = b <=> Had + 1 = n
      /\ Had + 1 = n => Grown = m /\ Is(Packet, k)
  BY <1>4, <1>5, FollowsMessage
<1>7. /\ Had \in Nat /\ Had >= 1 /\ Had < n /\ n \in Nat
      /\ Len(Grown) = Had + 1 /\ m[Had + 1] = Byte
      /\ \A j \in 1 .. Had + 1 : Grown[j] = m[j]
  BY <1>6 DEF Follows
<1>8. ~HeaderFound
  <2>1. Len(Now.tag) # 3
    <3>1. Len(<<>>) = 0
      OBVIOUS
    <3>2. Now.tag = <<>>
      BY <1>4, <1>5
    <3>. QED  BY <3>1, <3>2
  <2>. QED  BY <2>1, TagFacts
<1>9. ~Serial => KvhLine(m)
  BY <1>3 DEF Data
<1>10. Grown[1] = m[1]
  BY <1>7
<1>11. IF Had + 1 < n THEN Grows ELSE Completes
  <2>1. CASE Serial /\ Now.building = "binary"
    <3>1. Now.buffer[1] = Sync1 /\ Grown[1] = Now.buffer[1]
      BY <1>7, <2>1, BinaryFacts
    <3>. QED  BY <1>3, <1>6, <1>10, <2>1, <3>1, DataStep
  <2>2. CASE Serial /\ Now.building = "ascii"
    <3>1. Grown[1] = AsciiStart
      BY <2>2, LineFacts
    <3>. QED  BY <1>3, <1>6, <1>8, <1>10, <2>2, <3>1, LineStep
  <2>3. CASE ~Serial
    <3>1. IsLine(m) /\ Len(m) <= MaxAscii
      BY <1>9, <2>3 DEF KvhLine
    <3>. QED  BY <1>4, <1>5, <1>6, <1>8, <2>3, <3>1, LineStep
  <2>. QED  BY <1>4, <1>5, <2>1, <2>2, <2>3
<1>12. pos + 1 < b <=> Had + 1 < n
  BY <1>1, <1>6, <1>7
<1>13. CASE Had + 1 < n
  <2>1. finder'.building = finder.building /\ finder'.buffer = Grown
    BY <1>5, <1>11, <1>13, OutcomeFacts
  <2>2. finder'.tag = <<>>
    <3>1. CASE ~Serial
      <4>1. Byte \in 1 .. 127
        <5>1. /\ n > 2 /\ m[n - 1] = CR /\ m[n] = LF
              /\ \A j \in 1 .. n - 2 : m[j] \in 1 .. 127
          BY <1>9, <3>1 DEF KvhLine, IsLine
        <5>. HIDE DEF n, m
        <5>2. Had + 1 \in 1 .. n - 2 \/ Had + 1 = n - 1 \/ Had + 1 = n
          BY <1>7
        <5>3. CR \in 1 .. 127 /\ LF \in 1 .. 127
          BY DEF CR, LF
        <5>. QED  BY <1>7, <5>1, <5>2, <5>3
      <4>. QED  BY <3>1, <4>1, TextTag, OutcomeFacts
    <3>. QED  BY <3>1, OutcomeFacts
  <2>3. Len(finder'.buffer) = pos + 2 - a
    <3>1. Had = pos + 1 - a
      BY <1>4, <1>5 DEF Had
    <3>. HIDE DEF a
    <3>. QED  BY <1>1, <1>7, <2>1, <3>1
  <2>. QED  BY <1>4, <1>12, <1>13, <2>1, <2>2, <2>3 DEF On
<1>14. CASE ~(Had + 1 < n)
  <2>1. Had + 1 = n
    BY <1>7, <1>14
  <2>2. Completes /\ Grown = m /\ Is(Packet, k)
    BY <1>6, <1>11, <1>14, <2>1
  <2>3. found' = Append(found, Packet)
    BY <1>3, <2>2 DEF Completes
  <2>. QED  BY <1>12, <1>14, <2>2, <2>3 DEF Returns
<1>. QED  BY <1>13, <1>14

LEMMA DataOn ==
  ASSUME Typed, Placed, pos < Len(stream.bytes), Outcome, NEW k \in Messages, Data(k),
         stream.chunks[k].first <= pos, pos < stream.chunks[k].last,
         On(k, pos + 1 - stream.chunks[k].first, finder)
  PROVE  IF pos + 1 < stream.chunks[k].last
           THEN On(k, pos + 2 - stream.chunks[k].first, finder')
           ELSE Returns(k)
<1>. DEFINE m == Message(k)  n == Len(m)  a == stream.chunks[k].first  b == stream.chunks[k].last
            i == pos + 1 - a
<1>1. a \in Nat /\ b \in Nat /\ 1 <= a /\ a <= pos /\ pos < b /\ pos \in Nat
  BY ChunkFacts, StreamFacts DEF Messages
<1>2. m \in Seq(Bytes) /\ n = b - a + 1 /\ \A j \in 1 .. n : m[j] = stream.bytes[a + j - 1]
  BY MessageFacts
<1>3. /\ n <= Capacity[stream.sensor] /\ n >= 11
      /\ Type(stream.sensor, m) # "unknown" /\ Valid(stream.sensor, m)
      /\ KvhFrame(m)
      /\ \A j \in 2 .. n - 3, h \in KvhHeaders : SubSeq(m, j, j + 3) # h.bytes
  BY FrameFacts DEF Data
<1>4. /\ i < 4 => Len(finder.tag) = i
      /\ i >= 4 => finder.building = "binary" /\ Len(finder.buffer) = i /\ Len(finder.tag) <= i - 4
  <2>1. i \in Nat
    BY <1>1
  <2>2. i < 4 <=> ~(i >= 4)
    BY <2>1
  <2>. QED  BY <2>2 DEF On
<1>5. i \in Nat /\ i >= 1 /\ i < n /\ n \in Nat /\ pos + 2 - a = i + 1 /\ (pos + 1 < b <=> i + 1 < n)
  <2>1. n = b - a + 1
    BY <1>2
  <2>. HIDE DEF n, a, b
  <2>. QED  BY <1>1, <2>1
<1>6. Byte = m[i + 1]
  <2>1. i + 1 \in 1 .. n /\ a + (i + 1) - 1 = pos + 1
    <3>. HIDE DEF n, a, b
    <3>. QED  BY <1>1, <1>5
  <2>. QED  BY <1>2, <2>1 DEF Byte
<1>7. Now.tag = finder.tag /\ Len(Now.tag) \in Nat
  BY NowFacts, TagFacts
<1>8. \A j \in 1 .. Len(Now.tag) : Len(Now.tag) <= i => Now.tag[j] = m[i - Len(Now.tag) + j]
  <2>. DEFINE l == Len(Now.tag)
  <2>1. \A j \in 1 .. l : pos - l + j >= 1 => Now.tag[j] = stream.bytes[pos - l + j]
    BY HeldFacts DEF EndsAt
  <2>2. l \in Nat
    BY <1>7
  <2>. HIDE DEF l, n, m
  <2>3. ASSUME l <= i, NEW j \in 1 .. l
        PROVE  pos - l + j >= 1 /\ i - l + j \in 1 .. n /\ a + (i - l + j) - 1 = pos - l + j
    <3>. HIDE DEF a, b
    <3>1. i = pos + 1 - a
      OBVIOUS
    <3>2. /\ a \in Nat /\ pos \in Nat /\ 1 <= a /\ a <= pos
          /\ i \in Nat /\ n \in Nat /\ i < n
      BY <1>1, <1>5
    <3>. HIDE DEF i
    <3>3. j \in Nat /\ 1 <= j /\ j <= l
      BY <2>2
    <3>4. pos - l + j >= 1 /\ a + (i - l + j) - 1 = pos - l + j
      BY <2>2, <2>3, <3>1, <3>2, <3>3
    <3>5. i - l + j \in 1 .. n
      BY <2>2, <2>3, <3>2, <3>3
    <3>. QED  BY <3>4, <3>5
  <2>4. ASSUME l <= i, NEW j \in 1 .. l
        PROVE  Now.tag[j] = m[i - l + j]
    BY <1>2, <2>1, <2>3, <2>4
  <2>. QED  BY <2>4 DEF l
<1>. HIDE DEF n, m, a, b, i
<1>9. CASE i < 4
  <2>1. PICK h \in KvhHeaders : n = h.size /\ SubSeq(m, 1, 4) = h.bytes
    BY <1>3 DEF KvhFrame, n
  <2>2. \A j \in 1 .. 4 : m[j] = h.bytes[j]
    <3>1. n >= 4
      BY <1>3, <1>5
    <3>. QED  BY <1>2, <2>1, <3>1, FrontMeans DEF n
  <2>3. Len(Now.tag) = i
    BY <1>4, <1>7, <1>9
  <2>4. \A j \in 1 .. i : Now.tag[j] = m[j]
    <3>1. \A j \in 1 .. i : i - i + j = j /\ i <= i
      BY <1>5
    <3>. QED  BY <1>8, <2>3, <3>1
  <2>5. /\ \A j \in 1 .. Len(Now.tag) : Now.tag[j] = h.bytes[j]
        /\ Byte = h.bytes[Len(Now.tag) + 1]
    <3>1. (\A j \in 1 .. i : j \in 1 .. 4) /\ i + 1 \in 1 .. 4
      BY <1>5, <1>9
    <3>. QED  BY <1>6, <2>2, <2>3, <2>4, <3>1
  <2>6. /\ Len(Now.tag) < 3 => Len(Tag) = Len(Now.tag) + 1
        /\ Len(Now.tag) = 3 /\ ~Serial => HeaderFound
    BY <2>5, TagGrows
  <2>7. finder'.tag = Tag /\ ~Serial
    BY OutcomeFacts DEF Data
  <2>8. CASE i < 3
    <3>1. i + 1 < 4 /\ i + 1 < n /\ Len(finder'.tag) = i + 1
      BY <1>3, <1>5, <2>3, <2>6, <2>7, <2>8
    <3>2. On(k, i + 1, finder')
      BY <3>1 DEF On
    <3>. QED  BY <1>5, <3>1, <3>2 DEF a, b
  <2>9. CASE i = 3
    <3>1. HeaderFound
      BY <2>3, <2>6, <2>7, <2>9
    <3>2. Heads
      BY <3>1 DEF Outcome, Drops, Begins, Grows, Completes
    <3>3. finder'.building = "binary" /\ finder'.buffer = Append(Now.tag, Byte) /\ finder'.tag = <<>>
      BY <2>7, <3>1, <3>2, OutcomeFacts, TagFacts
    <3>4. Len(finder'.buffer) = 4
      <4>1. Now.tag \in Seq(Bytes) /\ Byte \in Bytes
        BY NowFacts, StreamFacts DEF Shaped, FinderType
      <4>2. Len(Append(Now.tag, Byte)) = Len(Now.tag) + 1
        BY <4>1, AppendProperties
      <4>. QED  BY <2>3, <2>9, <3>3, <4>2
    <3>5. Len(finder'.tag) <= 4 - 4 /\ ~(4 < 4)
      BY <3>3
    <3>6. On(k, 4, finder')
      BY <3>3, <3>4, <3>5 DEF On
    <3>7. i + 1 = 4 /\ i + 1 < n
      BY <1>3, <1>5, <2>9
    <3>. QED  BY <1>5, <3>6, <3>7 DEF a, b
  <2>. QED  BY <1>5, <1>9, <2>8, <2>9
<1>10. CASE i >= 4
  <2>1. finder.building = "binary" /\ Len(finder.buffer) = i /\ Len(finder.tag) <= i - 4
    BY <1>4, <1>10
  <2>2. Now = finder
    <3>1. Capacity[stream.sensor] \in Nat
      BY StreamFacts
    <3>2. i # Capacity[stream.sensor]
      BY <1>3, <1>5, <3>1
    <3>. QED  BY <2>1, <3>2 DEF Now
  <2>3. /\ Follows(m)
        /\ Had + 1 = n => Grown = m /\ Is(Packet, k)
    BY <2>1, <2>2, FollowsMessage DEF m, n, i, a
  <2>4. Had = i
    BY <2>1, <2>2 DEF Had
  <2>5. /\ Len(Now.tag) <= Had - 4
        /\ \A j \in 1 .. Len(Now.tag) : Now.tag[j] = m[Had - Len(Now.tag) + j]
    <3>1. Len(Now.tag) <= i - 4 /\ Len(Now.tag) <= i
      BY <1>5, <1>7, <2>1
    <3>. QED  BY <1>8, <2>4, <3>1
  <2>6. ~HeaderFound /\ IF Had + 1 < n THEN Grows ELSE Completes
    BY <1>3, <1>10, <2>1, <2>2, <2>3, <2>4, <2>5, KvhStep DEF Data, n
  <2>7. CASE i + 1 < n
    <3>1. finder'.building = "binary" /\ finder'.buffer = Grown /\ Len(Grown) = i + 1
      BY <2>1, <2>2, <2>3, <2>4, <2>6, <2>7, OutcomeFacts DEF Follows
    <3>2. Len(finder'.tag) <= (i + 1) - 4
      <4>1. finder'.tag = Tag
        BY OutcomeFacts DEF Data
      <4>2. Tag = <<>> \/ Len(Tag) = Len(Now.tag) + 1
        BY TagFacts
      <4>3. Len(<<>>) = 0 /\ Len(Now.tag) \in Nat /\ Len(Now.tag) <= i - 4
        BY <1>7, <2>1
      <4>. QED  BY <1>5, <1>10, <4>1, <4>2, <4>3
    <3>3. ~(i + 1 < 4)
      BY <1>5, <1>10
    <3>4. On(k, i + 1, finder')
      <4>. DEFINE q == i + 1
      <4>1. finder'.building = "binary" /\ Len(finder'.buffer) = q
        BY <3>1
      <4>2. Len(finder'.tag) <= q - 4
        BY <3>2
      <4>3. ~(q < 4)
        BY <3>3
      <4>. HIDE DEF q
      <4>4. On(k, q, finder')
        BY <4>1, <4>2, <4>3 DEF On
      <4>. QED  BY <4>4 DEF q
    <3>. QED  BY <1>5, <2>7, <3>4 DEF a, b
  <2>8. CASE ~(i + 1 < n)
    <3>1. i + 1 = n
      BY <1>5, <2>8
    <3>2. Completes /\ Grown = m /\ Is(Packet, k)
      BY <2>3, <2>4, <2>6, <2>8, <3>1
    <3>3. found' = Append(found, Packet)
      BY <1>3, <3>2 DEF Completes
    <3>. QED  BY <1>5, <2>8, <3>2, <3>3 DEF Returns, a, b
  <2>. QED  BY <2>7, <2>8
<1>. QED  BY <1>5, <1>9, <1>10

LEMMA BeginOn ==
  ASSUME Typed, pos < Len(stream.bytes), Outcome, NEW k \in Messages,
         stream.chunks[k].first = pos + 1, Listens
  PROVE  On(k, 1, finder')
<1>. DEFINE m == Message(k)
<1>1. /\ m \in Seq(Bytes) /\ Len(m) \in Nat
      /\ \A j \in 1 .. Len(m) : m[j] = stream.bytes[(pos + 1) + j - 1]
  BY MessageFacts, LenProperties
<1>2. /\ Len(m) >= 2
      /\ Serial => m[1] \in {Sync1, AsciiStart}
      /\ ~Serial /\ m[1] # 254 => KvhLine(m)
  BY FrameFacts
<1>3. Byte = m[1]
  <2>1. 1 \in 1 .. Len(m) /\ (pos + 1) + 1 - 1 = pos + 1
    BY <1>1, <1>2, StreamFacts
  <2>. QED  BY <1>1, <2>1 DEF Byte
<1>4. Len(<<Byte>>) = 1 /\ Len(<<>>) = 0
  OBVIOUS
<1>5. ~Data(k) => Now.building = "none" /\ ~HeaderFound
  BY <1>3 DEF Listens, Data, Serial
<1>6. CASE Data(k)
  <2>1. Now.tag = <<>> /\ Byte = 254 /\ ~Serial
    BY <1>3, <1>6 DEF Listens, Data, Serial
  <2>2. \E h \in KvhHeaders : TRUE
    BY DEF KvhHeaders
  <2>3. PICK h \in KvhHeaders : TRUE
    BY <2>2
  <2>4. h.bytes[1] = 254
    BY HeaderFacts
  <2>5. Len(Now.tag) = 0 /\ 0 + 1 = 1
    BY <1>4, <2>1
  <2>6. Len(Tag) = 1
    <3>1. /\ \A j \in 1 .. Len(Now.tag) : Now.tag[j] = h.bytes[j]
          /\ Byte = h.bytes[Len(Now.tag) + 1]
      BY <2>1, <2>4, <2>5
    <3>2. Len(Now.tag) < 3 => Len(Tag) = Len(Now.tag) + 1
      BY <3>1, TagGrows
    <3>. QED  BY <2>5, <3>2
  <2>7. Len(finder'.tag) = 1
    BY <2>1, <2>6, OutcomeFacts
  <2>8. 1 < 4
    OBVIOUS
  <2>. QED  BY <1>6, <2>7, <2>8 DEF On
<1>7. CASE ~Data(k)
  <2>1. Serial => Byte \in Starts
    BY <1>2, <1>3 DEF Starts, Serial
  <2>2. Begins
    BY <1>5, <1>7, <2>1 DEF Outcome, Drops, Grows, Heads, Completes
  <2>3. /\ finder'.building # "none" /\ Len(finder'.buffer) = 1
        /\ ~Serial => finder'.building = "ascii"
    BY <1>4, <2>2, OutcomeFacts
  <2>4. finder'.building \in {"ascii", "binary"}
    <3>1. finder' \in FinderType
      BY OutcomeFacts DEF Shaped
    <3>. QED  BY <2>3, <3>1 DEF FinderType
  <2>5. finder'.tag = <<>>
    <3>1. CASE ~Serial
      <4>1. Len(m) > 2 /\ \A j \in 1 .. Len(m) - 2 : m[j] \in 1 .. 127
        BY <1>2, <1>7, <3>1 DEF KvhLine, IsLine, Data
      <4>2. 1 \in 1 .. Len(m) - 2
        BY <1>1, <4>1
      <4>3. Byte \in 1 .. 127
        BY <1>3, <4>1, <4>2
      <4>. QED  BY <3>1, <4>3, TextTag, OutcomeFacts
    <3>. QED  BY <3>1, OutcomeFacts
  <2>. QED  BY <1>7, <2>3, <2>4, <2>5 DEF On
<1>. QED  BY <1>6, <1>7

Tracks(k) ==
  /\ pos >= stream.chunks[k].first
  /\ IF pos < stream.chunks[k].last THEN On(k, pos + 1 - stream.chunks[k].first, finder)
                                    ELSE Found(k)

Tracking == \A k \in ready : Tracks(k)

(* What was returned stays returned, until the file is read again.             *)
LEMMA FoundStays ==
  ASSUME Placed, stream' = stream, NEW k, found' = found \/ found' = Append(found, Packet),
         Packet \in PacketType, Found(k) \/ Returns(k)
  PROVE  Found(k)'
<1>1. found \in Seq(PacketType)
  BY DEF Placed
<1>2. CASE Returns(k)
  <2>1. /\ Append(found, Packet) \in Seq(PacketType)
        /\ Len(found) + 1 \in 1 .. Len(Append(found, Packet))
        /\ Append(found, Packet)[Len(found) + 1] = Packet
    BY <1>1, AppendProperties, LenProperties
  <2>2. Len(found) + 1 \in DOMAIN found' /\ found'[Len(found) + 1] = Packet
    BY <1>2, <2>1, LenProperties DEF Returns
  <2>4. Packet.first = stream'.chunks[k].first /\ Packet.last = stream'.chunks[k].last
    BY <1>2 DEF Returns, Is
  <2>. QED  BY <2>2, <2>4 DEF Found, Is
<1>3. CASE found' = found /\ Found(k)
  BY <1>3 DEF Found, Is
<1>4. CASE found' = Append(found, Packet) /\ Found(k)
  <2>1. PICK i \in DOMAIN found : Is(found[i], k)
    BY <1>4 DEF Found
  <2>2. i \in DOMAIN found' /\ found'[i] = found[i]
    BY <1>1, <1>4, AppendProperties, LenProperties
  <2>. QED  BY <2>1, <2>2 DEF Found, Is
<1>. QED  BY <1>2, <1>3, <1>4

LEMMA FindTracks ==
  ASSUME Typed, Placed, pos < Len(stream.bytes), Outcome, stream' = stream, pos' = pos + 1,
         NEW k \in Messages, Tracks(k) \/ (stream.chunks[k].first = pos + 1 /\ Listens)
  PROVE  Tracks(k)'
<1>. DEFINE a == stream.chunks[k].first  b == stream.chunks[k].last
<1>1. a \in Nat /\ b \in Nat /\ 1 <= a /\ a <= b /\ pos \in Nat
  BY ChunkFacts, StreamFacts DEF Messages
<1>3. /\ found' = found \/ found' = Append(found, Packet)
      /\ Packet \in PacketType
  BY FoundFacts
<1>5. (pos' < b <=> pos + 1 < b) /\ pos' = pos + 1
  OBVIOUS
<1>6. Tracks(k)' <=> /\ pos + 1 >= a
                     /\ IF pos + 1 < b THEN On(k, pos + 2 - a, finder') ELSE Found(k)'
  <2>1. Tracks(k)' <=> /\ pos' >= stream'.chunks[k].first
                       /\ IF pos' < stream'.chunks[k].last
                            THEN On(k, pos + 1 - stream.chunks[k].first, finder)' ELSE Found(k)'
    BY DEF Tracks
  <2>2. pos' + 1 - stream'.chunks[k].first = pos + 2 - stream.chunks[k].first
    <3>1. stream.chunks[k].first = a
      OBVIOUS
    <3>. HIDE DEF a
    <3>. QED  BY <1>1, <3>1
  <2>3. On(k, pos + 1 - stream.chunks[k].first, finder)'
          <=> On(k, pos' + 1 - stream'.chunks[k].first, finder')
    BY DEF On, Data, Serial, Message
  <2>. QED  BY <2>1, <2>2, <2>3
<1>7. CASE Tracks(k) /\ pos < b
  <2>1. a <= pos /\ On(k, pos + 1 - a, finder)
    BY <1>1, <1>7 DEF Tracks
  <2>2. IF pos + 1 < b THEN On(k, pos + 2 - a, finder') ELSE Returns(k)
    <3>1. CASE Data(k)
      BY <1>7, <2>1, <3>1, DataOn
    <3>2. CASE ~Data(k)
      BY <1>7, <2>1, <3>2, PlainOn
    <3>. QED  BY <3>1, <3>2
  <2>3. ~(pos + 1 < b) => Found(k)'
    BY <1>3, <2>2, FoundStays
  <2>4. pos + 1 >= a
    BY <1>1, <2>1
  <2>. QED  BY <1>6, <2>2, <2>3, <2>4
<1>8. CASE Tracks(k) /\ ~(pos < b)
  <2>1. Found(k) /\ pos >= a
    BY <1>8 DEF Tracks
  <2>2. Found(k)'
    BY <1>3, <2>1, FoundStays
  <2>3. ~(pos + 1 < b) /\ pos + 1 >= a
    BY <1>1, <1>8, <2>1
  <2>. QED  BY <1>6, <2>2, <2>3
<1>9. CASE a = pos + 1 /\ Listens
  <2>1. On(k, 1, finder')
    BY <1>9, BeginOn
  <2>2. pos + 1 < b
    <3>1. Len(Message(k)) >= 2
      BY FrameFacts
    <3>2. Len(Message(k)) = b - a + 1
      BY MessageFacts
    <3>. HIDE DEF a, b
    <3>. QED  BY <1>1, <1>9, <3>1, <3>2
  <2>3. pos + 2 - a = 1 /\ pos + 1 >= a
    BY <1>1, <1>9
  <2>. QED  BY <1>6, <2>1, <2>2, <2>3
<1>. QED  BY <1>7, <1>8, <1>9

LEMMA NextTracking ==
  ASSUME Typed, Placed, Tracking, [Next]_vars
  PROVE  Tracking'
<1>1. CASE Find
  <2>1. /\ pos < Len(stream.bytes) /\ Outcome /\ stream' = stream /\ pos' = pos + 1
        /\ ready' = ready \cup {k \in Messages : stream.chunks[k].first = pos + 1 /\ Listens}
    BY <1>1, FindOutcome
  <2>2. ASSUME NEW k \in ready'
        PROVE  Tracks(k)'
    <3>1. k \in Messages /\ (Tracks(k) \/ (stream.chunks[k].first = pos + 1 /\ Listens))
      BY <2>1, <2>2 DEF Tracking, Typed
    <3>. QED  BY <2>1, <3>1, FindTracks
  <2>. QED  BY <2>2 DEF Tracking
<1>2. CASE Rewind
  BY <1>2 DEF Rewind, Tracking
<1>3. CASE UNCHANGED vars
  BY <1>3 DEF vars, Tracking, Tracks, Found, Is, On, Data, Serial, Message
<1>. QED  BY <1>1, <1>2, <1>3 DEF Next

LEMMA AlwaysTracking == Spec => []Tracking
<1>1. Init => Tracking
  BY DEF Init, Tracking
<1>2. Typed /\ Placed /\ Tracking /\ [Next]_vars => Tracking'
  BY NextTracking
<1>. QED  BY <1>1, <1>2, AlwaysTyped, AlwaysPlaced, PTL DEF Spec

(* A message that begins while nothing else is being built is returned when its *)
(* last byte has been read, whatever its payload looks like: findPacket of all  *)
(* three sensors.                                                               *)
THEOREM HeardFound == Spec => []HeardIsFound
<1>1. Typed /\ Tracking => HeardIsFound
  <2>. SUFFICES ASSUME Typed, Tracking, NEW k \in ready, Passed(k)
                PROVE  Found(k)
    BY DEF HeardIsFound
  <2>1. stream.chunks[k].last \in Nat /\ pos \in Nat
    BY ChunkFacts, StreamFacts DEF Typed, Messages
  <2>2. ~(pos < stream.chunks[k].last)
    BY <2>1 DEF Passed
  <2>. QED  BY <2>2 DEF Tracking, Tracks
<1>. QED  BY <1>1, AlwaysTyped, AlwaysTracking, PTL

-------------------------------------------------------------------------------
(* After damaged or foreign bytes.                                             *)

(* What a serial sensor's finder is building began in a chunk that disturbs, or *)
(* is the message it was ready for.                                             *)
Known ==
  Serial /\ finder.building # "none" /\ Len(finder.buffer) <= pos =>
    \E j \in DOMAIN stream.chunks :
      /\ pos + 1 - Len(finder.buffer) \in stream.chunks[j].first .. stream.chunks[j].last
      /\ \/ Disturbs(j)
         \/ /\ j \in ready /\ pos < stream.chunks[j].last
            /\ stream.chunks[j].first = pos + 1 - Len(finder.buffer)

(* A message that begins further behind what disturbs than its reach.           *)
Far(k) ==
  LET first == stream.chunks[k].first
  IN  /\ stream.bytes[first] \in Starts
      /\ \A j \in 1 .. k - 1 : Disturbs(j) => first - stream.chunks[j].last >= Reach
      /\ rewinds > 0 => first >= Reach

Heard == \A k \in Messages : pos >= stream.chunks[k].first /\ Far(k) => k \in ready

(* Whoever has a byte before the first one of chunk k comes before it.          *)
LEMMA ChunkOrder ==
  ASSUME Typed, NEW j \in DOMAIN stream.chunks, NEW k \in DOMAIN stream.chunks, NEW i \in Int,
         i \in stream.chunks[j].first .. stream.chunks[j].last, i < stream.chunks[k].first
  PROVE  j \in 1 .. k - 1 /\ stream.chunks[j].last < stream.chunks[k].first
<1>1. \A x, y \in DOMAIN stream.chunks : x < y => stream.chunks[x].last < stream.chunks[y].first
  BY StreamsAssumption DEF Typed
<1>2. DOMAIN stream.chunks = 1 .. Len(stream.chunks) /\ Len(stream.chunks) \in Nat
  <2>1. stream.chunks \in Seq([kind : {"message", "damaged", "foreign"}, first : Nat, last : Nat])
    BY StreamsAssumption DEF Typed
  <2>. QED  BY <2>1, LenProperties
<1>3. /\ stream.chunks[j].first \in Nat /\ stream.chunks[j].last \in Nat
      /\ stream.chunks[k].first \in Nat /\ stream.chunks[k].last \in Nat
      /\ stream.chunks[k].first <= stream.chunks[k].last
  BY ChunkFacts
<1>4. j \in Nat /\ k \in Nat /\ 1 <= j
  BY <1>2
<1>5. ~(k < j)
  <2>1. k < j => stream.chunks[k].last < stream.chunks[j].first
    BY <1>1
  <2>. QED  BY <1>3, <2>1
<1>6. j # k
  BY <1>3
<1>7. j < k
  BY <1>4, <1>5, <1>6
<1>. QED  BY <1>1, <1>4, <1>7

LEMMA ChunkOf ==
  ASSUME Typed, NEW i \in 1 .. Len(stream.bytes)
  PROVE  \E j \in DOMAIN stream.chunks : i \in stream.chunks[j].first .. stream.chunks[j].last
<1>1. DOMAIN stream.bytes = 1 .. Len(stream.bytes)
  BY StreamFacts, LenProperties
<1>. QED  BY <1>1, StreamsAssumption DEF Typed

(* Nothing is being built when a message begins that is far enough.             *)
LEMMA ListensFar ==
  ASSUME Typed, Placed, Known, pos < Len(stream.bytes), NEW k \in Messages,
         stream.chunks[k].first = pos + 1, Far(k)
  PROVE  Listens
<1>1. /\ Byte \in Starts
      /\ \A j \in 1 .. k - 1 : Disturbs(j) => (pos + 1) - stream.chunks[j].last >= Reach
      /\ rewinds > 0 => pos + 1 >= Reach
  <2>. DEFINE a == stream.chunks[k].first
  <2>1. /\ stream.bytes[a] \in Starts
        /\ \A j \in 1 .. k - 1 : Disturbs(j) => a - stream.chunks[j].last >= Reach
        /\ rewinds > 0 => a >= Reach
    BY DEF Far
  <2>2. a = pos + 1
    OBVIOUS
  <2>. HIDE DEF a
  <2>. QED  BY <2>1, <2>2 DEF Byte
<1>2. pos \in Nat /\ k \in DOMAIN stream.chunks /\ rewinds \in Nat
  BY StreamFacts, PacketFinderAssumption DEF Messages, Typed
<1>3. CASE Serial
  <2>. SUFFICES ASSUME Now.building # "none"
                PROVE  FALSE
    BY <1>3 DEF Listens, HeaderFound, Serial
  <2>. DEFINE l == Len(Now.buffer)
  <2>1. l \in Nat /\ l < Reach /\ Now = finder /\ Reach \in Nat
    BY <1>3, NowFacts, StreamFacts DEF Reach, Serial
  <2>2. l >= 1
    <3>1. Shaped(Now) /\ Now.building \in {"ascii", "binary"}
      BY NowFacts DEF Shaped, FinderType
    <3>. QED  BY <1>3, <3>1 DEF Shaped, BinaryPart, TextPart
  <2>3. Len(finder.buffer) = l /\ finder.building # "none"
    BY <2>1
  <2>. HIDE DEF l
  <2>4. CASE l <= pos
    <3>1. PICK j \in DOMAIN stream.chunks :
            /\ pos + 1 - l \in stream.chunks[j].first .. stream.chunks[j].last
            /\ Disturbs(j) \/ (j \in ready /\ pos < stream.chunks[j].last)
      BY <1>3, <2>3, <2>4 DEF Known
    <3>2. pos + 1 - l \in Int /\ pos + 1 - l < pos + 1
      BY <1>2, <2>1, <2>2
    <3>3. j \in 1 .. k - 1 /\ stream.chunks[j].last < pos + 1
      BY <1>2, <3>1, <3>2, ChunkOrder
    <3>4. stream.chunks[j].last \in Nat /\ stream.chunks[j].first \in Nat
      BY ChunkFacts
    <3>5. Disturbs(j)
      BY <1>2, <3>1, <3>3, <3>4
    <3>6. (pos + 1) - stream.chunks[j].last >= Reach
      BY <1>1, <3>3, <3>5
    <3>7. pos + 1 - l <= stream.chunks[j].last
      BY <3>1, <3>2, <3>4
    <3>. QED  BY <1>2, <2>1, <3>4, <3>6, <3>7
  <2>5. CASE ~(l <= pos)
    <3>1. rewinds # 0
      BY <2>3, <2>5 DEF Placed
    <3>2. pos + 1 >= Reach
      BY <1>1, <1>2, <3>1
    <3>. QED  BY <1>2, <2>1, <2>5, <3>2
  <2>. QED  BY <2>4, <2>5
<1>4. CASE ~Serial
  <2>1. Starts = {254} /\ Reach = 4
    BY <1>4 DEF Starts, Reach, Serial
  <2>. SUFFICES ASSUME Now.tag # <<>>
                PROVE  FALSE
    BY <1>1, <1>4, <2>1 DEF Listens, Serial
  <2>. DEFINE l == Len(Now.tag)
  <2>2. l \in Nat /\ l < 4 /\ Now.tag \in Seq(Bytes) /\ HeaderStart(Now.tag) /\ Now.tag = finder.tag
    BY NowFacts, TagFacts DEF Shaped, FinderType
  <2>3. l # 0
    BY <2>2, EmptySeq
  <2>4. /\ \A i \in 1 .. l : pos - l + i >= 1 => Now.tag[i] = stream.bytes[pos - l + i]
        /\ rewinds = 0 => l <= pos
    BY HeldFacts DEF EndsAt
  <2>. HIDE DEF l
  <2>5. Now.tag[1] = 254
    <3>1. PICK h \in KvhHeaders : \A i \in 1 .. l : Now.tag[i] = h.bytes[i]
      BY <2>2 DEF HeaderStart, l
    <3>2. 1 \in 1 .. l
      BY <2>2, <2>3
    <3>. QED  BY <3>1, <3>2, HeaderFacts
  <2>6. l <= pos
    <3>. SUFFICES ASSUME rewinds # 0
                  PROVE  l <= pos
      BY <2>4
    <3>1. pos + 1 >= 4
      BY <1>1, <1>2, <2>1
    <3>. QED  BY <1>2, <2>2, <3>1
  <2>. DEFINE i == pos - l + 1
  <2>7. i \in 1 .. Len(stream.bytes) /\ i < pos + 1 /\ i \in Int /\ i >= 1
    BY <1>2, <2>2, <2>3, <2>6, StreamFacts
  <2>8. stream.bytes[i] = 254
    <3>1. 1 \in 1 .. l
      BY <2>2, <2>3
    <3>. QED  BY <2>4, <2>5, <2>7, <3>1
  <2>9. i = pos - l + 1
    OBVIOUS
  <2>. HIDE DEF i
  <2>10. PICK j \in DOMAIN stream.chunks : i \in stream.chunks[j].first .. stream.chunks[j].last
    BY <2>7, ChunkOf
  <2>11. j \in 1 .. k - 1 /\ stream.chunks[j].last < pos + 1
    BY <1>2, <2>7, <2>10, ChunkOrder
  <2>12. stream.chunks[j].last \in Nat /\ stream.chunks[j].first \in Nat
    BY ChunkFacts
  <2>13. ~Disturbs(j)
    <3>1. Disturbs(j) => (pos + 1) - stream.chunks[j].last >= 4
      BY <1>1, <2>1, <2>11
    <3>2. i <= stream.chunks[j].last
      BY <2>7, <2>10, <2>12
    <3>. QED  BY <1>2, <2>2, <2>9, <2>12, <3>1, <3>2
  <2>14. j \in Messages /\ i = stream.chunks[j].first
    <3>1. /\ stream.chunks[j].kind = "message"
          /\ \A x \in stream.chunks[j].first + 1 .. stream.chunks[j].last : stream.bytes[x] # 254
      BY <2>1, <2>13 DEF Disturbs
    <3>2. i \notin stream.chunks[j].first + 1 .. stream.chunks[j].last
      BY <2>8, <3>1
    <3>. QED  BY <2>7, <2>10, <2>12, <3>1, <3>2 DEF Messages
  <2>. DEFINE m == Message(j)
  <2>15. Len(m) = stream.chunks[j].last - i + 1 /\ Len(m) \in Nat
         /\ \A x \in 1 .. Len(m) : m[x] = stream.bytes[i + x - 1]
    BY <2>14, MessageFacts, LenProperties
  <2>16. Len(m) >= 2
    BY <2>14, FrameFacts
  <2>17. m[1] = 254
    <3>1. 1 \in 1 .. Len(m) /\ i + 1 - 1 = i
      BY <2>7, <2>15, <2>16
    <3>. QED  BY <2>8, <2>15, <3>1
  <2>18. Len(m) >= 11
    BY <1>4, <2>14, <2>17, FrameFacts
  <2>. HIDE DEF m
  <2>19. stream.chunks[j].last - i + 1 >= 11
    BY <2>15, <2>18
  <2>. QED  BY <1>2, <2>2, <2>9, <2>11, <2>12, <2>19
<1>. QED  BY <1>3, <1>4

LEMMA FindKnown ==
  ASSUME Typed, Placed, Known, Tracking, pos < Len(stream.bytes), Outcome,
         stream' = stream, pos' = pos + 1,
         ready' = ready \cup {k \in Messages : stream.chunks[k].first = pos + 1 /\ Listens}
  PROVE  Known'
<1>. SUFFICES ASSUME Serial, finder'.building # "none", Len(finder'.buffer) <= pos'
              PROVE  \E j \in DOMAIN stream.chunks :
                       /\ pos' + 1 - Len(finder'.buffer) \in stream.chunks[j].first .. stream.chunks[j].last
                       /\ \/ Disturbs(j)
                          \/ /\ j \in ready' /\ pos' < stream.chunks[j].last
                             /\ stream.chunks[j].first = pos' + 1 - Len(finder'.buffer)
  BY DEF Known, Serial, Disturbs, Starts
<1>1. pos \in Nat /\ pos + 1 \in 1 .. Len(stream.bytes)
  BY StreamFacts
<1>2. Begins \/ Grows
  BY OutcomeFacts DEF Outcome, Heads, HeaderFound, Serial
<1>3. CASE Begins
  <2>1. finder'.buffer = <<Byte>> /\ Byte \in Starts /\ Now.building = "none" /\ ~HeaderFound
    BY <1>3, OutcomeFacts
  <2>2. Len(finder'.buffer) = 1
    BY <2>1
  <2>3. pos' + 1 - Len(finder'.buffer) = pos + 1
    BY <1>1, <2>2
  <2>4. PICK j \in DOMAIN stream.chunks : pos + 1 \in stream.chunks[j].first .. stream.chunks[j].last
    BY <1>1, ChunkOf
  <2>5. stream.chunks[j].first \in Nat /\ stream.chunks[j].last \in Nat
    BY ChunkFacts
  <2>6. CASE stream.chunks[j].kind # "message"
    BY <2>3, <2>4, <2>6 DEF Disturbs
  <2>7. CASE pos + 1 # stream.chunks[j].first
    <3>1. pos + 1 \in stream.chunks[j].first + 1 .. stream.chunks[j].last
      BY <1>1, <2>4, <2>5, <2>7
    <3>2. stream.bytes[pos + 1] \in Starts
      BY <2>1 DEF Byte
    <3>3. Disturbs(j)
      BY <3>1, <3>2 DEF Disturbs
    <3>. QED  BY <2>3, <2>4, <3>3
  <2>8. CASE stream.chunks[j].kind = "message" /\ pos + 1 = stream.chunks[j].first
    <3>1. j \in Messages
      BY <2>8 DEF Messages
    <3>2. Listens
      BY <2>1 DEF Listens, Serial
    <3>3. j \in ready'
      BY <2>8, <3>1, <3>2
    <3>4. pos + 1 < stream.chunks[j].last
      <4>1. Len(Message(j)) >= 2 /\ Len(Message(j)) = stream.chunks[j].last - stream.chunks[j].first + 1
        BY <3>1, FrameFacts, MessageFacts
      <4>. DEFINE a == stream.chunks[j].first  b == stream.chunks[j].last
      <4>2. b - a + 1 >= 2 /\ a \in Nat /\ b \in Nat /\ a = pos + 1
        BY <2>5, <2>8, <4>1
      <4>. HIDE DEF a, b
      <4>3. a < b
        BY <4>2
      <4>. QED  BY <4>2, <4>3 DEF b
    <3>. QED  BY <2>3, <2>4, <2>8, <3>3, <3>4
  <2>. QED  BY <2>6, <2>7, <2>8
<1>4. CASE Grows
  <2>1. Now.building # "none" /\ finder'.building = Now.building /\ finder'.buffer = Grown
    BY <1>4, OutcomeFacts
  <2>2. Now = finder /\ Len(Now.buffer) \in Nat
    BY <2>1, NowFacts
  <2>. DEFINE l == Len(finder.buffer)
  <2>3. Len(finder'.buffer) = l + 1
    BY <2>1, <2>2, GrownFacts
  <2>4. l \in Nat
    BY <2>2
  <2>5. Len(finder.buffer) = l
    OBVIOUS
  <2>. HIDE DEF l
  <2>6. pos' + 1 - Len(finder'.buffer) = pos + 1 - l /\ l <= pos
    <3>1. l + 1 <= pos + 1
      BY <2>3
    <3>2. (pos + 1) + 1 - (l + 1) = pos + 1 - l /\ l <= pos
      BY <1>1, <2>4, <3>1
    <3>. QED  BY <2>3, <3>2
  <2>7. PICK j \in DOMAIN stream.chunks :
          /\ pos + 1 - l \in stream.chunks[j].first .. stream.chunks[j].last
          /\ \/ Disturbs(j)
             \/ /\ j \in ready /\ pos < stream.chunks[j].last
                /\ stream.chunks[j].first = pos + 1 - l
    BY <2>1, <2>2, <2>5, <2>6 DEF Known
  <2>8. CASE Disturbs(j)
    BY <2>6, <2>7, <2>8
  <2>9. CASE j \in ready /\ pos < stream.chunks[j].last /\ stream.chunks[j].first = pos + 1 - l
    <3>1. j \in Messages /\ ~Data(j) /\ stream.chunks[j].first <= pos
          /\ On(j, pos + 1 - stream.chunks[j].first, finder)
      BY <1>1, <2>9 DEF Tracking, Tracks, Typed, Data
    <3>2. IF pos + 1 < stream.chunks[j].last THEN TRUE ELSE Completes
      BY <2>9, <3>1, PlainOn
    <3>3. ~Completes
      BY <2>1, OutcomeFacts
    <3>4. pos + 1 < stream.chunks[j].last /\ j \in ready'
      BY <2>9, <3>2, <3>3
    <3>. QED  BY <2>6, <2>7, <2>9, <3>4
  <2>. QED  BY <2>7, <2>8, <2>9
<1>. QED  BY <1>2, <1>3, <1>4

LEMMA NextKnown ==
  ASSUME Typed, Placed, Known, Tracking, [Next]_vars
  PROVE  Known'
<1>1. CASE Find
  BY <1>1, FindOutcome, FindKnown
<1>2. CASE Rewind
  <2>1. pos' = 0 /\ UNCHANGED <<stream, finder>>
    BY <1>2 DEF Rewind
  <2>2. Shaped(finder)
    BY DEF Typed
  <2>3. Serial /\ finder.building # "none" => Len(finder.buffer) >= 1 /\ Len(finder.buffer) \in Nat
    <3>1. finder.building \in {"none", "ascii", "binary"} /\ Len(finder.buffer) \in Nat
      BY <2>2, LenProperties DEF Shaped, FinderType
    <3>. QED  BY <2>2, <3>1 DEF Shaped, BinaryPart, TextPart
  <2>4. Serial /\ finder.building # "none" => ~(Len(finder.buffer) <= 0)
    BY <2>3
  <2>. QED  BY <2>1, <2>4 DEF Known, Serial
<1>3. CASE UNCHANGED vars
  BY <1>3 DEF vars, Known, Serial, Disturbs, Starts
<1>. QED  BY <1>1, <1>2, <1>3 DEF Next

LEMMA NextHeard ==
  ASSUME Typed, Placed, Known, Heard, [Next]_vars
  PROVE  Heard'
<1>1. CASE Find
  <2>1. /\ pos < Len(stream.bytes) /\ pos' = pos + 1 /\ stream' = stream /\ rewinds' = rewinds
        /\ ready' = ready \cup {k \in Messages : stream.chunks[k].first = pos + 1 /\ Listens}
    BY <1>1, FindOutcome
  <2>. SUFFICES ASSUME NEW k \in Messages, pos + 1 >= stream.chunks[k].first, Far(k)
                PROVE  k \in ready'
    BY <2>1 DEF Heard, Messages, Far, Starts, Disturbs, Reach
  <2>2. stream.chunks[k].first \in Nat /\ pos \in Nat
    BY ChunkFacts, StreamFacts DEF Messages
  <2>3. CASE pos >= stream.chunks[k].first
    BY <2>1, <2>3 DEF Heard
  <2>4. CASE stream.chunks[k].first = pos + 1
    BY <2>1, <2>4, ListensFar
  <2>. QED  BY <2>2, <2>3, <2>4
<1>2. CASE Rewind
  <2>1. pos' = 0 /\ stream' = stream
    BY <1>2 DEF Rewind
  <2>2. \A k \in Messages : stream.chunks[k].first \in Nat /\ 1 <= stream.chunks[k].first
    BY ChunkFacts DEF Messages
  <2>3. \A k \in Messages : ~(0 >= stream.chunks[k].first)
    BY <2>2
  <2>. QED  BY <2>1, <2>3 DEF Heard, Messages
<1>3. CASE UNCHANGED vars
  BY <1>3 DEF vars, Heard, Messages, Far, Starts, Disturbs, Reach
<1>. QED  BY <1>1, <1>2, <1>3 DEF Next

LEMMA AlwaysHeard == Spec => []Heard
<1>1. Init => Known
  BY DEF Init, Known, Idle
<1>2. Init => Heard
  <2>. SUFFICES ASSUME Init
                PROVE  Heard
    OBVIOUS
  <2>1. pos = 0 /\ Typed
    BY InitTyped DEF Init
  <2>2. \A k \in Messages : stream.chunks[k].first \in Nat /\ 1 <= stream.chunks[k].first
    BY <2>1, ChunkFacts DEF Messages
  <2>3. \A k \in Messages : ~(pos >= stream.chunks[k].first)
    BY <2>1, <2>2
  <2>. QED  BY <2>3 DEF Heard
<1>3. Typed /\ Placed /\ Known /\ Tracking /\ [Next]_vars => Known'
  BY NextKnown
<1>4. Typed /\ Placed /\ Known /\ Heard /\ [Next]_vars => Heard'
  BY NextHeard
<1>. QED  BY <1>1, <1>2, <1>3, <1>4, AlwaysTyped, AlwaysPlaced, AlwaysTracking, PTL DEF Spec

(* After damaged or foreign bytes the finder recovers, in every reading of the *)
(* file: a message behind them that begins further than a full buffer (than a  *)
(* header, for the KVH sensor) is returned.                                    *)
THEOREM FinderRecovers == Spec => []Recovers
<1>1. Typed /\ Heard /\ HeardIsFound => Recovers
  <2>. SUFFICES ASSUME Typed, Heard, HeardIsFound, NEW k \in Messages, Passed(k), Far(k)
                PROVE  Found(k)
    BY DEF Recovers, Far
  <2>1. /\ stream.chunks[k].first \in Nat /\ stream.chunks[k].last \in Nat /\ pos \in Nat
        /\ stream.chunks[k].first <= stream.chunks[k].last
    BY ChunkFacts, StreamFacts DEF Messages
  <2>2. pos >= stream.chunks[k].first
    BY <2>1 DEF Passed
  <2>. QED  BY <2>2 DEF Heard, HeardIsFound
<1>. QED  BY <1>1, AlwaysTyped, AlwaysHeard, HeardFound, PTL

-------------------------------------------------------------------------------
(* What is returned was sent, in its order.                                    *)

LEMMA FoundElements ==
  ASSUME Placed, Typed, pos < Len(stream.bytes), Outcome
  PROVE  /\ \A i \in DOMAIN found : found[i] \in PacketType
         /\ \A i \in DOMAIN found' :
              \/ i \in DOMAIN found /\ found'[i] = found[i]
              \/ found'[i] = Packet /\ Completes /\ Valid(stream.sensor, Grown)
         /\ \A i, j \in DOMAIN found' : i < j => i \in DOMAIN found /\ found'[i] = found[i]
<1>1. found \in Seq(PacketType) /\ Len(found) \in Nat /\ DOMAIN found = 1 .. Len(found)
  BY LenProperties DEF Placed
<1>2. \A i \in DOMAIN found : found[i] \in PacketType
  BY <1>1, ElementOfSeq
<1>3. CASE found' = found
  BY <1>2, <1>3
<1>4. CASE Completes /\ Valid(stream.sensor, Grown) /\ found' = Append(found, Packet)
  <2>1. /\ Append(found, Packet) \in Seq(PacketType)
        /\ Len(Append(found, Packet)) = Len(found) + 1
        /\ \A i \in 1 .. Len(found) : Append(found, Packet)[i] = found[i]
        /\ Append(found, Packet)[Len(found) + 1] = Packet
    BY <1>1, FoundFacts, AppendProperties
  <2>2. DOMAIN found' = 1 .. Len(found) + 1
    BY <1>4, <2>1, LenProperties
  <2>. DEFINE n == Len(found)
  <2>3. /\ n \in Nat /\ DOMAIN found = 1 .. n /\ DOMAIN found' = 1 .. n + 1
        /\ \A i \in 1 .. n : found'[i] = found[i]
        /\ found'[n + 1] = Packet
    BY <1>1, <1>4, <2>1, <2>2
  <2>. HIDE DEF n
  <2>4. \A i \in 1 .. n + 1 : i \in 1 .. n \/ i = n + 1
    BY <2>3
  <2>5. \A i, j \in 1 .. n + 1 : i < j => i \in 1 .. n
    BY <2>3
  <2>. QED  BY <1>2, <1>4, <2>3, <2>4, <2>5
<1>. QED  BY <1>3, <1>4, FoundFacts

LEMMA OrderStays ==
  ASSUME Placed, Typed, pos < Len(stream.bytes), Outcome, FoundInOrder,
         Completes => \A i \in DOMAIN found : found[i].last < Packet.first
  PROVE  FoundInOrder'
<1>. SUFFICES ASSUME NEW i \in DOMAIN found', NEW j \in DOMAIN found', i < j
              PROVE  found'[i].last < found'[j].first
  BY DEF FoundInOrder
<1>1. i \in DOMAIN found /\ found'[i] = found[i]
  BY FoundElements
<1>2. \/ j \in DOMAIN found /\ found'[j] = found[j]
      \/ found'[j] = Packet /\ Completes
  BY FoundElements
<1>. QED  BY <1>1, <1>2 DEF FoundInOrder

(* How long what the finder holds can be after a byte.                         *)
LEMMA HeldLengths ==
  ASSUME Typed, pos < Len(stream.bytes), Outcome, NEW n \in Nat, n <= pos
  PROVE  /\ n + Len(Now.buffer) <= pos /\ (Serial \/ n + Len(Now.tag) <= pos)
              => n + Len(finder'.buffer) <= pos + 1
         /\ n + Len(Now.tag) <= pos => n + Len(finder'.tag) <= pos + 1
         /\ finder'.building = "ascii" /\ (Now.building = "ascii" => n + Len(Now.buffer) <= pos)
              => n + Len(finder'.buffer) <= pos + 1
<1>1. Len(<<>>) = 0 /\ Len(<<Byte>>) = 1 /\ pos \in Nat
  BY StreamFacts
<1>2. /\ Len(Now.buffer) \in Nat /\ Len(Now.tag) \in Nat /\ Len(Grown) = Len(Now.buffer) + 1
      /\ Tag = <<>> \/ Len(Tag) = Len(Now.tag) + 1
  BY NowFacts, TagFacts, GrownFacts
<1>3. Len(Append(Now.tag, Byte)) = Len(Now.tag) + 1
  <2>1. Now.tag \in Seq(Bytes) /\ Byte \in Bytes
    BY NowFacts, StreamFacts DEF Shaped, FinderType
  <2>. QED  BY <2>1, AppendProperties
<1>. DEFINE l == Len(Now.buffer)  t == Len(Now.tag)  b == Len(finder'.buffer)  u == Len(finder'.tag)
<1>4. u = 0 \/ u = t + 1
  BY <1>1, <1>2, OutcomeFacts
<1>5. \/ b = 0 /\ finder'.building = "none"
      \/ b = 1
      \/ b = l + 1 /\ finder'.building = Now.building
      \/ b = t + 1 /\ finder'.building = "binary" /\ ~Serial
  BY <1>1, <1>2, <1>3, OutcomeFacts DEF Outcome, Heads, HeaderFound, Serial
<1>6. l \in Nat /\ t \in Nat
  BY <1>2
<1>. HIDE DEF l, t, b, u
<1>7. n + l <= pos /\ (Serial \/ n + t <= pos) => n + b <= pos + 1
  BY <1>1, <1>5, <1>6
<1>8. n + t <= pos => n + u <= pos + 1
  BY <1>1, <1>4, <1>6
<1>9. finder'.building = "ascii" /\ (Now.building = "ascii" => n + l <= pos) => n + b <= pos + 1
  BY <1>1, <1>5, <1>6
<1>. QED  BY <1>7, <1>8, <1>9 DEF l, t, b, u

(* No byte that is held by a serial sensor's finder was returned.              *)
Ordered ==
  Serial => /\ \A i \in DOMAIN found : found[i].last + Len(finder.buffer) <= pos
            /\ FoundInOrder

LEMMA FindOrdered ==
  ASSUME Typed, Placed, Ordered, pos < Len(stream.bytes), Outcome, stream' = stream, pos' = pos + 1
  PROVE  Ordered'
<1>. SUFFICES ASSUME Serial
              PROVE  /\ \A i \in DOMAIN found' : found'[i].last + Len(finder'.buffer) <= pos'
                     /\ FoundInOrder'
  BY DEF Ordered, Serial
<1>1. pos \in Nat /\ Len(Now.buffer) \in Nat /\ Len(finder.buffer) \in Nat
  BY StreamFacts, NowFacts, LenProperties DEF Typed, Shaped, FinderType
<1>2. \A i \in DOMAIN found : found[i].last \in Nat /\ found[i].first \in Int
  BY FoundElements DEF PacketType
<1>3. \A i \in DOMAIN found : found[i].last <= pos /\ found[i].last + Len(Now.buffer) <= pos
  <2>. SUFFICES ASSUME NEW i \in DOMAIN found
                PROVE  found[i].last <= pos /\ found[i].last + Len(Now.buffer) <= pos
    OBVIOUS
  <2>1. found[i].last + Len(finder.buffer) <= pos /\ found[i].last \in Nat
    BY <1>2 DEF Ordered
  <2>2. found[i].last <= pos
    BY <1>1, <2>1
  <2>3. Now = finder \/ Len(Now.buffer) = 0
    <3>1. Len(<<>>) = 0
      OBVIOUS
    <3>. QED  BY <3>1, NowFacts
  <2>. QED  BY <1>1, <2>1, <2>2, <2>3
<1>4. Len(Grown) = Len(Now.buffer) + 1
  BY GrownFacts
<1>5. Packet.first = pos + 2 - Len(Grown) /\ Packet.last = pos + 1
  BY DEF Packet
<1>6. \A i \in DOMAIN found : found[i].last < Packet.first
  <2>1. \A n, l \in Nat : n + l <= pos => n < pos + 2 - (l + 1)
    BY <1>1
  <2>. QED  BY <1>1, <1>2, <1>3, <1>4, <1>5, <2>1
<1>7. FoundInOrder'
  BY <1>6, OrderStays DEF Ordered
<1>8. ASSUME NEW i \in DOMAIN found'
      PROVE  found'[i].last + Len(finder'.buffer) <= pos + 1
  <2>1. CASE i \in DOMAIN found /\ found'[i] = found[i]
    BY <1>2, <1>3, <2>1, HeldLengths
  <2>2. CASE found'[i] = Packet /\ Completes
    <3>1. Len(finder'.buffer) = 0
      <4>1. Len(<<>>) = 0
        OBVIOUS
      <4>. QED  BY <2>2, <4>1, OutcomeFacts
    <3>. QED  BY <1>1, <1>5, <2>2, <3>1
  <2>. QED  BY <2>1, <2>2, FoundElements
<1>. QED  BY <1>7, <1>8

LEMMA AlwaysOrdered == Spec => []Ordered
<1>1. Init => Ordered
  BY DEF Init, Ordered, FoundInOrder
<1>2. ASSUME Typed, Placed, Ordered, [Next]_vars
      PROVE  Ordered'
  <2>1. CASE Find
    BY <1>2, <2>1, FindOutcome, FindOrdered
  <2>2. CASE Rewind
    BY <2>2 DEF Rewind, Ordered, FoundInOrder
  <2>3. CASE UNCHANGED vars
    BY <1>2, <2>3 DEF vars, Ordered, FoundInOrder, Serial
  <2>. QED  BY <1>2, <2>1, <2>2, <2>3 DEF Next
<1>. QED  BY <1>1, <1>2, AlwaysTyped, AlwaysPlaced, PTL DEF Spec

(* The u-blox and the Emlid sensor return packets in the order of the stream,  *)
(* and use no byte for two of them, whatever is received and however often the *)
(* file is read again.                                                         *)
THEOREM SerialInOrder == Spec => [](stream.sensor # "kvh" => FoundInOrder)
<1>1. Ordered => (stream.sensor # "kvh" => FoundInOrder)
  BY DEF Ordered, Serial
<1>. QED  BY <1>1, AlwaysOrdered, PTL

(* Packets that have a checksum, or whose kind has one.                        *)
Checked(sensor, p) ==
  /\ CASE sensor = "kvh"   -> KvhFrame(p)
       [] sensor = "ublox" -> Framed(sensor, p)
       [] sensor = "emlid" -> BinaryFrame(sensor, p)
  /\ Valid(sensor, p)

(* Nothing in the stream but its messages looks like such a packet: no damaged *)
(* message, foreign bytes, or bytes across two chunks, has a checksum that fits *)
(* by chance.                                                                  *)
NoFalsePackets ==
  \A a \in DOMAIN stream.bytes : \A b \in a .. Len(stream.bytes) :
    Checked(stream.sensor, SubSeq(stream.bytes, a, b)) =>
      \E k \in Messages : stream.chunks[k].first = a /\ stream.chunks[k].last = b

Sent(p) == \E k \in Messages : Is(p, k)

(* A text without a checksum shares no byte with what the finder holds.        *)
AllSent ==
  NoFalsePackets /\ rewinds = 0 =>
    /\ \A i \in DOMAIN found :
         /\ found[i].last <= pos
         /\ \/ Sent(found[i])
            \/ /\ found[i].type = "ascii" /\ stream.sensor # "ublox"
               /\ found[i].last + Len(finder.buffer) <= pos
               /\ found[i].last + Len(finder.tag) <= pos
         /\ finder.building = "ascii" => found[i].last + Len(finder.buffer) <= pos
    /\ FoundInOrder

LEMMA PacketSent ==
  ASSUME Typed, Placed, pos < Len(stream.bytes), Outcome, Completes, Valid(stream.sensor, Grown),
         NoFalsePackets, rewinds = 0,
         Packet.type = "binary" \/ stream.sensor = "ublox" \/ (~Serial /\ Now.building = "binary")
  PROVE  Sent(Packet)
<1>1. stream.sensor \in Sensors /\ pos \in Nat /\ Len(stream.bytes) \in Nat
      /\ stream.bytes \in Seq(Bytes)
  BY StreamFacts
<1>2. Grown \in Seq(Bytes) /\ Len(Grown) = Had + 1 /\ Had \in Nat /\ Had <= pos
  <2>1. Len(Now.buffer) \in Nat /\ Len(Now.buffer) <= pos
    BY NowFacts, HeldFacts
  <2>. QED  BY <2>1, GrownFacts DEF Had
<1>3. EndsAt(Grown, pos + 1)
  BY HeldFacts, ReadsOn DEF Grown
<1>. DEFINE a == pos + 1 - Had  b == pos + 1
<1>4. a \in 1 .. Len(stream.bytes) /\ b \in a .. Len(stream.bytes) /\ b - a + 1 = Had + 1
      /\ a \in Int /\ b \in Int /\ a <= b
  BY <1>1, <1>2
<1>5. \A i \in 1 .. Had + 1 : Grown[i] = stream.bytes[a + i - 1]
  <2>1. \A i \in 1 .. Had + 1 : (pos + 1) - (Had + 1) + i = a + i - 1 /\ a + i - 1 >= 1
    BY <1>1, <1>2
  <2>. HIDE DEF a
  <2>. QED  BY <1>2, <1>3, <2>1 DEF EndsAt
<1>6. Packet.first = a /\ Packet.last = b
  <2>1. Packet.first = pos + 2 - (Had + 1) /\ Packet.last = pos + 1
    BY <1>2 DEF Packet
  <2>2. pos + 2 - (Had + 1) = pos + 1 - Had
    BY <1>1, <1>2
  <2>. QED  BY <2>1, <2>2
<1>. HIDE DEF a, b
<1>7. \A i \in a .. b : stream.bytes[i] \in Bytes
  <2>1. \A i \in a .. b : i \in 1 .. Len(stream.bytes)
    BY <1>1, <1>4
  <2>. QED  BY <1>1, <2>1, ElementOfSeq
<1>8. SubSeq(stream.bytes, a, b) = Grown
  <2>. DEFINE q == SubSeq(stream.bytes, a, b)
  <2>1. /\ q \in Seq(Bytes)
        /\ Len(q) = IF a <= b THEN b - a + 1 ELSE 0
        /\ \A i \in 1 .. b - a + 1 : q[i] = stream.bytes[a + i - 1]
    BY <1>4, <1>7, SubSeqProperties
  <2>2. Len(q) = Had + 1 /\ \A i \in 1 .. Had + 1 : q[i] = stream.bytes[a + i - 1]
    BY <1>4, <2>1
  <2>3. q \in Seq(Bytes) /\ Len(q) = Len(Grown) /\ \A i \in 1 .. Len(q) : q[i] = Grown[i]
    BY <1>2, <1>5, <2>1, <2>2
  <2>. HIDE DEF q
  <2>4. q = Grown
    BY <1>2, <2>3, SeqEqual
  <2>. QED  BY <2>4 DEF q
<1>9. Checked(stream.sensor, Grown)
  <2>1. /\ Now.building = "binary" => IF Serial THEN BinaryFrame(stream.sensor, Grown) ELSE KvhFrame(Grown)
        /\ Now.building = "ascii" => IsLine(Grown) /\ (Serial => Grown[1] = AsciiStart)
        /\ Now.building \in {"ascii", "binary"}
    BY NowFacts DEF Completes, IsFramed, Shaped, FinderType
  <2>2. Packet.type = Type(stream.sensor, Grown)
    BY DEF Packet
  <2>3. Now.building = "ascii" => Type(stream.sensor, Grown) = "ascii"
    BY <1>2, <2>1, TypeFacts
  <2>4. CASE stream.sensor = "ublox"
    BY <2>1, <2>4 DEF Checked, Framed, TextFrame, Serial
  <2>5. CASE stream.sensor = "emlid"
    BY <2>1, <2>2, <2>3, <2>5 DEF Checked, Serial
  <2>6. CASE stream.sensor = "kvh"
    BY <2>1, <2>2, <2>3, <2>6 DEF Checked, Serial
  <2>. QED  BY <1>1, <2>4, <2>5, <2>6 DEF Sensors
<1>10. PICK k \in Messages : stream.chunks[k].first = a /\ stream.chunks[k].last = b
  <2>1. a \in DOMAIN stream.bytes
    BY <1>1, <1>4, LenProperties
  <2>. QED  BY <1>4, <1>8, <1>9, <2>1 DEF NoFalsePackets
<1>. QED  BY <1>6, <1>10 DEF Sent, Is

LEMMA FindAllSent ==
  ASSUME Typed, Placed, Ordered, AllSent, pos < Len(stream.bytes), Outcome, stream' = stream,
         pos' = pos + 1, rewinds' = rewinds
  PROVE  AllSent'
<1>1. NoFalsePackets' <=> NoFalsePackets
  BY DEF NoFalsePackets, Messages
<1>. SUFFICES ASSUME NoFalsePackets, rewinds = 0
              PROVE  /\ \A i \in DOMAIN found' :
                          /\ found'[i].last <= pos + 1
                          /\ \/ Sent(found'[i])
                             \/ /\ found'[i].type = "ascii" /\ stream.sensor # "ublox"
                                /\ found'[i].last + Len(finder'.buffer) <= pos + 1
                                /\ found'[i].last + Len(finder'.tag) <= pos + 1
                          /\ finder'.building = "ascii"
                               => found'[i].last + Len(finder'.buffer) <= pos + 1
                     /\ FoundInOrder'
  BY <1>1 DEF AllSent, Sent, Is, Messages
<1>2. pos \in Nat /\ Had \in Nat /\ Len(finder.buffer) \in Nat
  BY StreamFacts, NowFacts, LenProperties DEF Typed, Shaped, FinderType, Had
<1>3. \A i \in DOMAIN found : found[i].last \in Nat /\ found[i].last <= pos
  BY FoundElements DEF PacketType, AllSent
<1>4. Now = finder \/ (Now.building = "none" /\ Now.buffer = <<>>)
  BY NowFacts
<1>5. Now.tag = finder.tag /\ Len(<<>>) = 0
  BY NowFacts
<1>6. \A i \in DOMAIN found :
        \/ Sent(found[i])
        \/ /\ found[i].type = "ascii" /\ stream.sensor # "ublox"
           /\ found[i].last + Had <= pos /\ found[i].last + Len(Now.tag) <= pos
  <2>1. \A i \in DOMAIN found :
          \/ Sent(found[i])
          \/ /\ found[i].type = "ascii" /\ stream.sensor # "ublox"
             /\ found[i].last + Len(finder.buffer) <= pos /\ found[i].last + Len(Now.tag) <= pos
    BY <1>5 DEF AllSent
  <2>2. Had = Len(finder.buffer) \/ Had = 0
    BY <1>4, <1>5 DEF Had
  <2>3. \A i \in DOMAIN found : found[i].last + Len(finder.buffer) <= pos => found[i].last + Had <= pos
    BY <1>2, <1>3, <2>2
  <2>. QED  BY <2>1, <2>3
<1>7. \A i \in DOMAIN found : Now.building = "ascii" => found[i].last + Had <= pos
  BY <1>4 DEF AllSent, Had
<1>8. Packet.first = pos + 2 - (Had + 1) /\ Packet.last = pos + 1 /\ Packet.type = Type(stream.sensor, Grown)
  BY GrownFacts DEF Packet, Had
<1>9. Completes /\ Valid(stream.sensor, Grown)
        /\ (Packet.type = "binary" \/ stream.sensor = "ublox" \/ (~Serial /\ Now.building = "binary"))
          => Sent(Packet)
  BY PacketSent
<1>10. ASSUME Completes
       PROVE  \/ FoundInOrder'
              \/ \A i \in DOMAIN found : found[i].last < Packet.first
  <2>1. \A n \in Nat : n + Had <= pos => n < pos + 2 - (Had + 1)
    BY <1>2
  <2>2. \A i \in DOMAIN found : found[i].last + Had <= pos => found[i].last < Packet.first
    BY <1>3, <1>8, <2>1
  <2>3. CASE Now.building = "ascii"
    BY <1>7, <2>2, <2>3
  <2>4. CASE Now.building = "binary" /\ Serial
    <3>1. Now = finder
      BY <1>4, <2>4
    <3>. QED  BY <2>2, <2>4, <3>1 DEF Ordered, Had
  <2>5. CASE Now.building = "binary" /\ ~Serial /\ Valid(stream.sensor, Grown)
    <3>1. PICK k \in Messages : Is(Packet, k)
      BY <1>9, <1>10, <2>5 DEF Sent
    <3>2. stream.chunks[k].last = pos + 1 /\ stream.chunks[k].first = Packet.first /\ k \in DOMAIN stream.chunks
      BY <1>8, <3>1 DEF Is, Messages
    <3>3. ASSUME NEW i \in DOMAIN found, Sent(found[i])
          PROVE  found[i].last < Packet.first
      <4>1. PICK j \in Messages : Is(found[i], j)
        BY <3>3 DEF Sent
      <4>2. stream.chunks[j].last = found[i].last /\ j \in DOMAIN stream.chunks
        BY <4>1 DEF Is, Messages
      <4>3. \A x, y \in DOMAIN stream.chunks : x < y => stream.chunks[x].last < stream.chunks[y].first
        BY StreamsAssumption DEF Typed
      <4>4. stream.chunks[j].last <= pos /\ stream.chunks[j].last \in Nat
        BY <1>3, <4>2
      <4>5. /\ stream.chunks[j].first \in Nat /\ stream.chunks[j].first <= stream.chunks[j].last
        BY <4>2, ChunkFacts
      <4>6. j # k /\ ~(k < j)
        <5>1. k < j => pos + 1 < stream.chunks[j].first
          BY <3>2, <4>2, <4>3
        <5>. QED  BY <1>2, <3>2, <4>4, <4>5, <5>1
      <4>7. j \in Nat /\ k \in Nat
        <5>1. stream.chunks \in Seq([kind : {"message", "damaged", "foreign"}, first : Nat, last : Nat])
          BY StreamsAssumption DEF Typed
        <5>2. DOMAIN stream.chunks = 1 .. Len(stream.chunks) /\ Len(stream.chunks) \in Nat
          BY <5>1, LenProperties
        <5>. QED  BY <3>2, <4>2, <5>2
      <4>8. j < k
        BY <4>6, <4>7
      <4>. QED  BY <3>2, <4>2, <4>3, <4>8
    <3>. QED  BY <1>6, <2>2, <3>3
  <2>6. CASE ~Valid(stream.sensor, Grown)
    <3>1. found' = found
      BY <1>10, <2>6 DEF Completes
    <3>. QED  BY <3>1 DEF AllSent, FoundInOrder
  <2>7. Now.building \in {"ascii", "binary"}
    BY <1>10, NowFacts DEF Completes, Shaped, FinderType
  <2>. QED  BY <2>3, <2>4, <2>5, <2>6, <2>7
<1>11. FoundInOrder'
  <2>1. FoundInOrder
    BY DEF AllSent
  <2>. QED  BY <1>10, <2>1, OrderStays
<1>12. ASSUME NEW i \in DOMAIN found'
       PROVE  /\ found'[i].last <= pos + 1
              /\ \/ Sent(found'[i])
                 \/ /\ found'[i].type = "ascii" /\ stream.sensor # "ublox"
                    /\ found'[i].last + Len(finder'.buffer) <= pos + 1
                    /\ found'[i].last + Len(finder'.tag) <= pos + 1
              /\ finder'.building = "ascii" => found'[i].last + Len(finder'.buffer) <= pos + 1
  <2>1. CASE i \in DOMAIN found /\ found'[i] = found[i]
    <3>. DEFINE n == found[i].last
    <3>1. n \in Nat /\ n <= pos /\ found'[i].last = n /\ found'[i].type = found[i].type
          /\ (Sent(found[i]) <=> Sent(found'[i]))
      BY <1>3, <2>1
    <3>2. /\ \/ Sent(found[i])
             \/ /\ found[i].type = "ascii" /\ stream.sensor # "ublox"
                /\ n + Len(Now.buffer) <= pos /\ n + Len(Now.tag) <= pos
          /\ Now.building = "ascii" => n + Len(Now.buffer) <= pos
      BY <1>6, <1>7, <2>1 DEF Had
    <3>. HIDE DEF n
    <3>3. /\ n + Len(Now.buffer) <= pos /\ (Serial \/ n + Len(Now.tag) <= pos)
                => n + Len(finder'.buffer) <= pos + 1
          /\ n + Len(Now.tag) <= pos => n + Len(finder'.tag) <= pos + 1
          /\ finder'.building = "ascii" /\ (Now.building = "ascii" => n + Len(Now.buffer) <= pos)
                => n + Len(finder'.buffer) <= pos + 1
      BY <3>1, HeldLengths
    <3>4. n <= pos + 1
      BY <1>2, <3>1
    <3>. QED  BY <3>1, <3>2, <3>3, <3>4
  <2>2. CASE found'[i] = Packet /\ Completes /\ Valid(stream.sensor, Grown)
    <3>1. finder'.building = "none" /\ Len(finder'.buffer) = 0
      BY <1>5, <2>2, OutcomeFacts
    <3>2. found'[i].last = pos + 1 /\ found'[i].last + 0 <= pos + 1 /\ found'[i].last <= pos + 1
      BY <1>2, <1>8, <2>2
    <3>3. CASE Packet.type = "binary" \/ stream.sensor = "ublox" \/ (~Serial /\ Now.building = "binary")
      BY <1>9, <2>2, <3>1, <3>2, <3>3
    <3>4. CASE ~(Packet.type = "binary" \/ stream.sensor = "ublox" \/ (~Serial /\ Now.building = "binary"))
      <4>1. Packet.type = "ascii"
        <5>1. Packet \in PacketType /\ Packet.type # "unknown"
          BY <1>8, <2>2, FoundFacts DEF Completes
        <5>. QED  BY <3>4, <5>1 DEF PacketType
      <4>2. finder'.tag = <<>>
        <5>1. CASE ~Serial
          <6>1. Now.building = "ascii"
            BY <2>2, <3>4, <5>1, NowFacts DEF Completes, Shaped, FinderType
          <6>2. IsLine(Grown)
            BY <2>2, <6>1 DEF Completes, IsFramed
          <6>3. Len(Grown) = Had + 1 /\ Grown[Had + 1] = Byte
            BY GrownFacts DEF Had
          <6>4. Byte = LF
            BY <6>2, <6>3 DEF IsLine
          <6>5. Byte \in 1 .. 127
            BY <6>4 DEF LF
          <6>. QED  BY <5>1, <6>5, TextTag, OutcomeFacts
        <5>. QED  BY <5>1, OutcomeFacts
      <4>3. Len(finder'.tag) = 0
        BY <1>5, <4>2
      <4>. QED  BY <2>2, <3>1, <3>2, <3>4, <4>1, <4>3
    <3>. QED  BY <3>3, <3>4
  <2>. QED  BY <2>1, <2>2, FoundElements
<1>. QED  BY <1>11, <1>12

LEMMA AlwaysAllSent == Spec => []AllSent
<1>1. Init => AllSent
  BY DEF Init, AllSent, FoundInOrder
<1>2. ASSUME Typed, Placed, Ordered, AllSent, [Next]_vars
      PROVE  AllSent'
  <2>1. CASE Find
    BY <1>2, <2>1, FindOutcome, FindAllSent
  <2>2. CASE Rewind
    <3>1. rewinds' # 0
      BY <1>2, <2>2, PacketFinderAssumption DEF Rewind, Typed
    <3>. QED  BY <3>1 DEF AllSent
  <2>3. CASE UNCHANGED vars
    BY <1>2, <2>3 DEF vars, AllSent, FoundInOrder, Sent, Is, Messages, NoFalsePackets
  <2>. QED  BY <1>2, <2>1, <2>2, <2>3 DEF Next
<1>. QED  BY <1>1, <1>2, AlwaysTyped, AlwaysPlaced, AlwaysOrdered, PTL DEF Spec

(* In the first reading of a stream in which nothing but its messages looks    *)
(* like a packet with a checksum, every such packet that findPacket returns is *)
(* one of these messages, whole, in the order of the stream and once.          *)
THEOREM SentOnly == Spec => [](NoFalsePackets /\ rewinds = 0 => FoundWereSent)
<1>1. Typed /\ Placed /\ AllSent => (NoFalsePackets /\ rewinds = 0 => FoundWereSent)
  BY DEF AllSent, FoundWereSent, Sent
<1>. QED  BY <1>1, AlwaysTyped, AlwaysPlaced, AlwaysAllSent, PTL

===============================================================================
