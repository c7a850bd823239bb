------------------------------- MODULE Frames -------------------------------
(***************************************************************************)
(* The frame readers of the two radios' TCP streams (meshcore/transport.go *)
(* and meshtastic/transport.go), byte by byte: they look for the start of  *)
(* a frame, read a length and then that many bytes.  Between two frames    *)
(* anything may be on the line - a boot banner, debug text, the padding of *)
(* a keep-alive - and the connection may break anywhere.                   *)
(*                                                                         *)
(* The radio writes whole frames one after the other; what the reader has  *)
(* not looked at yet plays no part, so a byte is written and read in one   *)
(* step.                                                                   *)
(***************************************************************************)
EXTENDS Integers, Sequences

CONSTANTS
    Frames,    \* the frames a radio may write, sequences of bytes
    Strays,    \* bytes that may be on the line between two frames
    MaxFrames, \* bound: frames on one connection
    MaxStrays, \* bound: stray bytes on one connection
    MaxBreaks  \* bound: connections that break

Byte == 0..255

Marker == 62          \* frameMarkerFromRadio
Start1 == 148         \* start1
Start2 == 195         \* start2
MaxFrameLength == 1024 \* maxFrameLength
PacketMTU == 512      \* packetMTU

Protocols == {"meshcore", "meshtastic"}

VARIABLES
    proto,  \* whose stream it is
    mode,   \* where readFrame stands: scan, second, length or body
    header, \* the bytes of the length read so far
    need,   \* length
    body,   \* the bytes of the body read so far
    read,   \* frames readFrame has returned on this connection
    frame,  \* the frame the radio is writing
    pos,    \* bytes of it that are written; 0 between two frames
    sent,   \* frames the radio has written on this connection
    strays, \* stray bytes on this connection
    tail,   \* the last byte was a stray start1
    clean,  \* no stray bytes looked like the start of a frame
    aligned, \* the reader was looking for a start when the frame began
    breaks  \* connections that broke

reader == <<mode, header, need, body, read>>
vars == <<proto, reader, frame, pos, sent, strays, tail, clean, aligned, breaks>>

\* A frame the protocol can carry: encodeFrame refuses what does not fit.
Fits(p, f) ==
    \/ p = "meshcore" /\ Len(f) > 0 /\ Len(f) <= MaxFrameLength
    \/ p = "meshtastic" /\ Len(f) <= PacketMTU

ASSUME FramesAssumption ==
    /\ Frames \subseteq Seq(Byte) /\ Strays \subseteq Byte
    /\ MaxFrames \in Nat /\ MaxStrays \in Nat /\ MaxBreaks \in Nat

-----------------------------------------------------------------------------

Overhead(p) == IF p = "meshcore" THEN 3 ELSE 4

\* The i-th byte on the line of frame f: start, length, bytes.
Encoded(p, f, i) ==
    IF p = "meshcore"
    THEN CASE i = 1 -> Marker
           [] i = 2 -> Len(f) % 256
           [] i = 3 -> Len(f) \div 256
           [] OTHER -> f[i - 3]
    ELSE CASE i = 1 -> Start1
           [] i = 2 -> Start2
           [] i = 3 -> Len(f) \div 256
           [] i = 4 -> Len(f) % 256
           [] OTHER -> f[i - 4]

Init ==
    /\ proto \in Protocols
    /\ mode = "scan" /\ header = <<>> /\ need = 0 /\ body = <<>> /\ read = <<>>
    /\ frame = <<>> /\ pos = 0 /\ sent = <<>>
    /\ strays = 0 /\ tail = FALSE /\ clean = TRUE /\ aligned = TRUE
    /\ breaks = 0

-----------------------------------------------------------------------------
(* The readers, one byte b at a time. *)

Scan(b) ==
    /\ mode = "scan"
    /\ mode' = CASE proto = "meshcore" /\ b = Marker -> "length"
                 [] proto = "meshtastic" /\ b = Start1 -> "second"
                 [] OTHER -> "scan"
    /\ UNCHANGED <<header, need, body, read>>

\* A mutant of Second: what was no header is skipped with its second byte.
SecondSkips(b) ==
    /\ mode = "second"
    /\ mode' = IF b = Start2 THEN "length" ELSE "scan"
    /\ UNCHANGED <<header, need, body, read>>

\* The byte after a start1.  UnreadByte: another start1 is looked at again.
Second(b) ==
    /\ mode = "second"
    /\ mode' = CASE b = Start2 -> "length"
                 [] b = Start1 -> "second"
                 [] OTHER -> "scan"
    /\ UNCHANGED <<header, need, body, read>>

\* The length, little-endian in one protocol and big-endian in the other.
U16(p, b1, b2) == IF p = "meshcore" THEN b1 + 256 * b2 ELSE 256 * b1 + b2

\* A length no frame has: this was not the start of one.
Implausible(p, length) ==
    IF p = "meshcore" THEN length = 0 \/ length > MaxFrameLength ELSE length > PacketMTU

\* The two bytes of the length.  After an implausible one the scan goes on
\* behind them; an empty frame is complete at once.
Length(b) ==
    /\ mode = "length"
    /\ IF header = <<>>
       THEN header' = <<b>> /\ UNCHANGED <<mode, need, read>>
       ELSE LET length == U16(proto, header[1], b) IN
            /\ header' = <<>>
            /\ IF Implausible(proto, length) \/ length = 0
               THEN /\ mode' = "scan" /\ UNCHANGED need
                    /\ read' = IF Implausible(proto, length) THEN read ELSE Append(read, <<>>)
               ELSE mode' = "body" /\ need' = length /\ UNCHANGED read
    /\ UNCHANGED body

Body(b) ==
    /\ mode = "body"
    /\ IF Len(body) + 1 = need
       THEN mode' = "scan" /\ body' = <<>> /\ need' = 0 /\ read' = Append(read, Append(body, b))
       ELSE body' = Append(body, b) /\ UNCHANGED <<mode, need, read>>
    /\ UNCHANGED header

ReadByte(b) == Scan(b) \/ Second(b) \/ Length(b) \/ Body(b)

-----------------------------------------------------------------------------
(* The line. *)

\* The first byte of a frame.
BeginFrame(f) ==
    /\ pos = 0 /\ Len(sent) < MaxFrames
    /\ Fits(proto, f)
    /\ frame' = f /\ pos' = 1
    /\ aligned' = (mode \in {"scan", "second"}) /\ tail' = FALSE
    /\ ReadByte(Encoded(proto, f, 1))
    /\ UNCHANGED <<proto, sent, strays, clean, breaks>>

\* The next byte of the frame, perhaps its last.
NextByte ==
    /\ pos > 0
    /\ ReadByte(Encoded(proto, frame, pos + 1))
    /\ IF pos + 1 = Overhead(proto) + Len(frame)
       THEN pos' = 0 /\ frame' = <<>> /\ sent' = Append(sent, frame)
       ELSE pos' = pos + 1 /\ UNCHANGED <<frame, sent>>
    /\ UNCHANGED <<proto, strays, tail, clean, aligned, breaks>>

\* A byte that belongs to no frame.
Stray(b) ==
    /\ pos = 0 /\ strays < MaxStrays
    /\ strays' = strays + 1
    /\ tail' = (proto = "meshtastic" /\ b = Start1)
    /\ clean' = (clean /\ IF proto = "meshcore" THEN b # Marker ELSE ~(tail /\ b = Start2))
    /\ ReadByte(b)
    /\ UNCHANGED <<proto, frame, pos, sent, aligned, breaks>>

\* A mutant of Reconnect: the reader goes on where it was.
ReconnectSameReader ==
    /\ breaks < MaxBreaks
    /\ breaks' = breaks + 1
    /\ read' = <<>> /\ UNCHANGED <<mode, header, need, body>>
    /\ frame' = <<>> /\ pos' = 0 /\ sent' = <<>>
    /\ strays' = 0 /\ tail' = FALSE /\ clean' = TRUE /\ aligned' = TRUE
    /\ UNCHANGED proto

\* The connection breaks, perhaps within a frame, and the next session has a
\* reader of its own.
Reconnect ==
    /\ breaks < MaxBreaks
    /\ breaks' = breaks + 1
    /\ mode' = "scan" /\ header' = <<>> /\ need' = 0 /\ body' = <<>> /\ read' = <<>>
    /\ frame' = <<>> /\ pos' = 0 /\ sent' = <<>>
    /\ strays' = 0 /\ tail' = FALSE /\ clean' = TRUE /\ aligned' = TRUE
    /\ UNCHANGED proto

Next ==
    \/ \E f \in Frames : BeginFrame(f)
    \/ NextByte
    \/ \E b \in Strays : Stray(b)
    \/ Reconnect

Spec == Init /\ [][Next]_vars

-----------------------------------------------------------------------------

TypeOK ==
    /\ proto \in Protocols
    /\ mode \in {"scan", "second", "length", "body"}
    /\ header \in Seq(Byte) /\ Len(header) <= 1
    /\ need \in 0..MaxFrameLength
    /\ body \in Seq(Byte) /\ read \in Seq(Seq(Byte))
    /\ frame \in Seq(Byte) /\ (pos > 0 => Fits(proto, frame))
    /\ pos \in Nat /\ (pos > 0 => pos < Overhead(proto) + Len(frame))
    /\ sent \in Seq(Seq(Byte))
    /\ strays \in 0..MaxStrays /\ breaks \in 0..MaxBreaks
    /\ tail \in BOOLEAN /\ clean \in BOOLEAN /\ aligned \in BOOLEAN

\* ReadFrame, readFrame: as long as no stray bytes look like the start of a
\* frame - a '>' on one line, a start1 followed by a start2 on the other - the
\* frames read are the frames written, whatever else is on the line before and
\* between them, and no part of a frame that was cut off is taken for one.
CleanStreamRead == clean => read = sent

\* Whatever was on the line before, a frame that begins while the reader looks
\* for a start is read whole: what a false start costs ends with the bytes
\* its length speaks for.
FrameReadInSync ==
    [][sent' = Append(sent, frame) /\ aligned => read' = Append(read, frame)]_vars

\* Meant to be refuted (NewFrameReader: "resyncing on its marker byte so boot
\* banners or stray bytes are skipped safely"): whatever is on the line,
\* a frame is not lost.
StraysSkipped == Len(read) >= Len(sent)
=============================================================================
