------------------------------ MODULE MCCodec ------------------------------
(***************************************************************************)
(* Instances of the parts that keep no state between two calls - Chunks,   *)
(* Packets and Config - over tables of inputs, beside the frame readers    *)
(* that all bytes of the radios come through.  A state is either one of    *)
(* the readers', with sample = Stream, or one input.                       *)
(***************************************************************************)
EXTENDS Frames, Chunks, Packets, Config

CONSTANTS
    Padding,  \* is there space around ids and URLs as they are written? a set of answers
    TextBytes \* the bytes messages are made of

VARIABLE sample

Stream == [part |-> "stream"]

Fill(n, b) == [i \in 1..n |-> b]

\* Frames with every byte the readers look for: the length of one is a marker and a
\* start1, that of another has two bytes.
MarkedFrames == {<<>>, <<Marker>>, Fill(Marker, Start1), Fill(258, Start2)}

-----------------------------------------------------------------------------
(* Texts as the sizes of their runes: all alike, or wide ones at the end. *)

Alike(lengths, sizes) == {Fill(n, w) : n \in lengths, w \in sizes}
WideEnd == {Fill(f, 1) \o t : f \in {0, 4, 40}, t \in UNION {[1..k -> {1, 3, 4}] : k \in 0..4}}

\* The bytes of a name beyond which no chunk goes into a frame: "name: " and the text are
\* at most 155 there.
LongestName == 153

ChunkSamples ==
    [name : {1, 3, 8, 13}, max : {14, 20}, runes : Alike(0..60, {1, 3, 4}) \cup WideEnd]
    \cup [name : {20, 128, 138, 148, 149, LongestName, LongestName + 1, 169, 170, 320},
             max : {150, 200}, runes : Alike({0, 1, 40, 60}, {1, 3, 4})]

-----------------------------------------------------------------------------

PacketSamples ==
    [route : 0..3, type : {0, GrpTxt, 15}, version : {0, 3}, codes : {<<9, 8, 7, 6>>},
     path : {Fill(n, 200) : n \in {0, 2, 3, 12, 60, 63, 64}}, hashSize : 0..4,
     payload : {Fill(n, 7) : n \in {0, 1, MaxPacketPayload}}]

RawSamples == UNION {[1..n -> {0, 1, 66, 129, 197}] : n \in 2..5}

\* Texts that end within a block, and at the end of one.
TextLengths == {0, 1, 10, 11, 12, 26, 27, 150}
Texts == {Fill(n, b) : n \in TextLengths, b \in TextBytes}

\* The hashes of n repeaters.
Repeaters(n) == [i \in 1..n |-> <<i, 2 * i, 0, 255>>]

Messages ==
    [key : {"k"}, size : 1..4, scope : {"", "scope", "third"}, text : Texts, timestamp : {0, 5},
     hops : {Repeaters(n) : n \in {0, 1, 16}}]

-----------------------------------------------------------------------------

Written(id) == [id |-> id, padded |-> FALSE]
Ids == [id : {"", "1"}, padded : Padding]
Urls == {"none", "ok", "bad"} \cup {u \in {"padded"} : TRUE \in Padding}

\* A bridge with every choice, and pairs of bridges that meet in a name or a channel.
OneBridge ==
    {<<b>> :
        b \in [enabled : {TRUE}, name : {"a"}, mc : {"off", "ok", "broken"},
               mt : {"off", "named", "blank"}, id : Ids,
               url : Urls, readOnly : BOOLEAN, rx : SUBSET {"s"},
               notice : BOOLEAN, complain : SUBSET {"s", "t"}]}

Plain ==
    {b \in [enabled : BOOLEAN, name : {"a", "b"}, mc : {"off", "ok"}, mt : {"off", "named"},
            id : {Written(d) : d \in {"", "1", "2"}}, url : {"none", "ok"}, readOnly : {FALSE},
            rx : {{}}, notice : {FALSE}, complain : {{}}] :
        HasChannel(b) <=> HasWebhook(b)}

TwoBridges == {<<b1, b2>> : b1 \in Plain, b2 \in Plain}

Settings(rxs, bridges) ==
    [mcHost : BOOLEAN, mtHost : BOOLEAN, token : BOOLEAN, rx : rxs, bridges : bridges]

-----------------------------------------------------------------------------

Sampled(part, inputs) == \E s \in inputs : sample = [part |-> part, of |-> s]

CodecInit ==
    \/ sample = [part |-> "stream"] /\ Init
    \/ /\ \/ Sampled("text", ChunkSamples)
          \/ Sampled("packet", PacketSamples)
          \/ Sampled("raw", RawSamples)
          \/ Sampled("message", Messages)
          \/ Sampled("config", Settings(SUBSET {"t"}, OneBridge))
          \/ Sampled("config", Settings({{}}, TwoBridges))
       /\ Init /\ proto = "meshcore"

CodecNext == sample.part = "stream" /\ Next /\ UNCHANGED sample

CodecSpec == CodecInit /\ [][CodecNext]_<<vars, sample>>

-----------------------------------------------------------------------------
(* The properties of the pure parts, of the sample at hand. *)

\* composeChunks: CarriesAll, of every text sampled.
ChunksCarryAll ==
    sample.part = "text" => CarriesAll(sample.of.name, sample.of.runes, sample.of.max)

\* composeChunks: FitsTight, of every text sampled.
ChunksFitTight ==
    sample.part = "text" => FitsTight(sample.of.name, sample.of.runes, sample.of.max)

\* BuildPacket, ParsePacket: RoundTrip and RawKept, of every packet and raw bytes sampled.
PacketsReadBack ==
    /\ sample.part = "packet" => RoundTrip(sample.of)
    /\ sample.part = "raw" => RawKept(sample.of)

\* BuildChannelPacket, DecryptGroupText: CopiesRecognised, of every message sampled.
MessagesRecognised ==
    sample.part = "message" =>
        LET m == sample.of IN
        CopiesRecognised(m.key, m.size, m.scope, m.text, m.timestamp, m.hops)

\* composeChunks, BuildPacket, BuildSendRawPacketFrame: a chunk made for
\* meshcoreMaxChunkBytes makes a packet the radio's frame can take, scoped or not, also where
\* a wide rune takes it beyond that limit, exactly if the name has no more than LongestName
\* bytes.  composeChunks does not shorten a name: with a longer one every message is lost.
ChunksSendable ==
    sample.part = "text" /\ sample.of.max = 150 =>
        LET c == ComposeChunks(sample.of.name, sample.of.runes, sample.of.max) IN
        \A i \in 1..Len(c.chunks), size \in {2, 3}, scope \in {"", "scope"} :
            Sendable(Build(ChannelPacket("k", size, scope, Fill(Size(c.chunks[i]), 65), 0)))
                <=> sample.of.name <= LongestName

\* Both hold: chunks have the size they should, and go into a packet as far as names let
\* them.
ChunksFit == ChunksFitTight /\ ChunksSendable

\* Validate, New, main: Serves, of every configuration sampled.
AcceptedIsServed == sample.part = "config" => Serves(sample.of)
=============================================================================
