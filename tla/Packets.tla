------------------------------ MODULE Packets ------------------------------
(***************************************************************************)
(* MeshCore's RF packets and channel texts (meshcore/packet.go, channel.go *)
(* and BuildChannelPacket of session.go), byte for byte but for the        *)
(* cryptography: a cipher text is <<key, plain text>>, a code over a       *)
(* payload is the tuple of what goes into it.  Keys, hashes and codes that *)
(* differ here may still collide on the wire, where they have few bytes.   *)
(***************************************************************************)
EXTENDS Integers, Sequences, SequencesExt

MaxPacketPayload == 184
MaxPathSize == 64
MaxRawPacketLen == 174
MaxHops == 63

TransportFlood == 0
Flood == 1
Direct == 2
TransportDirect == 3
GrpTxt == 5 \* PayloadTypeGrpTxt

\* What a builder and what a parser return with their error.
NoBytes == <<>>
Error == [error |-> TRUE]

HasTransportCodes(route) == route \in {TransportFlood, TransportDirect}

\* A mutant of Build: the hop count takes the place of the path's bytes.
BuildByHops(p) ==
    LET size == IF p.hashSize = 0 THEN 1 ELSE p.hashSize
        hops == Len(p.path) \div size
    IN  <<p.route + 4 * p.type + 64 * p.version>>
        \o (IF HasTransportCodes(p.route) THEN p.codes ELSE <<>>)
        \o <<64 * (size - 1) + hops>> \o SubSeq(p.path, 1, hops) \o p.payload

\* BuildPacket: header, transport codes, hash size and hop count, path, payload.
Build(p) ==
    LET size == IF p.hashSize = 0 THEN 1 ELSE p.hashSize
        hops == Len(p.path) \div size
        codes == HasTransportCodes(p.route)
    IN  IF \/ size \notin 1..4 \/ Len(p.path) % size # 0
           \/ hops > MaxHops \/ Len(p.path) > MaxPathSize
           \/ Len(p.payload) > MaxPacketPayload
           \/ codes /\ Len(p.codes) # 4
        THEN NoBytes
        ELSE <<p.route + 4 * p.type + 64 * p.version>>
             \o (IF codes THEN p.codes ELSE <<>>)
             \o <<64 * (size - 1) + hops>> \o p.path \o p.payload

\* ParsePacket.  A path may be longer here than BuildPacket allows.
Parse(raw) ==
    LET route == raw[1] % 4
        off == IF HasTransportCodes(route) THEN 5 ELSE 1
        size == (raw[off + 1] \div 64) + 1
        path == off + 1 + (raw[off + 1] % 64) * size
    IN  IF Len(raw) < 2 \/ Len(raw) <= off \/ Len(raw) < path THEN Error
        ELSE [route |-> route, type |-> (raw[1] \div 4) % 16, version |-> raw[1] \div 64,
              codes |-> SubSeq(raw, 2, off), path |-> SubSeq(raw, off + 2, path),
              hashSize |-> size, payload |-> SubSeq(raw, path + 1, Len(raw))]

\* Hash: what identifies a packet whatever way it took.
Hash(p) == <<p.type, p.payload>>

\* Hops: the repeaters that relayed this copy, in their order.
Hops(p) ==
    IF Len(p.path) % p.hashSize # 0 THEN <<>>
    ELSE [i \in 1..(Len(p.path) \div p.hashSize) |->
             SubSeq(p.path, (i - 1) * p.hashSize + 1, i * p.hashSize)]

\* CalcTransportCode for the key of a scope, packed by EncodeTransportCodes.
TransportCodes(scope, p) == <<<<scope, p.type, p.payload>>, "high", 0, 0>>

\* MatchScope: the first of the scopes whose code the packet carries, in the first two
\* of its four bytes.
MatchScope(p, scopes) ==
    IF ~HasTransportCodes(p.route) THEN 0
    ELSE LET matches == {i \in 1..Len(scopes) :
                            \A b \in 1..2 : TransportCodes(scopes[i], p)[b] = p.codes[b]}
         IN  IF matches = {} THEN 0 ELSE Min(matches)

\* A repeater passes a packet on with its hash appended to the path.
Relayed(raw, hop) ==
    LET p == Parse(raw) IN Build([p EXCEPT !.path = @ \o SubSeq(hop, 1, p.hashSize)])

-----------------------------------------------------------------------------
(* Channel texts. *)

Zeros(n) == [i \in 1..n |-> 0]

\* A mutant of Padded: the blocks are counted without timestamp and flags.
PaddedShort(n) == ((n + 15) \div 16) * 16

\* The bytes of the blocks that hold timestamp, flags and a text of n bytes.
Padded(n) == ((5 + n + 15) \div 16) * 16

\* BuildGroupTextPayload: channel hash, MAC of the cipher text, cipher text.
GroupText(key, timestamp, text) ==
    LET plain == <<timestamp, 0, 0, 0, 0>> \o text
        padded == SubSeq(plain \o Zeros(16), 1, Padded(Len(text)))
        cipher == [i \in 1..Len(padded) |-> <<key, padded[i]>>]
    IN  <<<<"hash", key>>, <<"mac", key, cipher>>, "mac2">> \o cipher

\* DecryptGroupText: the text ends at the first zero.
Decrypt(key, payload) ==
    LET cipher == SubSeq(payload, 4, Len(payload))
        plain == [i \in 1..Len(cipher) |-> cipher[i][2]]
        zeros == {i \in 6..Len(plain) : plain[i] = 0}
        end == IF zeros = {} THEN Len(plain) ELSE Min(zeros) - 1
    IN  IF Len(payload) < 19 \/ Len(cipher) % 16 # 0 \/ Len(cipher) > 4096 THEN Error
        ELSE IF payload[2] # <<"mac", key, cipher>> THEN Error
        ELSE [timestamp |-> plain[1], text |-> SubSeq(plain, 6, end)]

\* BuildChannelPacket: an unscoped flood, or one with the scope's code.
ChannelPacket(key, hashSize, scope, text, timestamp) ==
    LET p == [route |-> Flood, type |-> GrpTxt, version |-> 0, codes |-> <<>>,
              path |-> <<>>, hashSize |-> hashSize,
              payload |-> GroupText(key, timestamp, text)]
    IN  IF scope = "" THEN p
        ELSE [p EXCEPT !.route = TransportFlood, !.codes = TransportCodes(scope, p)]

\* The frame CMD_SEND_RAW_PACKET, which holds packets of limited length.
Sendable(raw) == raw # NoBytes /\ Len(raw) <= MaxRawPacketLen

-----------------------------------------------------------------------------

\* BuildPacket, ParsePacket: what was built is read back, every field of it, for every
\* route, hash size and path that can be written.
RoundTrip(p) ==
    LET raw == Build(p) IN
    raw # NoBytes =>
        Parse(raw) = [route |-> p.route, type |-> p.type, version |-> p.version,
                      codes |-> IF HasTransportCodes(p.route) THEN p.codes ELSE <<>>,
                      path |-> p.path, hashSize |-> IF p.hashSize = 0 THEN 1 ELSE p.hashSize,
                      payload |-> p.payload]

\* ParsePacket: bytes that are taken for a packet are those of the packet read from
\* them: none of them is passed over, none belongs to two fields.
RawKept(raw) ==
    LET p == Parse(raw) IN
    p # Error /\ Len(p.path) <= MaxPathSize /\ Len(p.payload) <= MaxPacketPayload =>
        Build(p) = raw

\* What the first k of the repeaters hops make of raw.
RelayedBy(raw, hops, k) ==
    LET copy[i \in 0..k] == IF i = 0 THEN raw ELSE Relayed(copy[i - 1], hops[i]) IN copy[k]

\* trackDelivery, observeOwnCopy, maybeScopeNotice: however many repeaters relayed a
\* message of ours, the copy has the hash of the packet sent, names the repeaters in
\* their order, carries its scope and no other, and reads as the text sent, with the
\* channel's key alone.
CopiesRecognised(key, size, scope, text, timestamp, hops) ==
    LET sent == ChannelPacket(key, size, scope, text, timestamp) IN
    \A k \in 0..Len(hops) :
        LET copy == Parse(RelayedBy(Build(sent), hops, k)) IN
        /\ Hash(copy) = Hash(sent)
        /\ Hops(copy) = [i \in 1..k |-> SubSeq(hops[i], 1, size)]
        /\ MatchScope(copy, <<"other", "scope">>) = (IF scope = "scope" THEN 2 ELSE 0)
        /\ Decrypt(key, copy.payload) = [timestamp |-> timestamp, text |-> text]
        /\ Decrypt("another key", copy.payload) = Error
=============================================================================
