----------------------------- MODULE CodecProofs -----------------------------
(***************************************************************************)
(* What MCCodec checks over tables of inputs, for every input.             *)
(*                                                                         *)
(* Frames: whatever frames and stray bytes come, and wherever connections  *)
(* break, while nothing looks like a false start, the frames read are the  *)
(* frames written; and a frame that begins while the reader looks for a    *)
(* start is read whole, whatever went before.  The invariant follows the   *)
(* reader through the frame: at each byte of one that it is in step with,  *)
(* it is at the same place, with the same bytes.                           *)
(*                                                                         *)
(* Chunks: every text is carried whole and in order, or cut at a rune when *)
(* fifty pieces need not hold it; every chunk fits and goes into a packet. *)
(* The proof follows the scan of splitRunesByByteLen rune by rune: where   *)
(* the pieces begin, that each is full, and that more room never makes     *)
(* more of them.                                                           *)
(*                                                                         *)
(* Packets: every packet is read back as it was built, and all bytes taken *)
(* for a packet are those of the packet read from them; every copy of a    *)
(* message, relayed however often, is told for what it is.                 *)
(*                                                                         *)
(* Configurations: every bridge of an accepted one works.                  *)
(*                                                                         *)
(* Induction comes from counting: a set of numbers that has 0 and no last  *)
(* member below n would be mapped by the successor one-to-one into itself  *)
(* without 0, and a finite set has no room for that.  A recursive function *)
(* is then the one that its equations determine.                           *)
(***************************************************************************)
EXTENDS MCCodec, SequenceTheorems, FiniteSetTheorems, TLAPS

-----------------------------------------------------------------------------
(* Frames. *)

\* Between two frames the reader looks for a start, and has half of one only if
\* the last byte was one.
Between == clean /\ pos = 0 =>
    /\ mode \in {"scan", "second"} /\ (mode = "second" => tail /\ proto = "meshtastic")

\* Where the reader is within a frame it is in step with.
InMeshcore ==
    /\ pos \in {1, 2} => mode = "length"
    /\ pos = 1 => header = <<>>
    /\ pos = 2 => header = <<Len(frame) % 256>>
    /\ pos >= 3 => mode = "body" /\ header = <<>> /\ need = Len(frame)
                   /\ body = SubSeq(frame, 1, pos - 3)
    /\ pos < 3 => body = <<>>

InMeshtastic ==
    /\ pos = 1 => mode = "second"
    /\ pos \in {2, 3} => mode = "length"
    /\ pos <= 2 => header = <<>>
    /\ pos = 3 => header = <<Len(frame) \div 256>>
    /\ pos >= 4 => mode = "body" /\ header = <<>> /\ need = Len(frame)
                   /\ body = SubSeq(frame, 1, pos - 4)
    /\ pos < 4 => body = <<>>

InStep == pos > 0 /\ aligned => IF proto = "meshcore" THEN InMeshcore ELSE InMeshtastic

\* The reader holds bytes of a length or of a body, and not of what it looks for next.
Fresh ==
    /\ mode # "length" => header = <<>>
    /\ mode # "body" => body = <<>>

\* No false start has put the reader out of step.
Kept == clean => read = sent /\ (pos > 0 => aligned)

\* The frame that is being written.
Writing ==
    /\ proto \in Protocols /\ mode \in {"scan", "second", "length", "body"}
    /\ proto = "meshcore" => mode # "second"
    /\ body \in Seq(Byte)
    /\ pos \in Nat /\ frame \in Seq(Byte) /\ sent \in Seq(Seq(Byte)) /\ read \in Seq(Seq(Byte))
    /\ pos > 0 => Fits(proto, frame) /\ pos < Overhead(proto) + Len(frame)

FrameInv == Writing /\ Between /\ InStep /\ Kept /\ Fresh

-----------------------------------------------------------------------------

\* A sequence with one more element.
LEMMA Appended ==
    ASSUME NEW S, NEW s \in Seq(S), NEW e \in S
    PROVE  Append(s, e) \in Seq(S) /\ Append(s, e) # s
BY Len(Append(s, e)) = Len(s) + 1, Len(s) \in Nat

\* The two bytes of a length.
LEMMA LengthBytes ==
    ASSUME NEW n \in Nat, n <= MaxFrameLength
    PROVE  n % 256 \in Byte /\ n \div 256 \in Byte /\ (n % 256) + 256 * (n \div 256) = n
BY SMT DEF MaxFrameLength, Byte

\* The beginnings of a sequence, one longer than the other.
LEMMA Growing ==
    ASSUME NEW f \in Seq(Byte), NEW k \in 0..(Len(f) - 1)
    PROVE  /\ Append(SubSeq(f, 1, k), f[k + 1]) = SubSeq(f, 1, k + 1)
           /\ Len(SubSeq(f, 1, k)) = k /\ SubSeq(f, 1, k) \in Seq(Byte)
           /\ f[k + 1] \in Byte
           /\ k + 1 = Len(f) => SubSeq(f, 1, k + 1) = f
           /\ SubSeq(f, 1, 0) = <<>>
<1>0. Len(f) \in Nat /\ \A i \in 1..Len(f) : f[i] \in Byte
  BY ElementOfSeq, LenProperties
<1>1. /\ SubSeq(f, 1, k) \in Seq(Byte) /\ Len(SubSeq(f, 1, k)) = k
      /\ \A i \in 1..k : SubSeq(f, 1, k)[i] = f[i]
  <2>1. \A i \in 1..k : f[i] \in Byte
    BY <1>0
  <2>2. QED BY <2>1, SubSeqProperties
<1>2. /\ SubSeq(f, 1, k + 1) \in Seq(Byte) /\ Len(SubSeq(f, 1, k + 1)) = k + 1
      /\ \A i \in 1..(k + 1) : SubSeq(f, 1, k + 1)[i] = f[i]
  <2>1. \A i \in 1..(k + 1) : f[i] \in Byte
    BY <1>0
  <2>2. QED BY <2>1, SubSeqProperties
<1>3. f[k + 1] \in Byte
  BY <1>0
<1>4. Append(SubSeq(f, 1, k), f[k + 1]) = SubSeq(f, 1, k + 1)
  <2>1. /\ Append(SubSeq(f, 1, k), f[k + 1]) \in Seq(Byte)
        /\ Len(Append(SubSeq(f, 1, k), f[k + 1])) = k + 1
        /\ \A i \in 1..(k + 1) : Append(SubSeq(f, 1, k), f[k + 1])[i] = f[i]
    BY <1>1, <1>3
  <2>2. QED BY <2>1, <1>2, SeqEqual
<1>5. k + 1 = Len(f) => SubSeq(f, 1, k + 1) = f
  BY SubSeqFull
<1>6. SubSeq(f, 1, 0) = <<>>
  BY SubSeqEmpty
<1>7. QED BY <1>1, <1>3, <1>4, <1>5, <1>6

\* The length of a frame fits into its two bytes.
LEMMA FrameLength ==
    ASSUME NEW p \in Protocols, NEW f \in Seq(Byte), Fits(p, f)
    PROVE  Len(f) \in Nat /\ Len(f) <= MaxFrameLength
<1>1. Len(f) \in Nat
  BY LenProperties
<1>2. QED BY <1>1 DEF Fits, MaxFrameLength, PacketMTU

\* What is written on the line is bytes.
LEMMA EncodedBytes ==
    ASSUME NEW p \in Protocols, NEW f \in Seq(Byte), Fits(p, f),
           NEW i \in 1..(Overhead(p) + Len(f))
    PROVE  Encoded(p, f, i) \in Byte
<1>1. Len(f) \in Nat /\ Len(f) <= MaxFrameLength
  BY FrameLength
<1>2. Len(f) % 256 \in Byte /\ Len(f) \div 256 \in Byte
  BY <1>1, LengthBytes
<1>3. \A j \in 1..Len(f) : f[j] \in Byte
  BY ElementOfSeq
<1>4. CASE p = "meshcore"
  <2>1. i > 3 => f[i - 3] \in Byte
    BY <1>1, <1>3, <1>4 DEF Overhead
  <2>2. i \in 1..(3 + Len(f))
    BY <1>1, <1>4 DEF Overhead
  <2>3. Encoded(p, f, i) = IF i = 1 THEN Marker ELSE IF i = 2 THEN Len(f) % 256
                           ELSE IF i = 3 THEN Len(f) \div 256 ELSE f[i - 3]
    BY <1>4 DEF Encoded
  <2>4. QED BY <2>1, <2>2, <2>3, <1>1, <1>2 DEF Marker, Byte
<1>5. CASE p = "meshtastic"
  <2>1. i > 4 => f[i - 4] \in Byte
    BY <1>1, <1>3, <1>5 DEF Overhead
  <2>2. i \in 1..(4 + Len(f))
    BY <1>1, <1>5 DEF Overhead
  <2>3. Encoded(p, f, i) = IF i = 1 THEN Start1 ELSE IF i = 2 THEN Start2
                           ELSE IF i = 3 THEN Len(f) \div 256
                           ELSE IF i = 4 THEN Len(f) % 256 ELSE f[i - 4]
    BY <1>5 DEF Encoded, Protocols
  <2>4. QED BY <2>1, <2>2, <2>3, <1>1, <1>2 DEF Start1, Start2, Byte
<1>6. QED BY <1>4, <1>5 DEF Protocols

\* Whatever byte comes, the reader's variables keep their shape.
LEMMA ReadByteShape ==
    ASSUME Writing, Fresh, NEW b \in Byte, ReadByte(b), proto' = proto
    PROVE  /\ mode' \in {"scan", "second", "length", "body"}
           /\ proto = "meshcore" => mode' # "second"
           /\ body' \in Seq(Byte) /\ read' \in Seq(Seq(Byte))
           /\ Fresh'
<1>1. CASE Scan(b)
  BY <1>1 DEF Scan, Writing, Fresh
<1>2. CASE Second(b)
  BY <1>2 DEF Second, Writing, Fresh
<1>3. CASE Length(b)
  <2>1. read' = read \/ read' = Append(read, <<>>)
    BY <1>3 DEF Length
  <2>2. read' \in Seq(Seq(Byte))
    BY <2>1, EmptySeq, Appended DEF Writing
  <2>3. mode' = "length" \/ (mode' \in {"scan", "body"} /\ header' = <<>>)
    BY <1>3 DEF Length
  <2>4. mode = "length" /\ body' = body
    BY <1>3 DEF Length
  <2>5. QED BY <2>2, <2>3, <2>4 DEF Writing, Fresh
<1>4. CASE Body(b)
  <2>1. mode = "body" /\ header' = header /\ Append(body, b) \in Seq(Byte)
    BY <1>4 DEF Body, Writing
  <2>2. \/ mode' = "scan" /\ body' = <<>> /\ read' = Append(read, Append(body, b))
        \/ mode' = mode /\ read' = read /\ body' = Append(body, b)
    BY <1>4 DEF Body
  <2>3. read' \in Seq(Seq(Byte)) /\ body' \in Seq(Byte)
    BY <2>1, <2>2, EmptySeq, Appended DEF Writing
  <2>4. QED BY <2>1, <2>2, <2>3 DEF Writing, Fresh
<1>5. QED BY <1>1, <1>2, <1>3, <1>4 DEF ReadByte

-----------------------------------------------------------------------------
(* A reader in step with a frame reads the next byte of it. *)

\* A byte of a MeshCore frame leads on to the next, or completes the frame.
LEMMA NextOfMeshcore ==
    ASSUME FrameInv, NextByte, aligned, proto = "meshcore"
    PROVE  \/ pos' > 0 /\ InMeshcore' /\ read' = read
           \/ pos' = 0 /\ mode' = "scan" /\ read' = Append(read, frame)
<1> DEFINE n == Len(frame)
           b == Encoded(proto, frame, pos + 1)
<1>0. /\ pos \in Nat /\ pos > 0 /\ frame \in Seq(Byte) /\ Fits(proto, frame)
      /\ proto \in Protocols /\ InMeshcore /\ pos < 3 + n
  BY DEF NextByte, FrameInv, Writing, InStep, Overhead
<1>1. n \in Nat /\ n <= MaxFrameLength /\ n > 0
  BY <1>0, FrameLength DEF Fits
<1>2. /\ ReadByte(b)
      /\ IF pos + 1 = 3 + n THEN pos' = 0 /\ sent' = Append(sent, frame)
                           ELSE pos' = pos + 1 /\ frame' = frame
  BY DEF NextByte, Overhead
<1>3. CASE pos = 1
  <2>1. mode = "length" /\ header = <<>> /\ b = n % 256 /\ body = <<>>
    BY <1>0, <1>3 DEF InMeshcore, Encoded
  <2>2. header' = <<b>> /\ mode' = "length" /\ read' = read /\ body' = <<>>
    BY <1>2, <2>1 DEF ReadByte, Scan, Second, Length, Body
  <2>3. pos' = 2 /\ frame' = frame
    BY <1>1, <1>2, <1>3
  <2>4. QED BY <2>1, <2>2, <2>3 DEF InMeshcore
<1>4. CASE pos = 2
  <2>1. mode = "length" /\ header = <<n % 256>> /\ b = n \div 256 /\ body = <<>>
    BY <1>0, <1>4 DEF InMeshcore, Encoded
  <2>2. U16(proto, header[1], b) = n
    BY <1>1, <2>1, LengthBytes DEF U16
  <2>3. ~Implausible(proto, n) /\ n # 0 /\ header # <<>>
    <3>1. header # <<>>
      BY <2>1
    <3>2. ~Implausible(proto, n) /\ n # 0
      BY <1>1 DEF Implausible, MaxFrameLength
    <3>3. QED BY <3>1, <3>2
  <2>4. header' = <<>> /\ mode' = "body" /\ need' = n /\ read' = read /\ body' = <<>>
    BY <1>2, <2>1, <2>2, <2>3 DEF ReadByte, Scan, Second, Length, Body
  <2>5. pos' = 3 /\ frame' = frame
    BY <1>1, <1>2, <1>4
  <2>6. SubSeq(frame, 1, 0) = <<>>
    BY SubSeqEmpty
  <2>7. QED BY <2>4, <2>5, <2>6 DEF InMeshcore
<1>5. CASE pos >= 3
  <2> DEFINE k == pos - 3
  <2>1. /\ mode = "body" /\ header = <<>> /\ need = n /\ body = SubSeq(frame, 1, k)
        /\ b = frame[k + 1] /\ k \in 0..(n - 1)
    BY <1>0, <1>1, <1>5 DEF InMeshcore, Encoded
  <2>2. /\ Append(body, b) = SubSeq(frame, 1, k + 1) /\ Len(body) = k
        /\ k + 1 = n => SubSeq(frame, 1, k + 1) = frame
    BY <1>0, <2>1, Growing
  <2>3. /\ header' = <<>>
        /\ IF k + 1 = n THEN mode' = "scan" /\ read' = Append(read, SubSeq(frame, 1, k + 1))
                       ELSE mode' = "body" /\ need' = n /\ read' = read
                            /\ body' = SubSeq(frame, 1, k + 1)
    BY <1>2, <2>1, <2>2 DEF ReadByte, Scan, Second, Length, Body
  <2>4. CASE k + 1 = n
    BY <1>0, <1>1, <1>2, <2>2, <2>3, <2>4
  <2>5. CASE k + 1 # n
    <3>1. pos' = pos + 1 /\ frame' = frame /\ pos' - 3 = k + 1 /\ pos' > 3
      BY <1>0, <1>1, <1>2, <1>5, <2>5
    <3>2. QED BY <2>3, <2>5, <3>1 DEF InMeshcore
  <2>6. QED BY <2>4, <2>5
<1>6. QED BY <1>0, <1>3, <1>4, <1>5

\* A byte of a Meshtastic frame leads on to the next, or completes the frame.
LEMMA NextOfMeshtastic ==
    ASSUME FrameInv, NextByte, aligned, proto = "meshtastic"
    PROVE  \/ pos' > 0 /\ InMeshtastic' /\ read' = read
           \/ pos' = 0 /\ mode' = "scan" /\ read' = Append(read, frame)
<1> DEFINE n == Len(frame)
           b == Encoded(proto, frame, pos + 1)
<1>0. /\ pos \in Nat /\ pos > 0 /\ frame \in Seq(Byte) /\ Fits(proto, frame)
      /\ proto \in Protocols /\ InMeshtastic /\ pos < 4 + n
  BY DEF NextByte, FrameInv, Writing, InStep, Overhead
<1>1. n \in Nat /\ n <= MaxFrameLength /\ n <= PacketMTU
  BY <1>0, FrameLength DEF Fits
<1>2. /\ ReadByte(b)
      /\ IF pos + 1 = 4 + n THEN pos' = 0 /\ sent' = Append(sent, frame)
                           ELSE pos' = pos + 1 /\ frame' = frame
  BY DEF NextByte, Overhead
<1>3. CASE pos = 1
  <2>1. mode = "second" /\ header = <<>> /\ b = Start2 /\ body = <<>>
    BY <1>0, <1>3 DEF InMeshtastic, Encoded
  <2>2. header' = <<>> /\ mode' = "length" /\ read' = read /\ body' = <<>>
    <3>1. Second(Start2)
      BY <1>2, <2>1 DEF ReadByte, Scan, Length, Body
    <3>2. QED BY <2>1, <3>1 DEF Second, Start1, Start2
  <2>3. pos' = 2 /\ frame' = frame
    BY <1>1, <1>2, <1>3
  <2>4. QED BY <2>1, <2>2, <2>3 DEF InMeshtastic
<1>4. CASE pos = 2
  <2>1. mode = "length" /\ header = <<>> /\ b = n \div 256 /\ body = <<>>
    BY <1>0, <1>4 DEF InMeshtastic, Encoded
  <2>2. header' = <<b>> /\ mode' = "length" /\ read' = read /\ body' = <<>>
    BY <1>2, <2>1 DEF ReadByte, Scan, Second, Length, Body
  <2>3. pos' = 3 /\ frame' = frame
    BY <1>1, <1>2, <1>4
  <2>4. QED BY <2>1, <2>2, <2>3 DEF InMeshtastic
<1>5. CASE pos = 3
  <2>1. mode = "length" /\ header = <<n \div 256>> /\ b = n % 256 /\ body = <<>>
    BY <1>0, <1>5 DEF InMeshtastic, Encoded
  <2>2. U16(proto, header[1], b) = n
    BY <1>1, <2>1, LengthBytes DEF U16
  <2>3. ~Implausible(proto, n) /\ header # <<>>
    BY <1>1, <2>1 DEF Implausible, PacketMTU
  <2>4. /\ header' = <<>> /\ body' = <<>>
        /\ IF n = 0 THEN mode' = "scan" /\ read' = Append(read, <<>>)
                    ELSE mode' = "body" /\ need' = n /\ read' = read
    BY <1>2, <2>1, <2>2, <2>3 DEF ReadByte, Scan, Second, Length, Body
  <2>5. SubSeq(frame, 1, 0) = <<>>
    BY SubSeqEmpty
  <2>6. CASE n = 0
    <3>1. frame = <<>> /\ pos' = 0
      BY <1>0, <1>2, <1>5, <2>6, EmptySeq
    <3>2. QED BY <2>4, <2>6, <3>1
  <2>7. CASE n # 0
    <3>1. pos' = 4 /\ frame' = frame
      BY <1>1, <1>2, <1>5, <2>7
    <3>2. QED BY <2>4, <2>5, <2>7, <3>1 DEF InMeshtastic
  <2>8. QED BY <2>6, <2>7
<1>6. CASE pos >= 4
  <2> DEFINE k == pos - 4
  <2>1. /\ mode = "body" /\ header = <<>> /\ need = n /\ body = SubSeq(frame, 1, k)
        /\ b = frame[k + 1] /\ k \in 0..(n - 1)
    BY <1>0, <1>1, <1>6 DEF InMeshtastic, Encoded
  <2>2. /\ Append(body, b) = SubSeq(frame, 1, k + 1) /\ Len(body) = k
        /\ k + 1 = n => SubSeq(frame, 1, k + 1) = frame
    BY <1>0, <2>1, Growing
  <2>3. /\ header' = <<>>
        /\ IF k + 1 = n THEN mode' = "scan" /\ read' = Append(read, SubSeq(frame, 1, k + 1))
                       ELSE mode' = "body" /\ need' = n /\ read' = read
                            /\ body' = SubSeq(frame, 1, k + 1)
    BY <1>2, <2>1, <2>2 DEF ReadByte, Scan, Second, Length, Body
  <2>4. CASE k + 1 = n
    BY <1>0, <1>1, <1>2, <2>2, <2>3, <2>4
  <2>5. CASE k + 1 # n
    <3>1. pos' = pos + 1 /\ frame' = frame /\ pos' - 4 = k + 1 /\ pos' > 4
      BY <1>0, <1>1, <1>2, <1>6, <2>5
    <3>2. QED BY <2>3, <2>5, <3>1 DEF InMeshtastic
  <2>6. QED BY <2>4, <2>5
<1>7. QED BY <1>0, <1>3, <1>4, <1>5, <1>6

-----------------------------------------------------------------------------

\* The reader starts between two frames.
LEMMA FrameInvInit == Init => FrameInv
<1> SUFFICES ASSUME Init PROVE FrameInv
  OBVIOUS
<1>1. Writing
  BY EmptySeq DEF Init, Writing, Protocols
<1>2. QED BY <1>1 DEF Init, FrameInv, Between, InStep, Kept, Fresh

\* Every byte read and every glitch keeps the invariant.
LEMMA FrameInvStep == FrameInv /\ [Next]_vars => FrameInv'
<1> SUFFICES ASSUME FrameInv, [Next]_vars PROVE FrameInv'
  OBVIOUS
<1> USE DEF FrameInv
<1>1. ASSUME NEW f \in Frames, BeginFrame(f)
      PROVE  FrameInv'
  <2> DEFINE b == Encoded(proto, f, 1)
  <2>1. /\ pos = 0 /\ pos' = 1 /\ frame' = f /\ sent' = sent /\ clean' = clean
        /\ proto' = proto /\ aligned' = (mode \in {"scan", "second"}) /\ ReadByte(b)
        /\ f \in Seq(Byte) /\ Fits(proto, f) /\ proto \in Protocols
    BY <1>1, FramesAssumption DEF BeginFrame, Writing
  <2>2. Len(f) \in Nat /\ 1 \in 1..(Overhead(proto) + Len(f)) /\ 1 < Overhead(proto) + Len(f)
    BY <2>1, FrameLength DEF Overhead
  <2>3. b \in Byte
    BY <2>1, <2>2, EncodedBytes
  <2>4. Writing' /\ Fresh'
    BY <2>1, <2>2, <2>3, ReadByteShape DEF Writing
  <2>5. ASSUME aligned'
        PROVE  InStep' /\ read' = read
    <3>1. mode \in {"scan", "second"} /\ header = <<>> /\ body = <<>>
      BY <2>1, <2>5 DEF Fresh
    <3>2. CASE proto = "meshcore"
      <4>1. mode = "scan" /\ b = Marker
        BY <2>1, <3>1, <3>2 DEF Writing, Encoded
      <4>2. Scan(b)
        BY <2>1, <4>1 DEF ReadByte, Second, Length, Body
      <4>3. mode' = "length" /\ header' = <<>> /\ body' = <<>> /\ read' = read
        BY <3>1, <3>2, <4>1, <4>2 DEF Scan
      <4>4. QED BY <2>1, <3>2, <4>3 DEF InStep, InMeshcore
    <3>3. CASE proto = "meshtastic"
      <4>1. b = Start1
        BY <3>3 DEF Encoded
      <4>2. Scan(Start1) \/ Second(Start1)
        BY <2>1, <3>1, <4>1 DEF ReadByte, Length, Body
      <4>3. mode' = "second" /\ header' = <<>> /\ body' = <<>> /\ read' = read
        BY <3>1, <3>3, <4>2 DEF Scan, Second, Start1, Start2
      <4>4. QED BY <2>1, <3>3, <4>3 DEF InStep, InMeshtastic
    <3>4. QED BY <2>1, <3>2, <3>3 DEF Protocols
  <2>6. InStep'
    BY <2>5 DEF InStep
  <2>7. Kept'
    BY <2>1, <2>5 DEF Kept, Between
  <2>8. QED BY <2>1, <2>4, <2>6, <2>7 DEF Between
<1>2. ASSUME NextByte
      PROVE  FrameInv'
  <2> DEFINE b == Encoded(proto, frame, pos + 1)
  <2>1. /\ pos \in Nat /\ pos > 0 /\ frame \in Seq(Byte) /\ Fits(proto, frame)
        /\ pos < Overhead(proto) + Len(frame) /\ proto \in Protocols /\ ReadByte(b)
        /\ proto' = proto /\ clean' = clean /\ aligned' = aligned
        /\ IF pos + 1 = Overhead(proto) + Len(frame)
           THEN pos' = 0 /\ frame' = <<>> /\ sent' = Append(sent, frame)
           ELSE pos' = pos + 1 /\ frame' = frame /\ sent' = sent
    BY <1>2 DEF NextByte, Writing
  <2>2. Len(frame) \in Nat /\ Overhead(proto) \in Nat
    BY <2>1, FrameLength DEF Overhead
  <2>3. b \in Byte
    BY <2>1, <2>2, EncodedBytes
  <2>4. Writing' /\ Fresh'
    <3>1. /\ mode' \in {"scan", "second", "length", "body"}
          /\ proto = "meshcore" => mode' # "second"
          /\ body' \in Seq(Byte) /\ read' \in Seq(Seq(Byte)) /\ Fresh'
      BY <2>1, <2>3, ReadByteShape
    <3>2. /\ frame' \in Seq(Byte) /\ sent' \in Seq(Seq(Byte)) /\ pos' \in Nat
          /\ pos' > 0 => Fits(proto, frame') /\ pos' < Overhead(proto) + Len(frame')
      <4>1. sent \in Seq(Seq(Byte)) /\ Append(sent, frame) \in Seq(Seq(Byte)) /\ <<>> \in Seq(Byte)
        BY <2>1, EmptySeq, Appended DEF Writing
      <4>2. CASE pos + 1 = Overhead(proto) + Len(frame)
        <5>1. pos' = 0 /\ frame' = <<>> /\ sent' = Append(sent, frame)
          BY <2>1, <4>2
        <5>2. QED BY <4>1, <5>1
      <4>3. CASE pos + 1 # Overhead(proto) + Len(frame)
        BY <2>1, <2>2, <4>1, <4>3
      <4>4. QED BY <4>2, <4>3
    <3>3. QED BY <2>1, <3>1, <3>2 DEF Writing
  <2>5. ASSUME aligned
        PROVE  /\ InStep' /\ (pos' = 0 => mode' = "scan")
               /\ pos' > 0 => read' = read
               /\ pos' = 0 => read' = Append(read, frame)
    <3>1. CASE proto = "meshcore"
      BY <1>2, <2>1, <2>5, <3>1, NextOfMeshcore DEF InStep
    <3>2. CASE proto = "meshtastic"
      BY <1>2, <2>1, <2>5, <3>2, NextOfMeshtastic DEF InStep
    <3>3. QED BY <2>1, <3>1, <3>2 DEF Protocols
  <2>6. InStep'
    BY <2>1, <2>5 DEF InStep
  <2>7. clean => aligned /\ read = sent
    BY <2>1 DEF Kept
  <2>8. Kept'
    BY <2>1, <2>2, <2>5, <2>7 DEF Kept
  <2>9. Between'
    BY <2>1, <2>5, <2>7 DEF Between
  <2>10. QED BY <2>4, <2>6, <2>8, <2>9
<1>3. ASSUME NEW b \in Strays, Stray(b)
      PROVE  FrameInv'
  <2>1. /\ pos = 0 /\ pos' = 0 /\ frame' = frame /\ sent' = sent /\ proto' = proto
        /\ tail' = (proto = "meshtastic" /\ b = Start1) /\ ReadByte(b) /\ b \in Byte
        /\ clean' = (clean /\ IF proto = "meshcore" THEN b # Marker ELSE ~(tail /\ b = Start2))
    BY <1>3, FramesAssumption DEF Stray
  <2>2. Writing' /\ Fresh'
    BY <2>1, ReadByteShape DEF Writing
  <2>3. ASSUME clean'
        PROVE  read' = sent' /\ mode' \in {"scan", "second"}
               /\ (mode' = "second" => tail' /\ proto' = "meshtastic")
    <3>1. /\ clean /\ read = sent /\ mode \in {"scan", "second"} /\ proto \in Protocols
          /\ mode = "second" => tail /\ proto = "meshtastic"
      BY <2>1, <2>3 DEF Between, Kept, Writing
    <3>2. CASE mode = "scan"
      <4>1. Scan(b)
        BY <2>1, <3>2 DEF ReadByte, Second, Length, Body
      <4>2. QED BY <2>1, <2>3, <3>1, <4>1 DEF Scan, Protocols
    <3>3. CASE mode = "second"
      <4>1. Second(b) /\ b # Start2
        BY <2>1, <2>3, <3>1, <3>3 DEF ReadByte, Scan, Length, Body
      <4>2. QED BY <2>1, <3>1, <3>3, <4>1 DEF Second
    <3>4. QED BY <3>1, <3>2, <3>3
  <2>4. QED BY <2>1, <2>2, <2>3 DEF Between, InStep, Kept
<1>4. ASSUME Reconnect
      PROVE  FrameInv'
  <2>1. Writing'
    BY <1>4, EmptySeq DEF Reconnect, Writing
  <2>2. QED BY <1>4, <2>1 DEF Reconnect, Between, InStep, Kept, Fresh
<1>5. ASSUME UNCHANGED vars
      PROVE  FrameInv'
  BY <1>5 DEF vars, reader, Writing, Between, InStep, InMeshcore, InMeshtastic, Kept, Fresh
<1>6. QED BY <1>1, <1>2, <1>3, <1>4, <1>5 DEF Next

\* ReadFrame, readFrame: the reader is where the writer is, whatever frames, stray bytes
\* and breaks came before, until something looks like a start.
THEOREM FrameInvariance == Spec => []FrameInv
<1>1. QED BY FrameInvInit, FrameInvStep, PTL DEF Spec

\* ReadFrame, readFrame: while nothing on the line looks like a false start, the frames
\* read are the frames written.
THEOREM CleanStreamsAreRead == Spec => []CleanStreamRead
<1>1. FrameInv => CleanStreamRead
  BY DEF FrameInv, Kept, CleanStreamRead
<1>2. QED BY <1>1, FrameInvariance, PTL

\* ReadFrame, readFrame: a frame that begins while the reader looks for a start is read
\* whole, whatever was on the line before.
THEOREM FramesInSyncAreRead == Spec => FrameReadInSync
<1> DEFINE Step == sent' = Append(sent, frame) /\ aligned => read' = Append(read, frame)
<1>1. ASSUME FrameInv, [Next]_vars, sent' = Append(sent, frame), aligned
      PROVE  read' = Append(read, frame)
  <2>0. /\ sent \in Seq(Seq(Byte)) /\ frame \in Seq(Byte) /\ Append(sent, frame) # <<>>
        /\ Append(sent, frame) # sent /\ proto \in Protocols /\ pos \in Nat
    <3>1. sent \in Seq(Seq(Byte)) /\ frame \in Seq(Byte) /\ proto \in Protocols /\ pos \in Nat
      BY <1>1 DEF FrameInv, Writing
    <3>2. QED BY <3>1, Appended, AppendProperties
  <2>1. NextByte
    BY <1>1, <2>0 DEF Next, BeginFrame, Stray, Reconnect, vars
  <2>2. Len(frame) \in Nat /\ Overhead(proto) \in Nat /\ pos' = 0
    <3>1. Fits(proto, frame)
      BY <1>1, <2>1 DEF FrameInv, Writing, NextByte
    <3>2. QED BY <1>1, <2>0, <2>1, <3>1, FrameLength DEF NextByte, Overhead
  <2>3. CASE proto = "meshcore"
    BY <1>1, <2>1, <2>2, <2>3, NextOfMeshcore
  <2>4. CASE proto = "meshtastic"
    BY <1>1, <2>1, <2>2, <2>4, NextOfMeshtastic
  <2>5. QED BY <2>0, <2>3, <2>4 DEF Protocols
<1>2. FrameInv /\ [Next]_vars => [Step]_vars
  BY <1>1
<1>3. QED BY <1>2, FrameInvariance, PTL DEF Spec, FrameReadInSync

-----------------------------------------------------------------------------
(* Counting and definitions by recursion. *)

\* A set with 0 and the successor of each of its members below n has n.
LEMMA InductionTo ==
    ASSUME NEW n \in Nat, NEW S, 0 \in S, \A k \in 0..(n - 1) : k \in S => k + 1 \in S
    PROVE  n \in S
<1> DEFINE T == (0..n) \cap S
           next == [k \in T |-> k + 1]
<1>1. SUFFICES ASSUME n \notin S PROVE FALSE
  OBVIOUS
<1>2. IsFiniteSet(T)
  <2>1. IsFiniteSet(0..n)
    BY FS_Interval
  <2>2. T \in SUBSET (0..n)
    OBVIOUS
  <2>3. QED BY <2>1, <2>2, FS_Subset
<1>3. 0 \in T /\ T \subseteq 0..n /\ \A k \in T : k + 1 \in T
  BY <1>1
<1>4. next \in Injection(T, T \ {0})
  <2>1. next \in [T -> T \ {0}]
    BY <1>3
  <2>2. \A a, b \in T : next[a] = next[b] => a = b
    BY <1>3
  <2>3. QED BY <2>1, <2>2 DEF Injection, IsInjective
<1> HIDE DEF T, next
<1>5. IsFiniteSet(T \ {0}) /\ Cardinality(T \ {0}) = Cardinality(T) - 1
  BY <1>2, <1>3, FS_RemoveElement
<1>6. Cardinality(T) <= Cardinality(T \ {0})
  BY <1>4, <1>5, FS_Injection
<1>7. Cardinality(T) \in Nat
  BY <1>2, FS_CardinalityType
<1>8. QED BY <1>5, <1>6, <1>7

\* And it has every number up to n.
LEMMA Induction ==
    ASSUME NEW n \in Nat, NEW S, 0 \in S, \A k \in 0..(n - 1) : k \in S => k + 1 \in S
    PROVE  \A k \in 0..n : k \in S
<1>1. SUFFICES ASSUME NEW k \in 0..n PROVE k \in S
  OBVIOUS
<1>2. k \in Nat /\ \A j \in 0..(k - 1) : j \in S => j + 1 \in S
  OBVIOUS
<1>3. QED BY <1>2, InductionTo

\* The values of a recursive definition: c, and then step of the one before.
Steps(g, n, T, c, step) ==
    g \in [0..n -> T] /\ g[0] = c /\ \A i \in 1..n : g[i] = step[i][g[i - 1]]

\* There are such values, for every number of steps.
LEMMA Recursion ==
    ASSUME NEW n \in Nat, NEW T, NEW c \in T, NEW step \in [1..n -> [T -> T]]
    PROVE  \E g : Steps(g, n, T, c, step)
<1> DEFINE Solves(g, m) == Steps(g, m, T, c, step)
           S == {m \in 0..n : \E g : Solves(g, m)}
<1>1. 0 \in S
  <2>1. Solves([i \in 0..0 |-> c], 0)
    BY DEF Steps
  <2> HIDE DEF Solves
  <2>2. QED BY <2>1
<1>2. ASSUME NEW k \in 0..(n - 1), k \in S PROVE k + 1 \in S
  <2>1. PICK g : Solves(g, k)
    BY <1>2
  <2> DEFINE h == [i \in 0..(k + 1) |-> IF i = k + 1 THEN step[k + 1][g[k]] ELSE g[i]]
  <2>2. step[k + 1][g[k]] \in T
    BY <2>1 DEF Steps
  <2>3. Solves(h, k + 1)
    <3>1. h \in [0..(k + 1) -> T] /\ h[0] = c
      BY <2>1, <2>2 DEF Steps
    <3>2. ASSUME NEW i \in 1..(k + 1) PROVE h[i] = step[i][h[i - 1]]
      <4>1. h[i - 1] = g[i - 1]
        OBVIOUS
      <4>2. i # k + 1 => h[i] = g[i] /\ g[i] = step[i][g[i - 1]]
        BY <2>1 DEF Steps
      <4>3. i = k + 1 => h[i] = step[i][g[i - 1]]
        OBVIOUS
      <4>4. QED BY <4>1, <4>2, <4>3
    <3>3. QED BY <3>1, <3>2 DEF Steps
  <2> HIDE DEF Solves, h
  <2>4. QED BY <2>3
<1> HIDE DEF S
<1>3. n \in S
  BY <1>1, <1>2, InductionTo
<1>4. QED BY <1>3 DEF S

-----------------------------------------------------------------------------
(* Texts and chunks. *)

-----------------------------------------------------------------------------
(* The bytes of a text. *)

Runes == Seq(Nat \ {0})

\* The bytes of the first runes are defined, for any number of them.
LEMMA BytesStep ==
    ASSUME NEW r \in Runes
    PROVE  BytesTo(r, 0) = 0 /\ \A i \in 1..Len(r) : BytesTo(r, i) = BytesTo(r, i - 1) + r[i]
<1> DEFINE f == CHOOSE g : g = [i \in 0..Len(r) |-> IF i = 0 THEN 0 ELSE g[i - 1] + r[i]]
           step == [i \in 1..Len(r) |-> [b \in Nat |-> b + r[i]]]
<1>0. Len(r) \in Nat /\ \A i \in 1..Len(r) : r[i] \in Nat
  BY LenProperties, ElementOfSeq DEF Runes
<1>1. step \in [1..Len(r) -> [Nat -> Nat]]
  BY <1>0
<1>2. PICK g : Steps(g, Len(r), Nat, 0, step)
  <2> HIDE DEF step, f
  <2>1. Len(r) \in Nat /\ 0 \in Nat
    BY <1>0
  <2>2. QED BY <1>1, <2>1, Recursion
<1>3. \A i \in 1..Len(r) : g[i] = g[i - 1] + r[i]
  <2>1. SUFFICES ASSUME NEW i \in 1..Len(r) PROVE g[i] = g[i - 1] + r[i]
    OBVIOUS
  <2>2. g[i - 1] \in Nat
    <3>1. i - 1 \in 0..Len(r)
      BY <1>0
    <3>2. g \in [0..Len(r) -> Nat]
      BY <1>2 DEF Steps
    <3>3. QED BY <3>1, <3>2
  <2>3. QED BY <1>2, <2>2 DEF Steps
<1>4. g = [i \in 0..Len(r) |-> IF i = 0 THEN 0 ELSE g[i - 1] + r[i]]
  BY <1>0, <1>2, <1>3 DEF Steps
<1>5. f = [i \in 0..Len(r) |-> IF i = 0 THEN 0 ELSE f[i - 1] + r[i]]
  BY <1>4
<1>6. \A k : BytesTo(r, k) = f[k]
  BY DEF BytesTo
<1> HIDE DEF f
<1>7. f[0] = 0 /\ \A i \in 1..Len(r) : f[i] = f[i - 1] + r[i]
  BY <1>0, <1>5
<1>8. QED BY <1>6, <1>7

\* The facts of a text that the proofs below rest on.
LEMMA TextFacts ==
    ASSUME NEW r \in Runes
    PROVE  /\ Len(r) \in Nat
           /\ \A i \in 1..Len(r) : r[i] \in Nat /\ r[i] > 0
           /\ \A i \in 0..Len(r) : BytesTo(r, i) \in Nat
           /\ \A i, j \in 0..Len(r) : i < j => BytesTo(r, i) < BytesTo(r, j)
<1>1. /\ Len(r) \in Nat
      /\ \A i \in 1..Len(r) : r[i] \in Nat /\ r[i] > 0
  BY LenProperties, ElementOfSeq DEF Runes
<1>2. \A i \in 0..Len(r) : BytesTo(r, i) \in Nat
  <2> DEFINE S == {k \in Nat : BytesTo(r, k) \in Nat}
  <2>1. 0 \in S
    BY BytesStep
  <2>2. \A k \in 0..(Len(r) - 1) : k \in S => k + 1 \in S
    <3>1. SUFFICES ASSUME NEW k \in 0..(Len(r) - 1), k \in S PROVE k + 1 \in S
      OBVIOUS
    <3>2. BytesTo(r, k + 1) = BytesTo(r, k) + r[k + 1]
      BY <1>1, BytesStep
    <3>3. QED BY <1>1, <3>1, <3>2
  <2> HIDE DEF S
  <2>3. \A k \in 0..Len(r) : k \in S
    BY <1>1, <2>1, <2>2, Induction
  <2>4. QED BY <2>3 DEF S
<1>3. \A i, j \in 0..Len(r) : i < j => BytesTo(r, i) < BytesTo(r, j)
  <2> DEFINE S == {k \in Nat : \A i \in 0..Len(r) : i < k => BytesTo(r, i) < BytesTo(r, k)}
  <2>1. 0 \in S
    BY <1>1
  <2>2. \A k \in 0..(Len(r) - 1) : k \in S => k + 1 \in S
    <3>1. SUFFICES ASSUME NEW k \in 0..(Len(r) - 1), k \in S PROVE k + 1 \in S
      OBVIOUS
    <3>2. BytesTo(r, k + 1) = BytesTo(r, k) + r[k + 1]
      BY <1>1, BytesStep
    <3>3. BytesTo(r, k) \in Nat /\ r[k + 1] > 0 /\ r[k + 1] \in Nat
      BY <1>1, <1>2
    <3>4. \A i \in 0..Len(r) : i < k + 1 => BytesTo(r, i) < BytesTo(r, k + 1)
      <4>1. SUFFICES ASSUME NEW i \in 0..Len(r), i < k + 1
                     PROVE  BytesTo(r, i) < BytesTo(r, k + 1)
        OBVIOUS
      <4>2. BytesTo(r, i) \in Nat
        BY <1>2
      <4>3. i < k => BytesTo(r, i) < BytesTo(r, k)
        BY <3>1
      <4>4. i = k \/ i < k
        BY <4>1, <1>1
      <4>5. QED BY <3>2, <3>3, <4>2, <4>3, <4>4
    <3>5. QED BY <3>4, <1>1
  <2> HIDE DEF S
  <2>3. \A k \in 0..Len(r) : k \in S
    BY <1>1, <2>1, <2>2, Induction
  <2>4. QED BY <2>3 DEF S
<1>4. QED BY <1>1, <1>2, <1>3

\* A part of a text is a text, whose bytes are those of the part.
LEMMA PartOfText ==
    ASSUME NEW r \in Runes, NEW a \in 1..(Len(r) + 1), NEW b \in (a - 1)..Len(r)
    PROVE  /\ SubSeq(r, a, b) \in Runes /\ Len(SubSeq(r, a, b)) = b - a + 1
           /\ \A i \in 1..(b - a + 1) : SubSeq(r, a, b)[i] = r[a + i - 1]
           /\ Bytes(SubSeq(r, a, b)) = BytesTo(r, b) - BytesTo(r, a - 1)
<1> DEFINE p == SubSeq(r, a, b)
           n == b - a + 1
<1>0. Len(r) \in Nat /\ a \in Nat /\ b \in Int /\ n \in Nat
  BY TextFacts
<1>1. p \in Runes /\ Len(p) = n /\ \A i \in 1..n : p[i] = r[a + i - 1]
  <2>1. \A i \in a..b : r[i] \in Nat \ {0}
    BY <1>0, TextFacts
  <2>2. QED BY <1>0, <2>1, SubSeqProperties DEF Runes
<1> DEFINE S == {k \in Nat : BytesTo(p, k) = BytesTo(r, a - 1 + k) - BytesTo(r, a - 1)}
<1> HIDE DEF p
<1>2. 0 \in S
  <2>1. BytesTo(p, 0) = 0 /\ BytesTo(r, a - 1) \in Nat
    BY <1>0, <1>1, BytesStep, TextFacts
  <2>2. a - 1 + 0 = a - 1
    BY <1>0
  <2>3. QED BY <2>1, <2>2
<1>3. \A k \in 0..(n - 1) : k \in S => k + 1 \in S
  <2>1. SUFFICES ASSUME NEW k \in 0..(n - 1), k \in S PROVE k + 1 \in S
    OBVIOUS
  <2>2. BytesTo(p, k + 1) = BytesTo(p, k) + p[k + 1]
    <3>1. k + 1 \in 1..Len(p) /\ (k + 1) - 1 = k
      BY <1>0, <1>1
    <3>2. QED BY <1>1, <3>1, BytesStep
  <2>3. p[k + 1] = r[a + k]
    BY <1>0, <1>1
  <2>4. BytesTo(r, a + k) = BytesTo(r, a - 1 + k) + r[a + k]
    <3>1. a + k \in 1..Len(r) /\ (a + k) - 1 = a - 1 + k
      BY <1>0
    <3>2. QED BY <3>1, BytesStep
  <2>5. /\ BytesTo(r, a - 1) \in Nat /\ BytesTo(r, a - 1 + k) \in Nat /\ r[a + k] \in Nat
        /\ a - 1 + (k + 1) = a + k
    BY <1>0, TextFacts
  <2>6. QED BY <2>1, <2>2, <2>3, <2>4, <2>5
<1> HIDE DEF S
<1>4. n \in S
  BY <1>0, <1>2, <1>3, InductionTo
<1>5. BytesTo(p, n) = BytesTo(r, b) - BytesTo(r, a - 1)
  <2>1. a - 1 + n = b
    BY <1>0
  <2>2. QED BY <1>4, <2>1 DEF S
<1>6. QED BY <1>1, <1>5 DEF Bytes, p

-----------------------------------------------------------------------------
(* The pieces of a text. *)

Piece(s) == s.starts[Len(s.starts)] \* where the piece begins that is being filled

\* A piece from rune a on, which rune b no longer fits into.
FullPiece(r, avail, a, b) ==
    LET bytes == BytesTo(r, b - 1) - BytesTo(r, a - 1) IN
    (bytes <= avail \/ b = a + 1) /\ bytes + r[b] > avail

\* What has been made of the first i runes.
CutOf(r, avail, i, s) ==
    /\ s \in [starts : Seq(Nat), len : Nat]
    /\ Len(s.starts) > 0 /\ s.starts[1] = 1
    /\ \A j \in 1..Len(s.starts) : s.starts[j] >= 1 /\ (s.starts[j] <= i \/ s.starts[j] = 1)
    /\ \A j \in 1..(Len(s.starts) - 1) :
           s.starts[j] < s.starts[j + 1] /\ FullPiece(r, avail, s.starts[j], s.starts[j + 1])
    /\ s.len = BytesTo(r, i) - BytesTo(r, Piece(s) - 1)
    /\ s.len <= avail \/ Piece(s) = i

\* The pieces after each rune.
Cut(r, avail) ==
    LET st[i \in 0..Len(r)] ==
            LET before == st[i - 1] IN
            IF i = 0 THEN [starts |-> <<1>>, len |-> 0]
            ELSE IF before.len + r[i] > avail /\ before.len > 0
                 THEN [starts |-> Append(before.starts, i), len |-> r[i]]
                 ELSE [starts |-> before.starts, len |-> before.len + r[i]]
    IN  st

Cuts == [starts : Seq(Nat), len : Nat]

NextCut(s, i, w, avail) ==
    IF s.len + w > avail /\ s.len > 0
    THEN [starts |-> Append(s.starts, i), len |-> w]
    ELSE [starts |-> s.starts, len |-> s.len + w]

\* Starts by its steps: what its recursive function is, rune by rune.
LEMMA CutSteps ==
    ASSUME NEW r \in Runes, NEW avail \in Int
    PROVE  /\ Cut(r, avail)[0] = [starts |-> <<1>>, len |-> 0]
           /\ \A i \in 1..Len(r) : Cut(r, avail)[i] = NextCut(Cut(r, avail)[i - 1], i, r[i], avail)
<1> DEFINE first == [starts |-> <<1>>, len |-> 0]
           step == [i \in 1..Len(r) |-> [s \in Cuts |-> NextCut(s, i, r[i], avail)]]
<1>0. Len(r) \in Nat /\ \A i \in 1..Len(r) : r[i] \in Nat
  BY TextFacts
<1>1. step \in [1..Len(r) -> [Cuts -> Cuts]]
  <2>1. ASSUME NEW i \in 1..Len(r), NEW s \in Cuts PROVE NextCut(s, i, r[i], avail) \in Cuts
    <3>1. i \in Nat /\ r[i] \in Nat /\ s.starts \in Seq(Nat) /\ s.len \in Nat
      BY <1>0 DEF Cuts
    <3>2. Append(s.starts, i) \in Seq(Nat)
      BY <3>1, AppendProperties
    <3>3. QED BY <3>1, <3>2 DEF NextCut, Cuts
  <2>2. QED BY <2>1
<1>2. first \in Cuts
  BY DEF Cuts
<1>3. PICK g : Steps(g, Len(r), Cuts, first, step)
  <2> HIDE DEF step, first
  <2>1. QED BY <1>0, <1>1, <1>2, Recursion
<1>4. \A i \in 1..Len(r) : g[i] = NextCut(g[i - 1], i, r[i], avail)
  <2>1. SUFFICES ASSUME NEW i \in 1..Len(r) PROVE g[i] = NextCut(g[i - 1], i, r[i], avail)
    OBVIOUS
  <2>2. g[i - 1] \in Cuts
    <3>1. i - 1 \in 0..Len(r)
      BY <1>0
    <3>2. g \in [0..Len(r) -> Cuts]
      BY <1>3 DEF Steps
    <3>3. QED BY <3>1, <3>2
  <2>3. QED BY <1>3, <2>2 DEF Steps
<1>5. g = [i \in 0..Len(r) |-> IF i = 0 THEN first ELSE NextCut(g[i - 1], i, r[i], avail)]
  <2> HIDE DEF first, step
  <2>1. g[0] = first /\ g \in [0..Len(r) -> Cuts]
    BY <1>3 DEF Steps
  <2>2. QED BY <1>0, <1>4, <2>1
<1> DEFINE f == CHOOSE st : st =
                [i \in 0..Len(r) |-> IF i = 0 THEN first ELSE NextCut(st[i - 1], i, r[i], avail)]
<1>6. f = [i \in 0..Len(r) |-> IF i = 0 THEN first ELSE NextCut(f[i - 1], i, r[i], avail)]
  <2> HIDE DEF first
  <2>1. QED BY <1>5
<1>7. Cut(r, avail) = f
  BY DEF Cut, NextCut
<1> HIDE DEF f
<1>8. f[0] = first /\ \A i \in 1..Len(r) : f[i] = NextCut(f[i - 1], i, r[i], avail)
  <2> HIDE DEF first
  <2>1. QED BY <1>0, <1>6
<1>9. QED BY <1>7, <1>8

\* Every rune keeps the pieces in order and full.
LEMMA CutInvariance ==
    ASSUME NEW r \in Runes, NEW avail \in Nat
    PROVE  \A i \in 0..Len(r) : CutOf(r, avail, i, Cut(r, avail)[i])
<1> DEFINE c == Cut(r, avail)
           S == {i \in Nat : CutOf(r, avail, i, c[i])}
<1>0. Len(r) \in Nat
  BY TextFacts
<1>1. 0 \in S
  <2>1. c[0] = [starts |-> <<1>>, len |-> 0]
    BY CutSteps
  <2>2. BytesTo(r, 0) = 0
    BY BytesStep
  <2>3. /\ c[0].starts = <<1>> /\ c[0].len = 0 /\ Len(<<1>>) = 1 /\ <<1>>[1] = 1
        /\ c[0] \in [starts : Seq(Nat), len : Nat]
    BY <2>1
  <2> HIDE DEF c
  <2>4. Piece(c[0]) = 1 /\ 1 - 1 = 0
    BY <2>3 DEF Piece
  <2>5. c[0].len = BytesTo(r, 0) - BytesTo(r, Piece(c[0]) - 1) /\ c[0].len <= avail
    BY <2>2, <2>3, <2>4
  <2>6. CutOf(r, avail, 0, c[0])
    BY <2>3, <2>5 DEF CutOf
  <2>7. QED BY <2>6
<1>2. ASSUME NEW k \in 0..(Len(r) - 1), k \in S PROVE k + 1 \in S
  <2> DEFINE s == c[k]
             t == c[k + 1]
             w == r[k + 1]
             m == Len(s.starts)
  <2>0. /\ w \in Nat /\ w > 0 /\ k \in Nat /\ k + 1 \in Nat
        /\ BytesTo(r, k + 1) = BytesTo(r, k) + w /\ BytesTo(r, k) \in Nat
    <3>1. k + 1 \in 1..Len(r) /\ (k + 1) - 1 = k /\ k \in 0..Len(r)
      BY <1>0
    <3>2. QED BY <3>1, BytesStep, TextFacts
  <2>1. t = NextCut(s, k + 1, w, avail)
    <3>1. k + 1 \in 1..Len(r) /\ (k + 1) - 1 = k
      BY <1>0
    <3>2. QED BY <3>1, CutSteps
  <2>2. CutOf(r, avail, k, s)
    BY <1>2
  <2> HIDE DEF c, s, t, w
  <2>3. /\ s.starts \in Seq(Nat) /\ s.len \in Nat /\ m \in Nat /\ m > 0
        /\ \A j \in 1..m : s.starts[j] \in Nat
        /\ Piece(s) \in Nat /\ Piece(s) >= 1 /\ (Piece(s) <= k \/ Piece(s) = 1)
    <3>1. s.starts \in Seq(Nat) /\ s.len \in Nat
      BY <2>2 DEF CutOf
    <3>2. m \in Nat /\ m > 0 /\ \A j \in 1..m : s.starts[j] \in Nat
      BY <2>2, <3>1, LenProperties, ElementOfSeq DEF CutOf
    <3>3. QED BY <2>2, <3>1, <3>2 DEF CutOf, Piece
  <2>4. BytesTo(r, Piece(s) - 1) \in Nat /\ (k > 0 => s.len > 0)
    <3>1. Piece(s) - 1 \in 0..Len(r) /\ (k > 0 => Piece(s) - 1 < k)
      BY <1>0, <2>0, <2>3, SMTT(30)
    <3>2. s.len = BytesTo(r, k) - BytesTo(r, Piece(s) - 1)
      BY <2>2 DEF CutOf
    <3>3. /\ BytesTo(r, Piece(s) - 1) \in Nat
          /\ k > 0 => BytesTo(r, Piece(s) - 1) < BytesTo(r, k)
      <4>1. k \in 0..Len(r)
        BY <1>0
      <4>2. QED BY <3>1, <4>1, TextFacts
    <3>4. QED BY <2>0, <2>3, <3>2, <3>3
  <2>5. CASE s.len + w > avail /\ s.len > 0
    <3>1. /\ t = [starts |-> Append(s.starts, k + 1), len |-> w]
          /\ t.starts = Append(s.starts, k + 1) /\ t.len = w
      BY <2>1, <2>5 DEF NextCut
    <3>2. /\ t.starts \in Seq(Nat) /\ Len(t.starts) = m + 1
          /\ \A j \in 1..m : t.starts[j] = s.starts[j]
          /\ t.starts[m + 1] = k + 1
      BY <2>0, <2>3, <3>1, AppendProperties
    <3>3. Piece(t) = k + 1
      BY <3>2 DEF Piece
    <3>4. k > 0
      <4>1. SUFFICES ASSUME k = 0 PROVE FALSE
        BY <2>0
      <4>2. Piece(s) = 1
        BY <4>1, <2>3
      <4>3. QED BY <4>1, <4>2, <2>2, <2>5, BytesStep DEF CutOf
    <3>5. Piece(s) < k + 1 /\ FullPiece(r, avail, Piece(s), k + 1)
      <4>1. Piece(s) < k + 1
        BY <2>0, <2>3, <3>4
      <4>2. s.len = BytesTo(r, k) - BytesTo(r, Piece(s) - 1) /\ (s.len <= avail \/ Piece(s) = k)
        BY <2>2 DEF CutOf
      <4>3. (k + 1) - 1 = k
        BY <2>0
      <4>4. QED BY <4>1, <4>2, <4>3, <2>0, <2>5 DEF FullPiece, w
    <3>6. ASSUME NEW j \in 1..m
          PROVE  t.starts[j] < t.starts[j + 1] /\ FullPiece(r, avail, t.starts[j], t.starts[j + 1])
      <4>1. CASE j = m
        BY <4>1, <2>3, <3>2, <3>5 DEF Piece
      <4>2. CASE j # m
        <5>1. j \in 1..(m - 1) /\ j + 1 \in 1..m
          BY <4>2, <2>3
        <5>2. t.starts[j] = s.starts[j] /\ t.starts[j + 1] = s.starts[j + 1]
          BY <3>2, <5>1
        <5>3. QED BY <2>2, <5>1, <5>2 DEF CutOf
      <4>3. QED BY <4>1, <4>2
    <3>7. \A j \in 1..(m + 1) : t.starts[j] >= 1 /\ (t.starts[j] <= k + 1 \/ t.starts[j] = 1)
      <4>1. SUFFICES ASSUME NEW j \in 1..(m + 1)
                     PROVE  t.starts[j] >= 1 /\ (t.starts[j] <= k + 1 \/ t.starts[j] = 1)
        OBVIOUS
      <4>2. CASE j = m + 1
        BY <4>2, <2>0, <3>2
      <4>3. CASE j # m + 1
        <5>1. j \in 1..m
          BY <4>3, <2>3
        <5>2. s.starts[j] >= 1 /\ (s.starts[j] <= k \/ s.starts[j] = 1) /\ s.starts[j] \in Nat
          BY <5>1, <2>2, <2>3 DEF CutOf
        <5>3. t.starts[j] = s.starts[j]
          BY <5>1, <3>2
        <5>4. QED BY <5>2, <5>3, <2>0
      <4>4. QED BY <4>2, <4>3
    <3>8. t.len = BytesTo(r, k + 1) - BytesTo(r, Piece(t) - 1)
      <4>1. (k + 1) - 1 = k
        BY <2>0
      <4>2. QED BY <4>1, <3>1, <3>3, <2>0
    <3>9. t.starts[1] = 1 /\ t \in [starts : Seq(Nat), len : Nat]
      BY <2>0, <2>2, <2>3, <3>1, <3>2 DEF CutOf
    <3>10. CutOf(r, avail, k + 1, t)
      <4>1. Len(t.starts) - 1 = m /\ Len(t.starts) > 0
        BY <3>2, <2>3
      <4>2. QED BY <3>2, <3>3, <3>6, <3>7, <3>8, <3>9, <4>1 DEF CutOf
    <3>11. QED BY <3>10, <2>0 DEF t
  <2>6. CASE ~(s.len + w > avail /\ s.len > 0)
    <3>1. t.starts = s.starts /\ t.len = s.len + w /\ t \in [starts : Seq(Nat), len : Nat]
      BY <2>0, <2>1, <2>2, <2>3, <2>6 DEF NextCut, CutOf
    <3>2. Piece(t) = Piece(s)
      BY <3>1 DEF Piece
    <3>3. t.len = BytesTo(r, k + 1) - BytesTo(r, Piece(t) - 1)
      BY <2>0, <2>2, <2>3, <2>4, <3>1, <3>2 DEF CutOf
    <3>4. t.len <= avail \/ Piece(t) = k + 1
      BY <2>0, <2>3, <2>4, <2>6, <3>1, <3>2
    <3>5. \A j \in 1..m : t.starts[j] >= 1 /\ (t.starts[j] <= k + 1 \/ t.starts[j] = 1)
      BY <2>0, <2>2, <2>3, <3>1, SMTT(30) DEF CutOf
    <3>6. CutOf(r, avail, k + 1, t)
      BY <2>2, <3>1, <3>3, <3>4, <3>5 DEF CutOf
    <3>7. QED BY <3>6, <2>0 DEF t
  <2>7. QED BY <2>5, <2>6
<1> HIDE DEF S, c
<1>3. \A i \in 0..Len(r) : i \in S
  BY <1>0, <1>1, <1>2, Induction
<1>4. QED BY <1>3 DEF S, c

\* The pieces of the whole text.
LEMMA StartsFacts ==
    ASSUME NEW r \in Runes, NEW avail \in Nat
    PROVE  LET st == Starts(r, avail) IN
           /\ st \in Seq(Nat) /\ Len(st) \in Nat /\ Len(st) >= 1 /\ st[1] = 1
           /\ \A j \in 1..Len(st) : /\ st[j] \in Nat /\ st[j] >= 1
                                    /\ st[j] <= Len(r) \/ st[j] = 1
           /\ \A j \in 1..(Len(st) - 1) :
                  st[j] < st[j + 1] /\ FullPiece(r, avail, st[j], st[j + 1])
           /\ \/ Bytes(r) - BytesTo(r, st[Len(st)] - 1) <= avail
              \/ st[Len(st)] = Len(r)
<1> DEFINE s == Cut(r, avail)[Len(r)]
<1>1. Starts(r, avail) = s.starts
  BY DEF Starts, Cut
<1>2. CutOf(r, avail, Len(r), s)
  <2>1. Len(r) \in 0..Len(r)
    BY TextFacts
  <2>2. QED BY <2>1, CutInvariance
<1> HIDE DEF s
<1>3. /\ s.starts \in Seq(Nat) /\ Len(s.starts) \in Nat
      /\ \A j \in 1..Len(s.starts) : s.starts[j] \in Nat
  <2>1. s.starts \in Seq(Nat)
    BY <1>2 DEF CutOf
  <2>2. QED BY <2>1, LenProperties, ElementOfSeq
<1>4. QED BY <1>1, <1>2, <1>3 DEF CutOf, Piece, Bytes

\* Where the j-th piece ends.
EndOf(r, st, j) == IF j < Len(st) THEN st[j + 1] - 1 ELSE Len(r)

\* splitRunesByByteLen: the pieces follow on each other, from the first rune to the last.
LEMMA SplitFacts ==
    ASSUME NEW r \in Runes, NEW avail \in Nat
    PROVE  LET st == Starts(r, avail) IN
           /\ Split(r, avail) = [j \in 1..Len(st) |-> SubSeq(r, st[j], EndOf(r, st, j))]
           /\ \A j \in 1..Len(st) :
                  /\ st[j] \in 1..(Len(r) + 1) /\ EndOf(r, st, j) \in (st[j] - 1)..Len(r)
                  /\ Len(r) > 0 => EndOf(r, st, j) >= st[j]
           /\ \A j \in 1..(Len(st) - 1) : EndOf(r, st, j) + 1 = st[j + 1]
           /\ EndOf(r, st, Len(st)) = Len(r)
<1> DEFINE st == Starts(r, avail)
           m == Len(st)
<1>1. /\ st \in Seq(Nat) /\ m \in Nat /\ m >= 1 /\ st[1] = 1
      /\ \A j \in 1..m : st[j] \in Nat /\ st[j] >= 1 /\ (st[j] <= Len(r) \/ st[j] = 1)
      /\ \A j \in 1..(m - 1) : st[j] < st[j + 1]
  BY StartsFacts
<1>2. Len(r) \in Nat
  BY TextFacts
<1> DEFINE ends == Append(Tail(st), Len(r) + 1)
<1>3. Split(r, avail) = [j \in 1..m |-> SubSeq(r, st[j], ends[j] - 1)]
  BY DEF Split
<1> HIDE DEF st
<1>4. ASSUME NEW j \in 1..m PROVE ends[j] - 1 = EndOf(r, st, j)
  <2>1. /\ Tail(st) \in Seq(Nat) /\ Len(Tail(st)) = m - 1
        /\ \A i \in 1..(m - 1) : Tail(st)[i] = st[i + 1]
    <3>1. st # <<>>
      BY <1>1
    <3>2. QED BY <1>1, <3>1, HeadTailProperties
  <2>2. /\ \A i \in 1..(m - 1) : ends[i] = Tail(st)[i]
        /\ ends[m] = Len(r) + 1
    <3>1. Len(r) + 1 \in Nat /\ (m - 1) + 1 = m
      BY <1>1, <1>2
    <3>2. QED BY <2>1, <3>1, AppendProperties
  <2> HIDE DEF ends
  <2>3. CASE j < m
    <3>1. j \in 1..(m - 1) /\ j + 1 \in 1..m
      BY <1>1, <2>3
    <3>2. ends[j] = st[j + 1]
      BY <2>1, <2>2, <3>1
    <3>3. QED BY <2>3, <3>2 DEF EndOf
  <2>4. CASE j = m
    BY <1>1, <1>2, <2>2, <2>4 DEF EndOf
  <2>5. QED BY <1>1, <2>3, <2>4
<1> HIDE DEF ends
<1>5. Split(r, avail) = [j \in 1..m |-> SubSeq(r, st[j], EndOf(r, st, j))]
  BY <1>3, <1>4
<1>6. ASSUME NEW j \in 1..m
      PROVE  /\ st[j] \in 1..(Len(r) + 1) /\ EndOf(r, st, j) \in (st[j] - 1)..Len(r)
             /\ Len(r) > 0 => EndOf(r, st, j) >= st[j]
  <2>1. CASE j < m
    <3>1. j \in 1..(m - 1) /\ j + 1 \in 1..m
      BY <1>1, <2>1
    <3>2. /\ st[j] \in Nat /\ st[j + 1] \in Nat /\ st[j] >= 1
          /\ st[j] < st[j + 1] /\ (st[j + 1] <= Len(r) \/ st[j + 1] = 1)
      BY <1>1, <3>1
    <3>3. EndOf(r, st, j) = st[j + 1] - 1
      BY <2>1 DEF EndOf
    <3>4. QED BY <1>2, <3>2, <3>3
  <2>2. CASE j = m
    <3>1. EndOf(r, st, j) = Len(r)
      BY <1>1, <2>2 DEF EndOf
    <3>2. st[j] \in Nat /\ st[j] >= 1 /\ (st[j] <= Len(r) \/ st[j] = 1)
      BY <1>1
    <3>3. QED BY <1>2, <3>1, <3>2
  <2>3. QED BY <1>1, <2>1, <2>2
<1>7. ASSUME NEW j \in 1..(m - 1) PROVE EndOf(r, st, j) + 1 = st[j + 1]
  <2>1. j < m /\ j + 1 \in 1..m
    BY <1>1
  <2>2. st[j + 1] \in Nat
    BY <1>1, <2>1
  <2>3. QED BY <2>1, <2>2 DEF EndOf
<1>8. EndOf(r, st, m) = Len(r)
  BY <1>1 DEF EndOf
<1>9. QED BY <1>5, <1>6, <1>7, <1>8 DEF st

\* The parts of a sequence, one after the other.
JoinedParts(r, m, from, to) == FlattenSeq([j \in 1..m |-> SubSeq(r, from[j], to[j])])

\* FlattenSeq undoes what cuts a sequence into parts that follow on each other.
LEMMA Joined ==
    ASSUME NEW S, NEW r \in Seq(S), NEW m \in Nat \ {0}, NEW from, NEW to,
           from[1] = 1, to[m] = Len(r),
           \A j \in 1..m : from[j] \in 1..(Len(r) + 1) /\ to[j] \in (from[j] - 1)..Len(r),
           \A j \in 1..(m - 1) : to[j] + 1 = from[j + 1]
    PROVE  JoinedParts(r, m, from, to) = r
<1> DEFINE ps == [j \in 1..m |-> SubSeq(r, from[j], to[j])]
           step == [j \in 1..(m - 1) |-> [s \in Seq(S) |-> s \o ps[j + 1]]]
<1>0. Len(r) \in Nat /\ \A j \in 1..m : ps[j] \in Seq(S)
  <2>1. Len(r) \in Nat /\ \A i \in 1..Len(r) : r[i] \in S
    BY LenProperties, ElementOfSeq
  <2>2. ASSUME NEW j \in 1..m PROVE SubSeq(r, from[j], to[j]) \in Seq(S)
    <3>1. from[j] \in Int /\ to[j] \in Int /\ \A i \in from[j]..to[j] : r[i] \in S
      BY <2>1
    <3>2. QED BY <3>1, SubSeqProperties
  <2>3. QED BY <2>1, <2>2
<1>1. Len(ps) = m
  OBVIOUS
<1> HIDE DEF ps
<1>2. step \in [1..(m - 1) -> [Seq(S) -> Seq(S)]]
  <2>1. ASSUME NEW j \in 1..(m - 1), NEW s \in Seq(S) PROVE s \o ps[j + 1] \in Seq(S)
    <3>1. ps[j + 1] \in Seq(S)
      BY <1>0
    <3>2. QED BY <3>1, ConcatProperties
  <2>2. QED BY <2>1
<1>3. PICK h : Steps(h, m - 1, Seq(S), ps[1], step)
  <2>1. m - 1 \in Nat /\ ps[1] \in Seq(S)
    BY <1>0
  <2> HIDE DEF step
  <2>2. QED BY <1>2, <2>1, Recursion
<1> DEFINE g == [i \in 1..m |-> h[i - 1]]
<1>4. ASSUME NEW i \in 1..m PROVE g[i] = IF i = 1 THEN ps[i] ELSE g[i - 1] \o ps[i]
  <2>1. h \in [0..(m - 1) -> Seq(S)] /\ h[0] = ps[1]
    BY <1>3 DEF Steps
  <2>2. CASE i = 1
    BY <2>1, <2>2
  <2>3. CASE i # 1
    <3>1. i - 1 \in 1..(m - 1) /\ (i - 1) - 1 \in 0..(m - 1) /\ (i - 1) + 1 = i /\ i - 1 \in 1..m
      BY <2>3
    <3>2. h[i - 1] = step[i - 1][h[(i - 1) - 1]]
      BY <1>3, <3>1 DEF Steps
    <3>3. h[(i - 1) - 1] \in Seq(S)
      BY <2>1, <3>1
    <3>4. step[i - 1][h[(i - 1) - 1]] = h[(i - 1) - 1] \o ps[i]
      BY <3>1, <3>3
    <3>5. g[i - 1] = h[(i - 1) - 1] /\ g[i] = h[i - 1]
      BY <3>1
    <3>6. QED BY <2>3, <3>2, <3>4, <3>5
  <2>4. QED BY <2>2, <2>3
<1>5. g = [i \in 1..m |-> IF i = 1 THEN ps[i] ELSE g[i - 1] \o ps[i]]
  <2>1. \A i \in 1..m : g[i] = IF i = 1 THEN ps[i] ELSE g[i - 1] \o ps[i]
    BY <1>4
  <2>2. DOMAIN g = 1..m /\ g = [i \in 1..m |-> g[i]]
    OBVIOUS
  <2> HIDE DEF g
  <2>3. QED BY <2>1, <2>2
<1> HIDE DEF g
<1> DEFINE f == CHOOSE flatten : flatten =
                    [i \in 1..m |-> IF i = 1 THEN ps[i] ELSE flatten[i - 1] \o ps[i]]
<1>6. f = [i \in 1..m |-> IF i = 1 THEN ps[i] ELSE f[i - 1] \o ps[i]]
  BY <1>5
<1>7. FlattenSeq(ps) = f[m]
  BY <1>1 DEF FlattenSeq
<1> HIDE DEF f
<1> DEFINE K == {k \in Nat : f[k + 1] = SubSeq(r, 1, to[k + 1])}
<1>8. 0 \in K
  <2>1. 1 \in 1..m /\ 0 + 1 = 1
    OBVIOUS
  <2>2. f[1] = ps[1]
    BY <1>6, <2>1
  <2>3. ps[1] = SubSeq(r, 1, to[1])
    BY <2>1 DEF ps
  <2>4. f[0 + 1] = SubSeq(r, 1, to[0 + 1])
    BY <2>1, <2>2, <2>3
  <2>5. QED BY <2>4
<1>9. ASSUME NEW k \in 0..((m - 1) - 1), k \in K PROVE k + 1 \in K
  <2>1. /\ k \in Nat /\ k + 1 \in 1..m /\ k + 2 \in 1..m /\ k + 1 \in 1..(m - 1)
        /\ (k + 2) - 1 = k + 1 /\ (k + 1) + 1 = k + 2
    OBVIOUS
  <2>2. f[k + 2] = f[k + 1] \o ps[k + 2]
    <3>1. \A i \in 1..m : f[i] = IF i = 1 THEN ps[i] ELSE f[i - 1] \o ps[i]
      BY <1>6
    <3>2. f[k + 2] = f[(k + 2) - 1] \o ps[k + 2]
      <4>1. k + 2 # 1
        BY <2>1
      <4>2. QED BY <2>1, <3>1, <4>1
    <3>3. QED BY <2>1, <3>2
  <2>3. ps[k + 2] = SubSeq(r, to[k + 1] + 1, to[k + 2])
    BY <2>1 DEF ps
  <2>4. to[k + 1] \in 0..Len(r) /\ to[k + 2] \in to[k + 1]..Len(r)
    <3>1. /\ from[k + 1] \in 1..(Len(r) + 1) /\ to[k + 1] \in (from[k + 1] - 1)..Len(r)
          /\ to[k + 2] \in (from[k + 2] - 1)..Len(r) /\ to[k + 1] + 1 = from[k + 2]
      BY <2>1
    <3>2. QED BY <3>1, <1>0
  <2>5. SubSeq(r, 1, to[k + 1]) \o SubSeq(r, to[k + 1] + 1, to[k + 2]) = SubSeq(r, 1, to[k + 2])
    <3>1. 1 \in 1..(Len(r) + 1) /\ to[k + 1] \in (1 - 1)..Len(r)
      BY <2>4, <1>0
    <3>2. QED BY <2>4, <3>1, ConcatAdjacentSubSeq
  <2>6. f[k + 1] = SubSeq(r, 1, to[k + 1])
    BY <1>9
  <2>7. f[(k + 1) + 1] = SubSeq(r, 1, to[(k + 1) + 1])
    BY <2>1, <2>2, <2>3, <2>5, <2>6
  <2>8. QED BY <2>1, <2>7
<1>10. m - 1 \in K
  <2> HIDE DEF K
  <2>1. m - 1 \in Nat
    OBVIOUS
  <2>2. QED BY <2>1, <1>8, <1>9, InductionTo
<1>11. f[m] = SubSeq(r, 1, Len(r))
  <2>1. (m - 1) + 1 = m
    OBVIOUS
  <2>2. QED BY <1>10, <2>1
<1>12. QED BY <1>7, <1>11, SubSeqFull DEF ps, JoinedParts

-----------------------------------------------------------------------------
(* How many pieces there are. *)

\* The states of two rooms, after the same runes: with more room there are fewer
\* pieces, or as many and less in the last.
Ahead(s, t) == \/ Len(s.starts) < Len(t.starts)
               \/ Len(s.starts) = Len(t.starts) /\ s.len <= t.len

\* What is made of the runes has its type, whatever room there is.
LEMMA CutType ==
    ASSUME NEW r \in Runes, NEW avail \in Int
    PROVE  \A i \in 0..Len(r) : Cut(r, avail)[i] \in Cuts
<1> DEFINE c == Cut(r, avail)
           S == {i \in Nat : c[i] \in Cuts}
<1>0. Len(r) \in Nat
  BY TextFacts
<1>1. 0 \in S
  <2>1. c[0] = [starts |-> <<1>>, len |-> 0]
    BY CutSteps
  <2>2. c[0] \in Cuts
    BY <2>1 DEF Cuts
  <2>3. QED BY <2>2
<1>2. ASSUME NEW k \in 0..(Len(r) - 1), k \in S PROVE k + 1 \in S
  <2>1. k + 1 \in 1..Len(r) /\ (k + 1) - 1 = k /\ k + 1 \in Nat
    BY <1>0
  <2>2. c[k + 1] = NextCut(c[k], k + 1, r[k + 1], avail) /\ r[k + 1] \in Nat
    BY <2>1, CutSteps, TextFacts
  <2>3. c[k] \in Cuts
    BY <1>2
  <2> HIDE DEF c
  <2>4. Append(c[k].starts, k + 1) \in Seq(Nat)
    BY <2>1, <2>3, AppendProperties DEF Cuts
  <2>5. c[k + 1] \in Cuts
    BY <2>1, <2>2, <2>3, <2>4 DEF NextCut, Cuts
  <2>6. QED BY <2>1, <2>5
<1> HIDE DEF S, c
<1>3. \A i \in 0..Len(r) : i \in S
  BY <1>0, <1>1, <1>2, Induction
<1>4. QED BY <1>3 DEF S, c

\* Taking as many runes as fit is best: more room never takes more pieces.
LEMMA MoreRoom ==
    ASSUME NEW r \in Runes, NEW a \in Int, NEW b \in Int, a <= b
    PROVE  Len(Starts(r, b)) <= Len(Starts(r, a))
<1> DEFINE c == Cut(r, a)
           d == Cut(r, b)
           S == {i \in Nat : Ahead(d[i], c[i])}
<1>0. Len(r) \in Nat /\ \A i \in 0..Len(r) : c[i] \in Cuts /\ d[i] \in Cuts
  BY TextFacts, CutType
<1>1. 0 \in S
  <2>1. c[0] = d[0]
    BY CutSteps
  <2>2. c[0] \in Cuts
    BY <1>0
  <2> HIDE DEF c, d
  <2>3. Ahead(d[0], c[0])
    BY <2>1, <2>2 DEF Ahead, Cuts
  <2>4. QED BY <2>3
<1>2. ASSUME NEW k \in 0..(Len(r) - 1), k \in S PROVE k + 1 \in S
  <2>1. k + 1 \in 1..Len(r) /\ (k + 1) - 1 = k /\ k \in 0..Len(r) /\ k + 1 \in Nat
    BY <1>0
  <2> DEFINE w == r[k + 1]
  <2>2. /\ c[k + 1] = NextCut(c[k], k + 1, w, a) /\ d[k + 1] = NextCut(d[k], k + 1, w, b)
        /\ w \in Nat
    BY <2>1, CutSteps, TextFacts
  <2>3. Ahead(d[k], c[k])
    BY <1>2
  <2> HIDE DEF c, d, w
  <2> DEFINE m == Len(c[k].starts)
             n == Len(d[k].starts)
  <2>4. /\ m \in Nat /\ n \in Nat /\ c[k].len \in Nat /\ d[k].len \in Nat
        /\ Len(Append(c[k].starts, k + 1)) = m + 1 /\ Len(Append(d[k].starts, k + 1)) = n + 1
    <3>1. /\ c[k].starts \in Seq(Nat) /\ d[k].starts \in Seq(Nat)
          /\ c[k].len \in Nat /\ d[k].len \in Nat
      BY <1>0, <2>1 DEF Cuts
    <3>2. QED BY <2>1, <3>1, LenProperties, AppendProperties
  <2>5. /\ c[k + 1].len = IF c[k].len + w > a /\ c[k].len > 0 THEN w ELSE c[k].len + w
        /\ Len(c[k + 1].starts) = IF c[k].len + w > a /\ c[k].len > 0 THEN m + 1 ELSE m
        /\ d[k + 1].len = IF d[k].len + w > b /\ d[k].len > 0 THEN w ELSE d[k].len + w
        /\ Len(d[k + 1].starts) = IF d[k].len + w > b /\ d[k].len > 0 THEN n + 1 ELSE n
    BY <2>2, <2>4 DEF NextCut
  <2>6. n < m \/ (n = m /\ d[k].len <= c[k].len)
    BY <2>3 DEF Ahead
  <2> HIDE DEF m, n
  <2>7. \/ Len(d[k + 1].starts) < Len(c[k + 1].starts)
        \/ Len(d[k + 1].starts) = Len(c[k + 1].starts) /\ d[k + 1].len <= c[k + 1].len
    <3>1. CASE n < m
      BY <2>2, <2>4, <2>5, <3>1
    <3>2. CASE n = m /\ d[k].len <= c[k].len
      <4> DEFINE x == c[k].len
                 y == d[k].len
      <4>0. x \in Nat /\ y \in Nat /\ y <= x /\ w \in Nat
        BY <2>2, <2>4, <3>2
      <4>1. CASE x + w > a /\ x > 0
        <5>1. c[k + 1].len = w /\ Len(c[k + 1].starts) = m + 1
          BY <2>5, <4>1
        <5>2. \/ d[k + 1].len = w /\ Len(d[k + 1].starts) = n + 1
              \/ Len(d[k + 1].starts) = n
          BY <2>5
        <5>3. QED BY <2>2, <2>4, <3>2, <5>1, <5>2
      <4>2. CASE ~(x + w > a /\ x > 0)
        <5>1. c[k + 1].len = x + w /\ Len(c[k + 1].starts) = m
          BY <2>5, <4>2
        <5>2. ~(y + w > b /\ y > 0)
          <6> HIDE DEF x, y
          <6>1. QED BY <4>0, <4>2
        <5>3. d[k + 1].len = y + w /\ Len(d[k + 1].starts) = n
          BY <2>5, <5>2
        <5>4. QED BY <3>2, <4>0, <5>1, <5>3
      <4>3. QED BY <4>1, <4>2
    <3>3. QED BY <2>6, <3>1, <3>2
  <2>8. Ahead(d[k + 1], c[k + 1])
    BY <2>7 DEF Ahead
  <2>9. QED BY <2>1, <2>8
<1>3. Len(r) \in S
  <2> HIDE DEF S
  <2>1. QED BY <1>0, <1>1, <1>2, InductionTo
<1>4. Ahead(d[Len(r)], c[Len(r)])
  BY <1>3
<1>5. Starts(r, a) = c[Len(r)].starts /\ Starts(r, b) = d[Len(r)].starts
  BY DEF Starts, Cut
<1> HIDE DEF c, d
<1>6. /\ Len(c[Len(r)].starts) \in Nat /\ Len(d[Len(r)].starts) \in Nat
  <2>1. Len(r) \in 0..Len(r)
    BY <1>0
  <2>2. c[Len(r)].starts \in Seq(Nat) /\ d[Len(r)].starts \in Seq(Nat)
    BY <1>0, <2>1 DEF Cuts
  <2>3. QED BY <2>2, LenProperties
<1>7. QED BY <1>4, <1>5, <1>6 DEF Ahead

\* A text of more than n pieces has that many full ones, and more.
LEMMA FullPieces ==
    ASSUME NEW r \in Runes, NEW avail \in Nat, NEW n \in Nat \ {0}, n < Len(Starts(r, avail)),
           NEW w \in Nat, w > 0, w <= avail, \A i \in 1..Len(r) : r[i] <= w
    PROVE  Bytes(r) > n * (avail - w + 1)
<1> DEFINE st == Starts(r, avail)
           least == avail - w + 1
           S == {k \in Nat : BytesTo(r, st[k + 1] - 1) >= k * least}
<1>0. /\ Len(r) \in Nat /\ Len(st) \in Nat /\ st[1] = 1
      /\ \A j \in 1..Len(st) : st[j] \in Nat /\ st[j] >= 1 /\ (st[j] <= Len(r) \/ st[j] = 1)
      /\ \A j \in 1..(Len(st) - 1) : st[j] < st[j + 1] /\ FullPiece(r, avail, st[j], st[j + 1])
  BY StartsFacts, TextFacts
<1> HIDE DEF st
<1>1. least \in Nat
  OBVIOUS
<1>2. 0 \in S
  <2>1. 1 - 1 = 0 /\ 0 + 1 = 1 /\ 0 * least = 0
    BY <1>1
  <2>2. BytesTo(r, st[0 + 1] - 1) >= 0 * least
    BY <2>1, <1>0, BytesStep
  <2>3. QED BY <2>2
<1>3. ASSUME NEW k \in 0..(n - 1), k \in S PROVE k + 1 \in S
  <2>1. k + 1 \in 1..(Len(st) - 1) /\ k + 1 \in 1..Len(st) /\ k + 2 \in 1..Len(st) /\ (k + 1) + 1 = k + 2
    BY <1>0 DEF st
  <2> DEFINE x == st[k + 1]
             y == st[k + 2]
  <2>2. /\ x \in Nat /\ y \in Nat /\ x >= 1 /\ x < y /\ FullPiece(r, avail, x, y)
        /\ y <= Len(r)
    <3>1. /\ x \in Nat /\ y \in Nat /\ x >= 1 /\ x < y /\ FullPiece(r, avail, x, y)
          /\ y <= Len(r) \/ y = 1
      BY <1>0, <2>1
    <3>2. QED BY <3>1
  <2> HIDE DEF x, y
  <2>3. BytesTo(r, y - 1) - BytesTo(r, x - 1) + r[y] > avail
    BY <2>2 DEF FullPiece
  <2>4. /\ BytesTo(r, y - 1) \in Nat /\ BytesTo(r, x - 1) \in Nat
        /\ r[y] \in Nat /\ r[y] <= w
    <3>1. y - 1 \in 0..Len(r) /\ x - 1 \in 0..Len(r) /\ y \in 1..Len(r)
      BY <1>0, <2>2
    <3>2. QED BY <3>1, TextFacts
  <2>5. BytesTo(r, x - 1) >= k * least
    BY <1>3 DEF x
  <2>6. (k + 1) * least = k * least + least /\ k * least \in Nat
    BY <1>1
  <2>7. BytesTo(r, y - 1) >= (k + 1) * least
    BY <2>3, <2>4, <2>5, <2>6
  <2>8. BytesTo(r, st[(k + 1) + 1] - 1) >= (k + 1) * least
    BY <2>1, <2>7 DEF y
  <2>9. QED BY <2>8
<1>4. n \in S
  <2> HIDE DEF S
  <2>1. QED BY <1>2, <1>3, InductionTo
<1>5. n + 1 \in 1..Len(st) /\ n \in 1..(Len(st) - 1) /\ n \in 1..Len(st)
  BY <1>0 DEF st
<1>6. st[n + 1] - 1 \in 0..Len(r) /\ Len(r) \in 0..Len(r) /\ st[n + 1] - 1 < Len(r)
  <2>1. /\ st[n + 1] \in Nat /\ st[n] \in Nat /\ st[n] >= 1 /\ st[n] < st[n + 1]
        /\ st[n + 1] <= Len(r) \/ st[n + 1] = 1
    BY <1>0, <1>5, SMTT(30)
  <2>2. QED BY <1>0, <2>1, SMTT(30)
<1>7. /\ BytesTo(r, st[n + 1] - 1) < BytesTo(r, Len(r))
      /\ BytesTo(r, st[n + 1] - 1) \in Nat /\ BytesTo(r, Len(r)) \in Nat
  BY <1>6, TextFacts
<1>8. BytesTo(r, st[n + 1] - 1) >= n * least /\ n * least \in Nat
  BY <1>1, <1>4
<1>9. QED BY <1>7, <1>8 DEF Bytes

\* A bounded set of numbers has a greatest one.
LEMMA Greatest ==
    ASSUME NEW T, T \subseteq Nat, T # {}, NEW n \in Nat, \A y \in T : y <= n
    PROVE  Max(T) \in T /\ \A y \in T : y <= Max(T)
<1>1. \E x \in T : \A y \in T : x >= y
  <2>1. SUFFICES ASSUME \A x \in T : \E y \in T : ~(x >= y) PROVE FALSE
    OBVIOUS
  <2> DEFINE S == {k \in Nat : \E x \in T : x >= k}
  <2>2. 0 \in S
    <3>1. PICK x \in T : TRUE
      OBVIOUS
    <3>2. x \in Nat /\ x >= 0
      OBVIOUS
    <3>3. QED BY <3>2
  <2>3. ASSUME NEW k \in 0..((n + 1) - 1), k \in S PROVE k + 1 \in S
    <3>1. PICK x \in T : x >= k
      BY <2>3
    <3>2. PICK y \in T : ~(x >= y)
      BY <2>1
    <3>3. x \in Nat /\ y \in Nat /\ k \in Nat
      OBVIOUS
    <3>4. y >= k + 1 /\ k + 1 \in Nat
      BY <3>1, <3>2, <3>3
    <3>5. QED BY <3>4
  <2>4. n + 1 \in S
    <3> HIDE DEF S
    <3>1. n + 1 \in Nat
      OBVIOUS
    <3>2. QED BY <2>2, <2>3, <3>1, InductionTo
  <2>5. PICK x \in T : x >= n + 1
    BY <2>4
  <2>6. x \in Nat /\ x <= n
    OBVIOUS
  <2>7. QED BY <2>5, <2>6
<1>2. Max(T) \in T /\ \A y \in T : Max(T) >= y
  BY <1>1 DEF Max
<1>3. QED BY <1>2

\* composeChunks: its loop finds the first number of pieces that hold the text.
LEMMA PiecesFirst ==
    ASSUME NEW name, NEW r, NEW max
    PROVE  \/ /\ Pieces(name, r, max) = 0
              /\ \A n \in 2..MaxPieces : ~Hold(name, r, max, n)
           \/ /\ Pieces(name, r, max) \in 2..MaxPieces
              /\ Hold(name, r, max, Pieces(name, r, max))
              /\ \A n \in 2..(Pieces(name, r, max) - 1) : ~Hold(name, r, max, n)
<1> DEFINE last == IF Hold(name, r, max, MaxPieces) THEN MaxPieces ELSE 0
           step == [i \in 1..(MaxPieces - 2) |-> [v \in Nat |->
                       IF Hold(name, r, max, MaxPieces - i) THEN MaxPieces - i ELSE v]]
<1>0. MaxPieces \in Nat /\ MaxPieces >= 2
  BY DEF MaxPieces
<1>1. step \in [1..(MaxPieces - 2) -> [Nat -> Nat]] /\ last \in Nat
  BY <1>0
<1>2. PICK h : Steps(h, MaxPieces - 2, Nat, last, step)
  <2>1. MaxPieces - 2 \in Nat
    BY <1>0
  <2> HIDE DEF step, last
  <2>2. QED BY <1>1, <2>1, Recursion
<1> DEFINE g == [n \in 2..MaxPieces |-> h[MaxPieces - n]]
           Try(f, n) == IF Hold(name, r, max, n) THEN n ELSE IF n = MaxPieces THEN 0 ELSE f[n + 1]
<1>3. ASSUME NEW n \in 2..MaxPieces PROVE g[n] = Try(g, n)
  <2>1. h \in [0..(MaxPieces - 2) -> Nat] /\ h[0] = last
    BY <1>2 DEF Steps
  <2>2. CASE n = MaxPieces
    <3>1. MaxPieces - n = 0
      BY <1>0, <2>2
    <3>2. QED BY <2>1, <2>2, <3>1
  <2>3. CASE n # MaxPieces
    <3>1. /\ n + 1 \in 2..MaxPieces /\ MaxPieces - n \in 1..(MaxPieces - 2)
          /\ MaxPieces - (n + 1) \in 0..(MaxPieces - 2) /\ (MaxPieces - n) - 1 = MaxPieces - (n + 1)
          /\ MaxPieces - (MaxPieces - n) = n
      BY <1>0, <2>3
    <3>2. h[MaxPieces - n] = step[MaxPieces - n][h[MaxPieces - (n + 1)]]
      BY <1>2, <3>1 DEF Steps
    <3>3. h[MaxPieces - (n + 1)] \in Nat
      BY <2>1, <3>1
    <3>4. h[MaxPieces - n] = IF Hold(name, r, max, n) THEN n ELSE h[MaxPieces - (n + 1)]
      BY <3>1, <3>2, <3>3
    <3>5. g[n] = h[MaxPieces - n] /\ g[n + 1] = h[MaxPieces - (n + 1)]
      BY <3>1
    <3>6. QED BY <2>3, <3>4, <3>5
  <2>4. QED BY <2>2, <2>3
<1>4. g = [n \in 2..MaxPieces |-> Try(g, n)]
  <2>1. \A n \in 2..MaxPieces : g[n] = Try(g, n)
    BY <1>3
  <2>2. g = [n \in 2..MaxPieces |-> g[n]]
    OBVIOUS
  <2> HIDE DEF g
  <2>3. QED BY <2>1, <2>2
<1> HIDE DEF g
<1> DEFINE f == CHOOSE try : try = [n \in 2..MaxPieces |-> Try(try, n)]
<1>5. f = [n \in 2..MaxPieces |-> Try(f, n)]
  BY <1>4
<1>6. Pieces(name, r, max) = f[2]
  BY DEF Pieces
<1> HIDE DEF f
<1>7. \A n \in 2..MaxPieces : f[n] = Try(f, n)
  BY <1>5
<1> DEFINE S == {k \in Nat : \/ /\ f[2] = f[k + 2]
                                /\ \A n \in 2..(k + 1) : ~Hold(name, r, max, n)
                             \/ \E m \in 2..(k + 1) :
                                    /\ f[2] = m /\ Hold(name, r, max, m)
                                    /\ \A n \in 2..(m - 1) : ~Hold(name, r, max, n)}
<1>8. 0 \in S
  OBVIOUS
<1>9. ASSUME NEW k \in 0..((MaxPieces - 2) - 1), k \in S PROVE k + 1 \in S
  <2>1. k + 2 \in 2..MaxPieces /\ k + 2 # MaxPieces /\ k + 1 \in Nat
        /\ (k + 2) + 1 = k + 3 /\ (k + 1) + 2 = k + 3 /\ (k + 1) + 1 = k + 2
    BY <1>0
  <2>2. f[k + 2] = IF Hold(name, r, max, k + 2) THEN k + 2 ELSE f[k + 3]
    BY <1>7, <2>1
  <2>3. CASE \E m \in 2..(k + 1) : /\ f[2] = m /\ Hold(name, r, max, m)
                                   /\ \A n \in 2..(m - 1) : ~Hold(name, r, max, n)
    <3>1. 2..(k + 1) \subseteq 2..((k + 1) + 1)
      OBVIOUS
    <3>2. QED BY <2>1, <2>3, <3>1
  <2>4. CASE f[2] = f[k + 2] /\ \A n \in 2..(k + 1) : ~Hold(name, r, max, n)
    <3>1. CASE Hold(name, r, max, k + 2)
      <4>1. f[2] = k + 2 /\ k + 2 \in 2..((k + 1) + 1) /\ (k + 2) - 1 = k + 1
        BY <2>1, <2>2, <2>4, <3>1
      <4>2. QED BY <2>1, <2>4, <3>1, <4>1
    <3>2. CASE ~Hold(name, r, max, k + 2)
      <4>1. f[2] = f[(k + 1) + 2]
        BY <2>1, <2>2, <2>4, <3>2
      <4>2. \A n \in 2..((k + 1) + 1) : n \in 2..(k + 1) \/ n = k + 2
        OBVIOUS
      <4>3. \A n \in 2..((k + 1) + 1) : ~Hold(name, r, max, n)
        BY <2>4, <3>2, <4>2
      <4>4. QED BY <2>1, <4>1, <4>3
    <3>3. QED BY <3>1, <3>2
  <2>5. QED BY <1>9, <2>3, <2>4
<1>10. MaxPieces - 2 \in S
  <2>1. MaxPieces - 2 \in Nat
    BY <1>0
  <2> HIDE DEF S
  <2>2. QED BY <1>8, <1>9, <2>1, InductionTo
<1>11. (MaxPieces - 2) + 2 = MaxPieces /\ (MaxPieces - 2) + 1 = MaxPieces - 1 /\ MaxPieces \in 2..MaxPieces
  BY <1>0
<1>12. CASE \E m \in 2..(MaxPieces - 1) : /\ f[2] = m /\ Hold(name, r, max, m)
                                          /\ \A n \in 2..(m - 1) : ~Hold(name, r, max, n)
  <2>1. 2..(MaxPieces - 1) \subseteq 2..MaxPieces
    BY <1>0
  <2>2. QED BY <1>6, <1>12, <2>1
<1>13. CASE f[2] = f[MaxPieces] /\ \A n \in 2..(MaxPieces - 1) : ~Hold(name, r, max, n)
  <2>1. f[MaxPieces] = IF Hold(name, r, max, MaxPieces) THEN MaxPieces ELSE 0
    BY <1>7, <1>11
  <2>2. \A n \in 2..MaxPieces : n \in 2..(MaxPieces - 1) \/ n = MaxPieces
    BY <1>0
  <2>3. QED BY <1>6, <1>11, <1>13, <2>1, <2>2
<1>14. QED BY <1>10, <1>11, <1>12, <1>13

-----------------------------------------------------------------------------
(* What composeChunks makes. *)

\* The widest rune, or 1.
Widest(r) == Max(ToSet(r) \cup {1})

\* The widest rune is wider than none, and one byte where there is none.
LEMMA WidestRune ==
    ASSUME NEW r \in Runes
    PROVE  /\ Widest(r) \in Nat /\ Widest(r) >= 1 /\ \A i \in 1..Len(r) : r[i] <= Widest(r)
           /\ Len(r) = 0 => Widest(r) = 1
<1> DEFINE T == ToSet(r) \cup {1}
<1>1. Len(r) \in Nat /\ \A i \in 1..Len(r) : r[i] \in Nat /\ r[i] <= Bytes(r) + 1
  <2>1. ASSUME NEW i \in 1..Len(r) PROVE r[i] \in Nat /\ r[i] <= Bytes(r) + 1
    <3>1. i \in 0..Len(r) /\ i - 1 \in 0..Len(r) /\ Len(r) \in 0..Len(r)
      BY TextFacts
    <3>2. /\ BytesTo(r, i) = BytesTo(r, i - 1) + r[i]
          /\ BytesTo(r, i) \in Nat /\ BytesTo(r, i - 1) \in Nat /\ BytesTo(r, Len(r)) \in Nat
          /\ r[i] \in Nat /\ (i < Len(r) => BytesTo(r, i) < BytesTo(r, Len(r)))
      BY <3>1, BytesStep, TextFacts
    <3>3. QED BY <3>1, <3>2 DEF Bytes
  <2>2. QED BY <2>1, TextFacts
<1>2. Bytes(r) \in Nat
  <2>1. Len(r) \in 0..Len(r)
    BY <1>1
  <2>2. QED BY <2>1, TextFacts DEF Bytes
<1>3. T = {r[i] : i \in 1..Len(r)} \cup {1}
  <2>1. DOMAIN r = 1..Len(r)
    BY LenProperties DEF Runes
  <2>2. QED BY <2>1 DEF ToSet
<1>4. T \subseteq Nat /\ 1 \in T /\ \A y \in T : y <= Bytes(r) + 1
  BY <1>1, <1>2, <1>3
<1>5. Max(T) \in T /\ \A y \in T : y <= Max(T)
  <2> HIDE DEF T
  <2>1. Bytes(r) + 1 \in Nat /\ T # {}
    BY <1>2, <1>4
  <2>2. QED BY <1>4, <2>1, Greatest
<1>6. Widest(r) = Max(T)
  BY DEF Widest
<1>7. \A i \in 1..Len(r) : r[i] \in T
  BY <1>3
<1>8. Len(r) = 0 => T = {1}
  BY <1>3
<1> HIDE DEF T
<1>9. QED BY <1>4, <1>5, <1>6, <1>7, <1>8

\* The three ways composeChunks ends: the message is short, some pieces hold it, or
\* the beginning has to do.
Short(name, r, max) == Prefix(name) + Bytes(r) <= max

\* The runes the n-th of the pieces of composeChunks begin with.
PieceStarts(name, r, max) == Starts(r, Room(name, Pieces(name, r, max), max))

\* What composeChunks makes of a text that fits whole,
LEMMA ComposedWhole ==
    ASSUME NEW name, NEW r, NEW max, Short(name, r, max)
    PROVE  ComposeChunks(name, r, max) = [chunks |-> <<Whole(name, r)>>, cut |-> FALSE]
BY DEF ComposeChunks, Short

\* of one that fits in pieces,
LEMMA ComposedPieces ==
    ASSUME NEW name \in Nat, NEW r \in Runes, NEW max \in Int,
           ~Short(name, r, max), Pieces(name, r, max) > 0
    PROVE  LET c == ComposeChunks(name, r, max)
               n == Pieces(name, r, max)
               st == PieceStarts(name, r, max)
               m == Len(st)
           IN  /\ c.chunks = [j \in 1..m |-> [before |-> PiecePrefix(name, j, m),
                                              text |-> SubSeq(r, st[j], EndOf(r, st, j))]]
               /\ ~c.cut /\ n \in 2..MaxPieces /\ m \in 1..n /\ Room(name, n, max) \in Nat \ {0}
               /\ \A k \in 2..(n - 1) : ~Hold(name, r, max, k)
<1> DEFINE n == Pieces(name, r, max)
           room == Room(name, n, max)
           st == PieceStarts(name, r, max)
           m == Len(st)
<1>1. /\ n \in 2..MaxPieces /\ Hold(name, r, max, n)
      /\ \A k \in 2..(n - 1) : ~Hold(name, r, max, k)
  BY PiecesFirst
<1>2. room > 0 /\ m <= n
  BY <1>1 DEF Hold, PieceStarts
<1>3. room \in Nat \ {0}
  <2>1. room \in Int
    BY <1>1 DEF Room, PiecePrefix, Digits, MaxPieces
  <2>2. QED BY <1>2, <2>1
<1>4. m \in Nat /\ m >= 1 /\ Split(r, room) = [j \in 1..m |-> SubSeq(r, st[j], EndOf(r, st, j))]
  BY <1>3, StartsFacts, SplitFacts DEF PieceStarts
<1>5. m \in 1..n
  BY <1>1, <1>2, <1>4 DEF MaxPieces
<1>6. ComposeChunks(name, r, max) =
          [chunks |-> [j \in 1..Len(Split(r, room)) |->
                          [before |-> PiecePrefix(name, j, Len(Split(r, room))),
                           text |-> Split(r, room)[j]]],
           cut |-> FALSE]
  BY DEF ComposeChunks, Short
<1> HIDE DEF n, room, st
<1>7. Len(Split(r, room)) = m
  BY <1>4
<1>8. [j \in 1..m |-> [before |-> PiecePrefix(name, j, m), text |-> Split(r, room)[j]]] =
          [j \in 1..m |-> [before |-> PiecePrefix(name, j, m),
                           text |-> SubSeq(r, st[j], EndOf(r, st, j))]]
  BY <1>4
<1>9. QED BY <1>1, <1>3, <1>5, <1>6, <1>7, <1>8 DEF n, room, st

\* and of one that does not.
LEMMA ComposedCut ==
    ASSUME NEW name \in Nat, NEW r \in Runes, NEW max \in Int,
           ~Short(name, r, max), ~(Pieces(name, r, max) > 0)
    PROVE  LET c == ComposeChunks(name, r, max)
               room == max - Prefix(name)
           IN  /\ c.cut /\ ~Hold(name, r, max, MaxPieces)
               /\ \E k \in 0..Len(r) :
                      /\ c.chunks = <<Whole(name, SubSeq(r, 1, k))>>
                      /\ BytesTo(r, k) <= (IF room < 0 THEN 0 ELSE room)
<1> DEFINE room == max - Prefix(name)
           avail == IF room < 0 THEN 0 ELSE room
           T == {k \in 0..Len(r) : BytesTo(r, k) <= avail}
<1>1. ~Hold(name, r, max, MaxPieces)
  <2>1. MaxPieces \in 2..MaxPieces
    BY DEF MaxPieces
  <2>2. ~(Pieces(name, r, max) \in 2..MaxPieces)
    BY DEF MaxPieces
  <2>3. QED BY <2>1, <2>2, PiecesFirst
<1>2. avail \in Nat
  BY DEF Prefix
<1>3. T \subseteq Nat /\ 0 \in T /\ Len(r) \in Nat /\ \A y \in T : y <= Len(r)
  BY <1>2, TextFacts, BytesStep
<1>4. Max(T) \in T
  <2> HIDE DEF T
  <2>1. QED BY <1>3, Greatest
<1>5. ComposeChunks(name, r, max) = [chunks |-> <<Whole(name, SubSeq(r, 1, Max(T)))>>, cut |-> TRUE]
  BY DEF ComposeChunks, Short, Truncate
<1>6. Max(T) \in 0..Len(r) /\ BytesTo(r, Max(T)) <= avail
  BY <1>4
<1> HIDE DEF T, avail
<1>7. QED BY <1>1, <1>5, <1>6 DEF avail

\* A text alone is what comes of it.
LEMMA JoinedAlone ==
    ASSUME NEW S, NEW s \in Seq(S), NEW before
    PROVE  LET c == <<[before |-> before, text |-> s]>> IN
           FlattenSeq([i \in 1..Len(c) |-> c[i].text]) = s
<1>1. Len(s) \in Nat
  BY LenProperties
<1> DEFINE from == [j \in 1..1 |-> 1]
           to == [j \in 1..1 |-> Len(s)]
<1>2. /\ from[1] = 1 /\ to[1] = Len(s)
      /\ \A j \in 1..1 : from[j] \in 1..(Len(s) + 1) /\ to[j] \in (from[j] - 1)..Len(s)
      /\ \A j \in 1..(1 - 1) : to[j] + 1 = from[j + 1]
  BY <1>1
<1>3. JoinedParts(s, 1, from, to) = s
  <2> HIDE DEF from, to
  <2>1. 1 \in Nat \ {0}
    OBVIOUS
  <2>2. QED BY <1>2, <2>1, Joined
<1>4. JoinedParts(s, 1, from, to) = FlattenSeq([j \in 1..1 |-> s])
  <2>1. [j \in 1..1 |-> SubSeq(s, from[j], to[j])] = [j \in 1..1 |-> s]
    BY SubSeqFull
  <2>2. QED BY <2>1 DEF JoinedParts
<1>5. LET c == <<[before |-> before, text |-> s]>> IN
      [i \in 1..Len(c) |-> c[i].text] = [j \in 1..1 |-> s]
  OBVIOUS
<1>6. QED BY <1>3, <1>4, <1>5

\* composeChunks, for every name, text and limit: no rune is lost or repeated, and a
\* message is cut only if 50 pieces need not hold it.
THEOREM EveryTextCarried ==
    \A name \in Nat, r \in Runes, max \in Int : CarriesAll(name, r, max)
<1>1. SUFFICES ASSUME NEW name \in Nat, NEW r \in Runes, NEW max \in Int
               PROVE  CarriesAll(name, r, max)
  OBVIOUS
<1> DEFINE c == ComposeChunks(name, r, max)
           text == FlattenSeq([i \in 1..Len(c.chunks) |-> c.chunks[i].text])
<1>2. CASE Short(name, r, max)
  <2>1. c.chunks = <<[before |-> Prefix(name), text |-> r]>> /\ ~c.cut
    BY <1>2, ComposedWhole DEF Whole
  <2>2. text = r
    <3> HIDE DEF c
    <3>1. QED BY <2>1, JoinedAlone DEF Runes
  <2>3. QED BY <2>1, <2>2 DEF CarriesAll
<1>3. CASE ~Short(name, r, max) /\ Pieces(name, r, max) > 0
  <2> DEFINE st == PieceStarts(name, r, max)
             m == Len(st)
             room == Room(name, Pieces(name, r, max), max)
             to == [j \in 1..m |-> EndOf(r, st, j)]
  <2>1. /\ c.chunks = [j \in 1..m |-> [before |-> PiecePrefix(name, j, m),
                                       text |-> SubSeq(r, st[j], EndOf(r, st, j))]]
        /\ ~c.cut /\ m \in Nat \ {0} /\ room \in Nat
    <3>1. /\ m \in 1..Pieces(name, r, max) /\ room \in Nat \ {0}
          /\ c.chunks = [j \in 1..m |-> [before |-> PiecePrefix(name, j, m),
                                         text |-> SubSeq(r, st[j], EndOf(r, st, j))]]
          /\ ~c.cut
      BY <1>3, ComposedPieces
    <3>2. QED BY <3>1
  <2>2. /\ \A j \in 1..m : st[j] \in 1..(Len(r) + 1) /\ to[j] \in (st[j] - 1)..Len(r)
        /\ \A j \in 1..(m - 1) : to[j] + 1 = st[j + 1]
        /\ to[m] = Len(r) /\ st[1] = 1
    <3>1. /\ \A j \in 1..m : st[j] \in 1..(Len(r) + 1) /\ EndOf(r, st, j) \in (st[j] - 1)..Len(r)
          /\ \A j \in 1..(m - 1) : EndOf(r, st, j) + 1 = st[j + 1]
          /\ EndOf(r, st, m) = Len(r) /\ st[1] = 1
      BY <2>1, SplitFacts, StartsFacts DEF PieceStarts
    <3>2. \A j \in 1..(m - 1) : j \in 1..m
      BY <2>1
    <3> HIDE DEF st, c
    <3>3. m \in 1..m
      BY <2>1
    <3>4. QED BY <3>1, <3>2, <3>3
  <2>3. [i \in 1..Len(c.chunks) |-> c.chunks[i].text] = [j \in 1..m |-> SubSeq(r, st[j], to[j])]
    <3> HIDE DEF c, st
    <3>1. Len(c.chunks) = m
      BY <2>1
    <3>2. \A j \in 1..m : c.chunks[j].text = SubSeq(r, st[j], to[j])
      BY <2>1
    <3>3. QED BY <3>1, <3>2
  <2>4. JoinedParts(r, m, st, to) = r
    <3> HIDE DEF st, to, c
    <3>1. r \in Seq(Nat \ {0})
      BY DEF Runes
    <3>2. QED BY <2>1, <2>2, <3>1, Joined, SMTT(30)
  <2>5. QED BY <2>1, <2>3, <2>4 DEF CarriesAll, JoinedParts
<1>4. CASE ~Short(name, r, max) /\ ~(Pieces(name, r, max) > 0)
  <2>1. c.cut /\ ~Hold(name, r, max, MaxPieces)
    BY <1>4, ComposedCut
  <2>2. PICK k \in 0..Len(r) : c.chunks = <<[before |-> Prefix(name), text |-> SubSeq(r, 1, k)]>>
    BY <1>4, ComposedCut DEF Whole
  <2>3. IsPrefix(text, r)
    <3> DEFINE p == SubSeq(r, 1, k)
    <3>1. p \in Runes /\ Len(p) = k /\ Len(r) \in Nat
      <4>1. Len(r) \in Nat
        BY TextFacts
      <4>2. 1 \in 1..(Len(r) + 1) /\ k \in (1 - 1)..Len(r) /\ k - 1 + 1 = k
        BY <4>1
      <4>3. QED BY <4>1, <4>2, PartOfText
    <3>2. text = p
      <4> HIDE DEF p, c
      <4>1. c.chunks = <<[before |-> Prefix(name), text |-> p]>>
        BY <2>2 DEF p
      <4>2. QED BY <3>1, <4>1, JoinedAlone DEF Runes
    <3>3. SubSeq(p, 1, Len(p)) = p
      BY <3>1, SubSeqFull DEF Runes
    <3> HIDE DEF p, text
    <3>4. Len(p) <= Len(r) /\ SubSeq(p, 1, Len(p)) = SubSeq(r, 1, Len(p))
      BY <3>1, <3>3 DEF p
    <3>5. QED BY <3>2, <3>4 DEF IsPrefix
  <2> DEFINE room == Room(name, MaxPieces, max)
             w == Widest(r)
  <2>4. /\ Bytes(r) \in Nat /\ w \in Nat /\ w >= 1 /\ room \in Int /\ Len(r) \in Nat
        /\ \A i \in 1..Len(r) : r[i] <= w
        /\ Len(r) = 0 => w = 1 /\ room < 0
        /\ Len(r) > 0 => Bytes(r) > 0
    <3>1. Len(r) \in Nat /\ Len(r) \in 0..Len(r) /\ 0 \in 0..Len(r)
      BY TextFacts
    <3>2. Bytes(r) \in Nat /\ (Len(r) > 0 => Bytes(r) > 0) /\ (Len(r) = 0 => Bytes(r) = 0)
      BY <3>1, TextFacts, BytesStep DEF Bytes
    <3>3. room = max - (name + 6 + 2 + 2)
      BY DEF Room, PiecePrefix, Digits, MaxPieces
    <3>4. ~(name + 2 + Bytes(r) <= max)
      BY <1>4 DEF Short, Prefix
    <3>5. QED BY <3>1, <3>2, <3>3, <3>4, WidestRune
  <2>5. Bytes(r) > MaxPieces * (room - w + 1)
    <3>1. CASE w <= room
      <4>1. room \in Nat /\ w > 0 /\ MaxPieces \in Nat \ {0}
        BY <2>4, <3>1 DEF MaxPieces
      <4>2. MaxPieces < Len(Starts(r, room))
        <5>1. ~(Len(Starts(r, room)) <= MaxPieces)
          BY <2>1, <2>4, <3>1 DEF Hold
        <5>2. Len(Starts(r, room)) \in Nat
          BY <4>1, StartsFacts
        <5>3. QED BY <4>1, <5>1, <5>2
      <4> HIDE DEF room, w
      <4>3. QED BY <2>4, <3>1, <4>1, <4>2, FullPieces
    <3>2. CASE ~(w <= room)
      <4>1. room - w + 1 <= 0 /\ (Len(r) = 0 => room - w + 1 < 0) /\ room - w + 1 \in Int
        BY <2>4, <3>2
      <4> DEFINE x == room - w + 1
      <4>2. MaxPieces * x = 50 * x
        BY DEF MaxPieces
      <4>3. 50 * x <= 0 /\ (Len(r) = 0 => 50 * x < 0) /\ 50 * x \in Int
        <5> HIDE DEF x
        <5>1. x <= 0 /\ (Len(r) = 0 => x < 0) /\ x \in Int
          BY <4>1 DEF x
        <5>2. QED BY <5>1
      <4> HIDE DEF x
      <4>4. Bytes(r) > MaxPieces * x
        BY <2>4, <4>2, <4>3
      <4>5. QED BY <4>4 DEF x
    <3>3. QED BY <3>1, <3>2
  <2>6. QED BY <2>1, <2>3, <2>5 DEF CarriesAll, Widest
<1>5. QED BY <1>2, <1>3, <1>4

\* The numbers of bytes "(i/n)" takes.
LEMMA DigitsGrow ==
    ASSUME NEW i \in Nat, NEW n \in Nat, i <= n
    PROVE  Digits(i) \in 1..2 /\ Digits(n) \in 1..2 /\ Digits(i) <= Digits(n)
BY DEF Digits

\* One of several pieces: its size, and that the next one begins with what did not fit.
LEMMA PieceFacts ==
    ASSUME NEW name \in Nat, NEW r \in Runes, NEW max \in Int,
           ~Short(name, r, max), Pieces(name, r, max) > 0,
           NEW j \in 1..Len(PieceStarts(name, r, max))
    PROVE  LET st == PieceStarts(name, r, max)
               m == Len(st)
               room == Room(name, Pieces(name, r, max), max)
               text == SubSeq(r, st[j], EndOf(r, st, j))
           IN  /\ text \in Runes /\ Len(text) > 0 /\ text # <<>> /\ Bytes(text) \in Nat
               /\ Bytes(text) <= room \/ Len(text) = 1
               /\ text[1] = r[st[j]] /\ (m = 1 => text = r)
               /\ st[j] \in 1..Len(r)
               /\ PiecePrefix(name, j, m) + room <= max
               /\ j < m => Bytes(text) + r[st[j + 1]] > room
<1> DEFINE N == Pieces(name, r, max)
           room == Room(name, N, max)
           st == PieceStarts(name, r, max)
           m == Len(st)
           to == EndOf(r, st, j)
           text == SubSeq(r, st[j], to)
<1>1. N \in 2..MaxPieces /\ m \in 1..N /\ room \in Nat \ {0}
  BY ComposedPieces
<1>a. j \in 1..m
  OBVIOUS
<1>b. N \in Nat
  <2> HIDE DEF N
  <2>1. QED BY <1>1 DEF MaxPieces
<1>2. /\ st \in Seq(Nat) /\ m \in Nat /\ m >= 1 /\ st[1] = 1
      /\ j < m => st[j] < st[j + 1] /\ FullPiece(r, room, st[j], st[j + 1])
      /\ Bytes(r) - BytesTo(r, st[m] - 1) <= room \/ st[m] = Len(r)
      /\ st[j] \in 1..(Len(r) + 1) /\ to \in (st[j] - 1)..Len(r)
      /\ Len(r) > 0 => to >= st[j]
      /\ j < m => to + 1 = st[j + 1]
  <2>1. room \in Nat /\ (j < m => j \in 1..(m - 1))
    BY <1>1
  <2>2. QED BY <2>1, StartsFacts, SplitFacts DEF PieceStarts
<1> HIDE DEF st
<1>3. Len(r) \in Nat /\ Len(r) > 0
  <2>1. Len(r) \in Nat
    BY TextFacts
  <2>2. Len(r) = 0 => Bytes(r) = 0
    BY BytesStep DEF Bytes
  <2>3. ~(name + 2 + Bytes(r) <= max)
    BY DEF Short, Prefix
  <2>4. room = max - (name + 6 + Digits(N) + Digits(N)) /\ Digits(N) \in 1..2
    BY <1>b, DigitsGrow DEF Room, PiecePrefix
  <2> HIDE DEF room, N
  <2>5. QED BY <2>1, <2>2, <2>3, <2>4, <1>1
<1>4. /\ text \in Runes /\ Len(text) = to - st[j] + 1 /\ text[1] = r[st[j]]
      /\ Bytes(text) = BytesTo(r, to) - BytesTo(r, st[j] - 1)
  <2>1. /\ text \in Runes /\ Len(text) = to - st[j] + 1
        /\ \A i \in 1..(to - st[j] + 1) : text[i] = r[st[j] + i - 1]
        /\ Bytes(text) = BytesTo(r, to) - BytesTo(r, st[j] - 1)
    BY <1>2, PartOfText
  <2>2. 1 \in 1..(to - st[j] + 1) /\ st[j] + 1 - 1 = st[j]
    BY <1>2, <1>3, SMTT(30)
  <2> HIDE DEF text, to
  <2>3. QED BY <2>1, <2>2
<1>5. Len(text) > 0 /\ Len(text) \in Nat /\ Bytes(text) \in Nat /\ text # <<>>
  <2>1. Len(text) > 0 /\ Len(text) \in Nat
    <3> HIDE DEF text, to, m
    <3>1. QED BY <1>2, <1>3, <1>4
  <2> HIDE DEF text
  <2>2. Len(text) \in 0..Len(text)
    BY <2>1
  <2>3. Bytes(text) \in Nat
    BY <1>4, <2>2, TextFacts DEF Bytes
  <2>4. text # <<>>
    BY <2>1
  <2>5. QED BY <2>1, <2>3, <2>4
<1>6. /\ Bytes(text) <= room \/ Len(text) = 1
      /\ j < m => Bytes(text) + r[st[j + 1]] > room
  <2>1. CASE j < m
    <3>1. to = st[j + 1] - 1
      BY <2>1 DEF EndOf
    <3>2. /\ BytesTo(r, st[j + 1] - 1) - BytesTo(r, st[j] - 1) <= room \/ st[j + 1] = st[j] + 1
          /\ BytesTo(r, st[j + 1] - 1) - BytesTo(r, st[j] - 1) + r[st[j + 1]] > room
      BY <1>2, <2>1 DEF FullPiece
    <3>a. st[j] \in Int /\ st[j + 1] \in Int
      <4> HIDE DEF m, to
      <4>1. j \in 1..Len(st) /\ j + 1 \in 1..Len(st)
        BY <1>2, <1>a, <2>1 DEF m
      <4>2. QED BY <1>2, <4>1, SMTT(30)
    <3> HIDE DEF to, text, room, m
    <3>3. /\ Bytes(text) <= room \/ st[j + 1] = st[j] + 1
          /\ Bytes(text) + r[st[j + 1]] > room
      BY <1>4, <3>1, <3>2
    <3>4. st[j + 1] = st[j] + 1 => Len(text) = 1
      <4>1. Len(text) = st[j + 1] - 1 - st[j] + 1
        BY <1>4, <3>1
      <4>2. QED BY <3>a, <4>1
    <3>5. QED BY <3>3, <3>4
  <2>2. CASE j = m
    <3>1. to = Len(r) /\ ~(j < m)
      BY <2>2, <1>2 DEF EndOf
    <3>2. Bytes(r) = BytesTo(r, to)
      BY <3>1 DEF Bytes
    <3>a. st[j] \in Int
      BY <1>2
    <3> HIDE DEF to, text, room, m
    <3>3. Bytes(text) <= room \/ st[j] = Len(r)
      BY <1>2, <1>4, <2>2, <3>2
    <3>4. st[j] = Len(r) => Len(text) = 1
      <4>1. Len(text) = Len(r) - st[j] + 1
        BY <1>4, <3>1
      <4>2. QED BY <1>3, <3>a, <4>1
    <3>5. QED BY <3>1, <3>3, <3>4
  <2>3. j < m \/ j = m
    <3> HIDE DEF m
    <3>1. QED BY <1>2, <1>a
  <2>4. QED BY <2>1, <2>2, <2>3
<1>7. m = 1 => text = r
  <2>1. ASSUME m = 1 PROVE text = r
    <3>2. j = m
      <4> HIDE DEF m
      <4>1. QED BY <2>1, <1>a
    <3>3. to = Len(r)
      BY <3>2 DEF EndOf
    <3>4. st[j] = 1
      BY <1>2, <2>1, <3>2
    <3>5. QED BY <3>3, <3>4, SubSeqFull DEF Runes
  <2>2. QED BY <2>1
<1>8. PiecePrefix(name, j, m) + room <= max
  <2>1. /\ Digits(j) <= Digits(N) /\ Digits(m) <= Digits(N)
        /\ Digits(j) \in 1..2 /\ Digits(m) \in 1..2 /\ Digits(N) \in 1..2
    <3>1. j \in Nat /\ m \in Nat /\ N \in Nat /\ j <= N /\ m <= N
      <4> HIDE DEF m, N
      <4>1. QED BY <1>1, <1>a, <1>b
    <3>2. QED BY <3>1, DigitsGrow
  <2>2. room = max - (name + 6 + Digits(N) + Digits(N))
    BY DEF Room, PiecePrefix
  <2>3. PiecePrefix(name, j, m) = name + 6 + Digits(j) + Digits(m)
    BY DEF PiecePrefix
  <2> HIDE DEF room, N, m
  <2>4. QED BY <2>1, <2>2, <2>3
<1>c. st[j] \in 1..Len(r)
  <2> HIDE DEF to, text
  <2>1. QED BY <1>2, <1>3
<1>9. QED BY <1>4, <1>5, <1>6, <1>7, <1>8, <1>c DEF st

\* With fewer digits the pieces would have been tried before.
LEMMA DigitsKnown ==
    ASSUME NEW name \in Nat, NEW r \in Runes, NEW max \in Int,
           ~Short(name, r, max), Pieces(name, r, max) > 0
    PROVE  Room(name, Len(PieceStarts(name, r, max)), max) = Room(name, Pieces(name, r, max), max)
<1> DEFINE N == Pieces(name, r, max)
           m == Len(PieceStarts(name, r, max))
           room == Room(name, N, max)
<1>1. /\ N \in 2..MaxPieces /\ m \in 1..N /\ room \in Nat \ {0}
      /\ \A k \in 2..(N - 1) : ~Hold(name, r, max, k)
  BY ComposedPieces
<1>b. N \in Nat
  <2> HIDE DEF N
  <2>1. QED BY <1>1 DEF MaxPieces
<1>2. ~(m < 10 /\ N >= 10)
  <2>1. SUFFICES ASSUME m < 10, N >= 10 PROVE FALSE
    OBVIOUS
  <2>2. ~Hold(name, r, max, 9)
    BY <1>1, <2>1
  <2>3. Room(name, 9, max) = room + 2
    <3>1. Digits(9) = 1
      BY DEF Digits
    <3>2. Digits(N) = 2
      <4> HIDE DEF N
      <4>1. QED BY <2>1, <1>b DEF Digits
    <3>3. Room(name, 9, max) = max - (name + 6 + 1 + 1)
      BY <3>1 DEF Room, PiecePrefix
    <3>4. room = max - (name + 6 + 2 + 2)
      BY <3>2 DEF Room, PiecePrefix
    <3> HIDE DEF room
    <3>5. QED BY <3>3, <3>4
  <2>4. Len(Starts(r, room + 2)) <= Len(Starts(r, room))
    <3>1. room \in Int /\ room + 2 \in Int /\ room <= room + 2
      BY <1>1
    <3> HIDE DEF room
    <3>2. QED BY <3>1, MoreRoom
  <2>5. m = Len(Starts(r, room))
    BY DEF PieceStarts
  <2>6. Len(Starts(r, room + 2)) \in Nat
    <3>1. room + 2 \in Nat
      BY <1>1
    <3> HIDE DEF room
    <3>2. QED BY <3>1, StartsFacts
  <2>7. room + 2 > 0
    BY <1>1
  <2> HIDE DEF room, m
  <2>8. ~(Len(Starts(r, room + 2)) <= 9)
    BY <2>2, <2>3, <2>7 DEF Hold
  <2>9. QED BY <1>1, <2>1, <2>4, <2>5, <2>6, <2>8
<1>3. Digits(m) = Digits(N)
  <2>1. m \in Nat /\ N \in Nat /\ m <= N
    <3> HIDE DEF m, N
    <3>1. QED BY <1>1, <1>b
  <2> HIDE DEF m, N
  <2>2. QED BY <1>2, <2>1 DEF Digits
<1>4. QED BY <1>3 DEF Room, PiecePrefix

\* composeChunks, for every name, text and limit: every message fits, unless a rune or
\* the name is wider than the room there is, and none is sent without need.
THEOREM EveryChunkFits ==
    \A name \in Nat, r \in Runes, max \in Int : FitsTight(name, r, max)
<1>1. SUFFICES ASSUME NEW name \in Nat, NEW r \in Runes, NEW max \in Int
               PROVE  FitsTight(name, r, max)
  OBVIOUS
<1> DEFINE c == ComposeChunks(name, r, max)
<1>2. CASE Short(name, r, max)
  <2>1. c.chunks = <<[before |-> Prefix(name), text |-> r]>>
    BY <1>2, ComposedWhole DEF Whole
  <2>2. Prefix(name) + Bytes(r) <= max
    BY <1>2 DEF Short
  <2> HIDE DEF c
  <2>3. Len(c.chunks) = 1 /\ Size(c.chunks[1]) <= max
    BY <2>1, <2>2 DEF Size
  <2>4. QED BY <2>3 DEF FitsTight, c
<1>3. CASE ~Short(name, r, max) /\ Pieces(name, r, max) > 0
  <2> DEFINE st == PieceStarts(name, r, max)
             m == Len(st)
             room == Room(name, Pieces(name, r, max), max)
             text(j) == SubSeq(r, st[j], EndOf(r, st, j))
  <2>1. /\ c.chunks = [j \in 1..m |-> [before |-> PiecePrefix(name, j, m), text |-> text(j)]]
        /\ m \in Nat \ {0} /\ room \in Nat
    <3>1. m \in 1..Pieces(name, r, max) /\ room \in Nat \ {0}
      BY <1>3, ComposedPieces
    <3>2. c.chunks = [j \in 1..m |-> [before |-> PiecePrefix(name, j, m), text |-> text(j)]]
      BY <1>3, ComposedPieces
    <3> HIDE DEF c, text, room
    <3>3. m \in Nat \ {0}
      <4>1. PICK l \in 1..Pieces(name, r, max) : l = m
        BY <3>1
      <4>2. QED BY <4>1
    <3>4. QED BY <3>1, <3>2, <3>3
  <2>2. \A j \in 1..m :
            /\ text(j) \in Runes /\ Len(text(j)) > 0 /\ text(j) # <<>> /\ Bytes(text(j)) \in Nat
            /\ Bytes(text(j)) <= room \/ Len(text(j)) = 1
            /\ text(j)[1] = r[st[j]] /\ (m = 1 => text(j) = r)
            /\ PiecePrefix(name, j, m) + room <= max
            /\ j < m => Bytes(text(j)) + r[st[j + 1]] > room
    BY <1>3, PieceFacts
  <2>3. Room(name, m, max) = room
    BY <1>3, DigitsKnown
  <2> HIDE DEF c, st, room, text
  <2>4. Len(c.chunks) = m
    BY <2>1
  <2>5. \A j \in 1..m : /\ c.chunks[j].text = text(j)
                        /\ Size(c.chunks[j]) = PiecePrefix(name, j, m) + Bytes(text(j))
    BY <2>1 DEF Size
  <2>6. ASSUME NEW j \in 1..m
        PROVE  /\ \/ Size(c.chunks[j]) <= max
                  \/ m > 1 /\ Len(c.chunks[j].text) = 1
                  \/ m = 1 /\ Len(r) = 1
               /\ c.chunks[j].text # <<>>
               /\ j < m => Bytes(c.chunks[j].text) + c.chunks[j + 1].text[1] > Room(name, m, max)
    <3>1. /\ Bytes(text(j)) <= room \/ Len(text(j)) = 1
          /\ m = 1 => text(j) = r
          /\ PiecePrefix(name, j, m) + room <= max
          /\ text(j) # <<>> /\ Bytes(text(j)) \in Nat
          /\ j < m => Bytes(text(j)) + r[st[j + 1]] > room
      BY <2>2
    <3>2. PiecePrefix(name, j, m) \in Int
      BY DEF PiecePrefix, Digits
    <3>3. Bytes(text(j)) <= room => Size(c.chunks[j]) <= max
      BY <2>1, <2>5, <3>1, <3>2
    <3>4. j < m => c.chunks[j + 1].text[1] = r[st[j + 1]]
      <4>1. j < m => j + 1 \in 1..m
        BY <2>1
      <4>2. QED BY <2>2, <2>5, <4>1
    <3>5. m > 1 \/ m = 1
      <4> HIDE DEF m
      <4>1. QED BY <2>1
    <3>6. QED BY <2>3, <2>5, <3>1, <3>3, <3>4, <3>5
  <2>7. QED BY <2>4, <2>6 DEF FitsTight, c
<1>4. CASE ~Short(name, r, max) /\ ~(Pieces(name, r, max) > 0)
  <2> DEFINE room == max - Prefix(name)
  <2>1. PICK k \in 0..Len(r) : /\ c.chunks = <<[before |-> Prefix(name), text |-> SubSeq(r, 1, k)]>>
                               /\ BytesTo(r, k) <= (IF room < 0 THEN 0 ELSE room)
    BY <1>4, ComposedCut DEF Whole
  <2>2. c.cut
    BY <1>4, ComposedCut
  <2> DEFINE p == SubSeq(r, 1, k)
  <2>3. Len(r) \in Nat /\ Bytes(p) = BytesTo(r, k) /\ BytesTo(r, k) \in Nat /\ (k > 0 => BytesTo(r, k) > 0)
    <3>1. Len(r) \in Nat
      BY TextFacts
    <3>2. 1 \in 1..(Len(r) + 1) /\ k \in (1 - 1)..Len(r) /\ 1 - 1 = 0 /\ 0 \in 0..Len(r)
      BY <3>1
    <3>3. Bytes(p) = BytesTo(r, k) - BytesTo(r, 0) /\ BytesTo(r, 0) = 0
      BY <3>2, PartOfText, BytesStep
    <3>4. BytesTo(r, k) \in Nat /\ (k > 0 => BytesTo(r, k) > 0)
      BY <3>1, <3>2, <3>3, TextFacts
    <3>5. QED BY <3>1, <3>3, <3>4
  <2>4. k = 0 => p = <<>>
    BY SubSeqEmpty
  <2>5. room < 0 => k = 0
    BY <2>1, <2>3
  <2> HIDE DEF p, c
  <2>6. c.chunks[1] = [before |-> Prefix(name), text |-> p] /\ Len(c.chunks) = 1
    BY <2>1 DEF p
  <2>7. c.chunks[1].text = <<>> \/ Size(c.chunks[1]) <= max
    <3>1. Size(c.chunks[1]) = Prefix(name) + Bytes(p) /\ c.chunks[1].text = p
      BY <2>6 DEF Size
    <3>2. Prefix(name) \in Nat
      BY DEF Prefix
    <3>3. QED BY <2>1, <2>3, <2>4, <2>5, <3>1, <3>2
  <2>8. QED BY <2>2, <2>6, <2>7 DEF FitsTight, c
<1>5. QED BY <1>2, <1>3, <1>4

\* A text of one rune takes its bytes.
LEMMA OneRune ==
    ASSUME NEW r \in Runes, Len(r) = 1
    PROVE  Bytes(r) = r[1]
<1>1. BytesTo(r, 0) = 0 /\ \A i \in 1..Len(r) : BytesTo(r, i) = BytesTo(r, i - 1) + r[i]
  BY BytesStep
<1>2. 1 \in 1..Len(r) /\ 1 - 1 = 0
  OBVIOUS
<1>3. BytesTo(r, 1) = BytesTo(r, 0) + r[1]
  BY <1>1, <1>2
<1>4. r[1] \in Nat
  BY <1>2, TextFacts
<1>5. QED BY <1>1, <1>3, <1>4 DEF Bytes

\* However wide runes and name are, no chunk is much longer than it should be.
LEMMA ChunkSizes ==
    ASSUME NEW name \in Nat, NEW r \in Runes, NEW max \in Int
    PROVE  \A w \in Nat \ {0}, i \in 1..Len(ComposeChunks(name, r, max).chunks) :
               Prefix(name) <= max /\ (\A j \in 1..Len(r) : r[j] \in 1..w) =>
                   /\ Size(ComposeChunks(name, r, max).chunks[i]) \in Nat
                   /\ Size(ComposeChunks(name, r, max).chunks[i]) <= max + w - 1
<1>0. SUFFICES ASSUME NEW w \in Nat \ {0}, NEW i \in 1..Len(ComposeChunks(name, r, max).chunks),
                      Prefix(name) <= max, \A j \in 1..Len(r) : r[j] \in 1..w
               PROVE  /\ Size(ComposeChunks(name, r, max).chunks[i]) \in Nat
                      /\ Size(ComposeChunks(name, r, max).chunks[i]) <= max + w - 1
  OBVIOUS
<1>1. PICK chunks : chunks = ComposeChunks(name, r, max).chunks
  OBVIOUS
<1>3. PICK before \in Nat : before = Prefix(name) /\ before <= max
  BY <1>0 DEF Prefix
<1>5. CASE Short(name, r, max)
  <2>1. chunks = <<[before |-> before, text |-> r]>>
    BY <1>1, <1>3, <1>5, ComposedWhole DEF Whole
  <2>2. before + Bytes(r) <= max
    BY <1>3, <1>5 DEF Short
  <2>3. Bytes(r) \in Nat
    <3>1. Len(r) \in 0..Len(r)
      OBVIOUS
    <3>2. QED BY <3>1, TextFacts DEF Bytes
  <2>4. Len(chunks) = 1 /\ chunks[1] = [before |-> before, text |-> r]
    BY <2>1
  <2>5. i = 1
    BY <1>1, <2>4
  <2>6. Size(chunks[i]) = before + Bytes(r)
    BY <2>4, <2>5 DEF Size
  <2>7. QED BY <1>1, <2>2, <2>3, <2>6
<1>6. CASE ~Short(name, r, max) /\ Pieces(name, r, max) > 0
  <2> DEFINE st == PieceStarts(name, r, max)
             m == Len(st)
             room == Room(name, Pieces(name, r, max), max)
             text(j) == SubSeq(r, st[j], EndOf(r, st, j))
  <2>1. /\ chunks = [j \in 1..m |-> [before |-> PiecePrefix(name, j, m), text |-> text(j)]]
        /\ m \in Nat /\ room \in Nat \ {0}
    <3>1. m \in 1..Pieces(name, r, max) /\ room \in Nat \ {0}
      BY <1>6, ComposedPieces
    <3>2. QED BY <1>1, <1>6, <3>1, ComposedPieces
  <2>2. i \in 1..m
    <3> HIDE DEF st, text
    <3>1. Len(chunks) = m
      BY <2>1
    <3>2. QED BY <1>1, <3>1
  <2>3. /\ text(i) \in Runes /\ Bytes(text(i)) \in Nat
        /\ Bytes(text(i)) <= room \/ Len(text(i)) = 1
        /\ text(i)[1] = r[st[i]]
        /\ PiecePrefix(name, i, m) + room <= max
    BY <1>6, <2>2, PieceFacts
  <2>4. st[i] \in 1..Len(r)
    BY <1>6, <2>2, PieceFacts
  <2>5. Bytes(text(i)) <= room \/ Bytes(text(i)) \in 1..w
    <3>1. CASE Len(text(i)) = 1
      <4>1. Bytes(text(i)) = r[st[i]]
        BY <2>3, <3>1, OneRune
      <4>2. QED BY <1>0, <2>4, <4>1
    <3>2. QED BY <2>3, <3>1
  <2>6. PICK bytes \in Nat : bytes = Bytes(text(i))
    BY <2>3
  <2>7. PICK pre \in Nat : pre = PiecePrefix(name, i, m)
    BY DEF PiecePrefix, Digits
  <2>8. PICK rm \in Nat \ {0} : rm = room
    BY <2>1
  <2>9. (bytes <= rm \/ bytes \in 1..w) /\ pre + rm <= max
    BY <2>3, <2>5, <2>6, <2>7, <2>8
  <2>10. Size(chunks[i]) = pre + bytes
    <3>1. chunks[i] = [before |-> pre, text |-> text(i)]
      <4> HIDE DEF st, text
      <4>1. QED BY <2>1, <2>2, <2>7
    <3>2. QED BY <2>6, <3>1 DEF Size
  <2>11. pre + bytes \in Nat /\ pre + bytes <= max + w - 1
    BY <2>9
  <2>12. QED BY <1>1, <2>10, <2>11
<1>7. CASE ~Short(name, r, max) /\ ~(Pieces(name, r, max) > 0)
  <2>1. PICK k \in 0..Len(r) :
            /\ chunks = <<[before |-> Prefix(name), text |-> SubSeq(r, 1, k)]>>
            /\ BytesTo(r, k) <= (IF max - Prefix(name) < 0 THEN 0 ELSE max - Prefix(name))
    BY <1>1, <1>7, ComposedCut DEF Whole
  <2>2. Bytes(SubSeq(r, 1, k)) = BytesTo(r, k) /\ BytesTo(r, k) \in Nat
    <3>1. Len(r) \in Nat
      BY TextFacts
    <3>2. 1 \in 1..(Len(r) + 1) /\ k \in (1 - 1)..Len(r) /\ 1 - 1 = 0
      BY <3>1
    <3>3. Bytes(SubSeq(r, 1, k)) = BytesTo(r, k) - BytesTo(r, 0) /\ BytesTo(r, 0) = 0
      BY <3>2, PartOfText, BytesStep
    <3>4. BytesTo(r, k) \in Nat
      BY TextFacts
    <3>5. QED BY <3>3, <3>4
  <2>3. PICK bytes \in Nat : bytes = BytesTo(r, k)
    BY <2>2
  <2>a. PICK p : p = SubSeq(r, 1, k)
    OBVIOUS
  <2>4. Len(chunks) = 1 /\ chunks[1] = [before |-> before, text |-> p]
    BY <1>3, <2>1, <2>a
  <2>5. i = 1
    BY <1>1, <2>4
  <2>6. Size(chunks[i]) = before + bytes
    <3>1. chunks[i] = [before |-> before, text |-> p]
      BY <2>4, <2>5
    <3>2. Bytes(p) = bytes
      BY <2>2, <2>3, <2>a
    <3>3. chunks[i].before = before /\ chunks[i].text = p
      BY <3>1
    <3>4. QED BY <3>2, <3>3 DEF Size
  <2>7. bytes <= max - before
    BY <1>3, <2>1, <2>3
  <2>8. QED BY <1>1, <1>3, <2>6, <2>7
<1>8. QED BY <1>5, <1>6, <1>7

-----------------------------------------------------------------------------
(* Packets. *)

\* A sequence whose elements stand in another one is a part of that one.
LEMMA PartIs ==
    ASSUME NEW V, NEW c \in Seq(V), NEW s \in Seq(V), NEW k \in Nat, k + Len(c) <= Len(s),
           \A i \in 1..Len(c) : s[k + i] = c[i]
    PROVE  SubSeq(s, k + 1, k + Len(c)) = c
<1> DEFINE m == SubSeq(s, k + 1, k + Len(c))
<1>1. Len(c) \in Nat /\ Len(s) \in Nat
  OBVIOUS
<1>2. \A i \in (k + 1)..(k + Len(c)) : s[i] \in V
  BY <1>1, ElementOfSeq
<1>3. /\ m \in Seq(V)
      /\ Len(m) = IF k + 1 <= k + Len(c) THEN (k + Len(c)) - (k + 1) + 1 ELSE 0
      /\ \A i \in 1..((k + Len(c)) - (k + 1) + 1) : m[i] = s[(k + 1) + i - 1]
  BY <1>1, <1>2, SubSeqProperties
<1> HIDE DEF m
<1>4. Len(m) = Len(c)
  BY <1>1, <1>3
<1>5. \A i \in 1..Len(c) : m[i] = s[k + i]
  <2>1. SUFFICES ASSUME NEW i \in 1..Len(c) PROVE m[i] = s[k + i]
    OBVIOUS
  <2>2. i \in 1..((k + Len(c)) - (k + 1) + 1) /\ (k + 1) + i - 1 = k + i
    BY <1>1
  <2>3. QED BY <1>3, <2>2
<1>6. m = c
  BY <1>3, <1>4, <1>5, SeqEqual
<1>7. QED BY <1>6 DEF m

\* What two sequences put together are.
Both(V, x, y, s) ==
    /\ s \in Seq(V) /\ Len(s) = Len(x) + Len(y)
    /\ \A i \in 1..Len(x) : s[i] = x[i]
    /\ \A i \in 1..Len(y) : s[Len(x) + i] = y[i]

\* Concatenation puts them together.
LEMMA TwoParts ==
    ASSUME NEW V, NEW x \in Seq(V), NEW y \in Seq(V)
    PROVE  Both(V, x, y, x \o y)
<1>1. /\ x \o y \in Seq(V) /\ Len(x \o y) = Len(x) + Len(y)
      /\ \A i \in 1..(Len(x) + Len(y)) : (x \o y)[i] = IF i <= Len(x) THEN x[i] ELSE y[i - Len(x)]
  BY ConcatProperties
<1>2. Len(x) \in Nat /\ Len(y) \in Nat
  OBVIOUS
<1>3. QED BY <1>1, <1>2 DEF Both

\* What five sequences put together are, and that each of them can be cut out again.
Parts(W, h, c, b, p, d, s) ==
    /\ s \in Seq(W) /\ Len(s) = Len(h) + Len(c) + Len(b) + Len(p) + Len(d)
    /\ \A i \in 1..Len(h) : s[i] = h[i]
    /\ SubSeq(s, Len(h) + 1, Len(h) + Len(c)) = c
    /\ \A i \in 1..Len(b) : s[Len(h) + Len(c) + i] = b[i]
    /\ SubSeq(s, Len(h) + Len(c) + Len(b) + 1, Len(h) + Len(c) + Len(b) + Len(p)) = p
    /\ SubSeq(s, Len(h) + Len(c) + Len(b) + Len(p) + 1, Len(s)) = d

\* So does a concatenation of five.
LEMMA FiveParts ==
    ASSUME NEW W, NEW h \in Seq(W), NEW c \in Seq(W), NEW b \in Seq(W), NEW p \in Seq(W),
           NEW d \in Seq(W)
    PROVE  Parts(W, h, c, b, p, d, h \o c \o b \o p \o d)
<1> DEFINE x == h \o c
           y == x \o b
           z == y \o p
           s == z \o d
<1>a. Both(W, h, c, x)
  BY TwoParts
<1>b. Both(W, x, b, y)
  <2>1. x \in Seq(W)
    BY <1>a DEF Both
  <2> HIDE DEF x
  <2>2. QED BY <2>1, TwoParts
<1>c. Both(W, y, p, z)
  <2>1. y \in Seq(W)
    BY <1>b DEF Both
  <2> HIDE DEF y
  <2>2. QED BY <2>1, TwoParts
<1>d. Both(W, z, d, s)
  <2>1. z \in Seq(W)
    BY <1>c DEF Both
  <2> HIDE DEF z
  <2>2. QED BY <2>1, TwoParts
<1> HIDE DEF x, y, z, s
<1>5. Len(h) \in Nat /\ Len(c) \in Nat /\ Len(b) \in Nat /\ Len(p) \in Nat /\ Len(d) \in Nat
  OBVIOUS
<1>6. /\ \A i \in 1..Len(h) : s[i] = h[i]
      /\ \A i \in 1..Len(c) : s[Len(h) + i] = c[i]
      /\ \A i \in 1..Len(b) : s[Len(x) + i] = b[i]
      /\ \A i \in 1..Len(p) : s[Len(y) + i] = p[i]
  <2>1. \A i \in 1..Len(y) : s[i] = y[i]
    BY <1>a, <1>b, <1>c, <1>d, <1>5 DEF Both
  <2>2. \A i \in 1..Len(x) : s[i] = x[i]
    BY <1>a, <1>b, <1>5, <2>1 DEF Both
  <2>3. \A i \in 1..Len(h) : s[i] = h[i]
    BY <1>a, <1>5, <2>2 DEF Both
  <2>4. \A i \in 1..Len(c) : s[Len(h) + i] = c[i]
    BY <1>a, <1>5, <2>2 DEF Both
  <2>5. \A i \in 1..Len(b) : s[Len(x) + i] = b[i]
    BY <1>a, <1>b, <1>5, <2>1 DEF Both
  <2>6. \A i \in 1..Len(p) : s[Len(y) + i] = p[i]
    BY <1>a, <1>b, <1>c, <1>d, <1>5, SMTT(30) DEF Both
  <2>7. QED BY <2>3, <2>4, <2>5, <2>6
<1>7. /\ Len(x) = Len(h) + Len(c) /\ Len(y) = Len(x) + Len(b) /\ Len(z) = Len(y) + Len(p)
      /\ Len(s) = Len(z) + Len(d) /\ s \in Seq(W)
  BY <1>a, <1>b, <1>c, <1>d DEF Both
<1>8. SubSeq(s, Len(h) + 1, Len(h) + Len(c)) = c
  <2>1. Len(h) + Len(c) <= Len(s)
    BY <1>5, <1>7
  <2>2. QED BY <1>5, <1>6, <1>7, <2>1, PartIs
<1>9. SubSeq(s, Len(y) + 1, Len(y) + Len(p)) = p
  <2>1. Len(y) + Len(p) <= Len(s) /\ Len(y) \in Nat
    BY <1>5, <1>7
  <2>2. QED BY <1>6, <1>7, <2>1, PartIs
<1>10. SubSeq(s, Len(z) + 1, Len(z) + Len(d)) = d
  <2>1. Len(z) + Len(d) <= Len(s) /\ Len(z) \in Nat /\ \A i \in 1..Len(d) : s[Len(z) + i] = d[i]
    BY <1>5, <1>7, <1>d DEF Both
  <2>2. QED BY <1>7, <2>1, PartIs
<1>11. Parts(W, h, c, b, p, d, s)
  BY <1>6, <1>7, <1>8, <1>9, <1>10 DEF Parts
<1>12. QED BY <1>11 DEF s, z, y, x

\* The fields packed into a packet's first byte, and into the one before its path.
LEMMA HeaderByte ==
    ASSUME NEW r \in 0..3, NEW t \in 0..15, NEW v \in 0..3
    PROVE  LET h == r + 4 * t + 64 * v
           IN h \in 0..255 /\ h % 4 = r /\ (h \div 4) % 16 = t /\ h \div 64 = v
OBVIOUS

\* The same of the byte before the path: hash size and number of hops.
LEMMA PathByte ==
    ASSUME NEW size \in 1..4, NEW hops \in 0..63
    PROVE  LET b == 64 * (size - 1) + hops
           IN b \in 0..255 /\ b \div 64 = size - 1 /\ b % 64 = hops
OBVIOUS

\* What a packet's bytes read as.
Reads(raw, h, b, codes, path, payload) ==
    /\ raw # NoBytes /\ Len(raw) = 2 + Len(codes) + Len(path) + Len(payload)
    /\ Parse(raw) = [route |-> h % 4, type |-> (h \div 4) % 16, version |-> h \div 64,
                     codes |-> codes, path |-> path, hashSize |-> (b \div 64) + 1,
                     payload |-> payload]

\* ParsePacket reads the parts out of bytes that are put together of them.
LEMMA PartsRead ==
    ASSUME NEW V, NEW h \in 0..255, NEW b \in 0..255, NEW codes \in Seq(V), NEW path \in Seq(V),
           NEW payload \in Seq(V),
           Len(codes) = (IF HasTransportCodes(h % 4) THEN 4 ELSE 0),
           Len(path) = (b % 64) * ((b \div 64) + 1),
           NEW raw, raw = <<h>> \o codes \o <<b>> \o path \o payload
    PROVE  Reads(raw, h, b, codes, path, payload)
<1> DEFINE W == V \cup Nat
<1>1. /\ <<h>> \in Seq(W) /\ <<b>> \in Seq(W) /\ codes \in Seq(W) /\ path \in Seq(W)
      /\ payload \in Seq(W)
  <2>1. V \subseteq W /\ h \in W /\ b \in W
    OBVIOUS
  <2>2. codes \in Seq(W) /\ path \in Seq(W) /\ payload \in Seq(W)
    BY <2>1, SeqMonotonic
  <2> HIDE DEF W
  <2>3. QED BY <2>1, <2>2
<1> HIDE DEF W
<1>2. PICK x : x = <<h>> /\ x \in Seq(W) /\ Len(x) = 1 /\ x[1] = h
  <2>1. Len(<<h>>) = 1 /\ <<h>>[1] = h
    OBVIOUS
  <2>2. QED BY <1>1, <2>1, Zenon
<1>3. PICK y : y = <<b>> /\ y \in Seq(W) /\ Len(y) = 1 /\ y[1] = b
  <2>1. Len(<<b>>) = 1 /\ <<b>>[1] = b
    OBVIOUS
  <2>2. QED BY <1>1, <2>1, Zenon
<1>4. Parts(W, x, codes, y, path, payload, raw)
  <2>1. x \in Seq(W) /\ y \in Seq(W)
    BY <1>2, <1>3
  <2>2. Parts(W, x, codes, y, path, payload, x \o codes \o y \o path \o payload)
    BY <1>1, <2>1, FiveParts
  <2>3. QED BY <1>2, <1>3, <2>2, Zenon
<1>5. Len(codes) \in Nat /\ Len(path) \in Nat /\ Len(payload) \in Nat
  OBVIOUS
<1>6. /\ raw \in Seq(W) /\ Len(raw) = Len(x) + Len(codes) + Len(y) + Len(path) + Len(payload)
      /\ \A i \in 1..Len(x) : raw[i] = x[i]
      /\ SubSeq(raw, Len(x) + 1, Len(x) + Len(codes)) = codes
      /\ \A i \in 1..Len(y) : raw[Len(x) + Len(codes) + i] = y[i]
      /\ SubSeq(raw, Len(x) + Len(codes) + Len(y) + 1,
                     Len(x) + Len(codes) + Len(y) + Len(path)) = path
      /\ SubSeq(raw, Len(x) + Len(codes) + Len(y) + Len(path) + 1, Len(raw)) = payload
  BY <1>4 DEF Parts
<1>7. PICK off : off = 1 + Len(codes)
  OBVIOUS
<1>8. raw[1] = h /\ raw[off + 1] = b /\ SubSeq(raw, 2, off) = codes
  <2>1. raw[1] = x[1] /\ raw[Len(x) + Len(codes) + 1] = y[1]
    <3>1. 1 \in 1..Len(x) /\ 1 \in 1..Len(y)
      BY <1>2, <1>3
    <3>2. QED BY <1>6, <3>1, Zenon
  <2>2. Len(x) + Len(codes) + 1 = off + 1 /\ Len(x) + 1 = 2 /\ Len(x) + Len(codes) = off
    BY <1>2, <1>5, <1>7
  <2>3. QED BY <1>2, <1>3, <1>6, <2>1, <2>2
<1>9. PICK end : end = off + 1 + Len(path)
  OBVIOUS
<1>10. SubSeq(raw, off + 2, end) = path /\ SubSeq(raw, end + 1, Len(raw)) = payload
  <2>1. /\ Len(x) + Len(codes) + Len(y) + 1 = off + 2
        /\ Len(x) + Len(codes) + Len(y) + Len(path) = end
    BY <1>2, <1>3, <1>5, <1>7, <1>9
  <2>2. QED BY <1>6, <2>1
<1>11. /\ Len(raw) = 2 + Len(codes) + Len(path) + Len(payload)
       /\ ~(Len(raw) < 2) /\ ~(Len(raw) <= off) /\ ~(Len(raw) < end)
  BY <1>2, <1>3, <1>5, <1>6, <1>7, <1>9, SMTT(30)
<1>12. raw # NoBytes
  BY <1>5, <1>11 DEF NoBytes
<1>13. (IF HasTransportCodes(raw[1] % 4) THEN 5 ELSE 1) = off
  BY <1>7, <1>8
<1>14. off + 1 + (raw[off + 1] % 64) * ((raw[off + 1] \div 64) + 1) = end
  BY <1>8, <1>9
<1>15. Parse(raw) = [route |-> raw[1] % 4, type |-> (raw[1] \div 4) % 16,
                     version |-> raw[1] \div 64,
                     codes |-> SubSeq(raw, 2, off), path |-> SubSeq(raw, off + 2, end),
                     hashSize |-> (raw[off + 1] \div 64) + 1,
                     payload |-> SubSeq(raw, end + 1, Len(raw))]
  BY <1>11, <1>13, <1>14, Zenon DEF Parse
<1>16. QED BY <1>8, <1>10, <1>11, <1>12, <1>15 DEF Reads

\* The packets there are, whatever codes, paths and payloads are made of.
PacketsOf(V) ==
    [route : 0..3, type : 0..15, version : 0..3, codes : Seq(V), path : Seq(V),
     hashSize : Nat, payload : Seq(V)]

SizeOf(p) == IF p.hashSize = 0 THEN 1 ELSE p.hashSize
CodesOf(p) == IF HasTransportCodes(p.route) THEN p.codes ELSE <<>>
HopsOf(p) == Len(p.path) \div SizeOf(p)

\* What BuildPacket takes.
Buildable(p) ==
    ~ \/ SizeOf(p) \notin 1..4 \/ Len(p.path) % SizeOf(p) # 0
      \/ HopsOf(p) > MaxHops \/ Len(p.path) > MaxPathSize
      \/ Len(p.payload) > MaxPacketPayload
      \/ HasTransportCodes(p.route) /\ Len(p.codes) # 4

\* A path of whole hops: the number of them, and back.
LEMMA WholeHops ==
    ASSUME NEW n \in Nat, NEW size \in 1..4
    PROVE  /\ n \div size \in Nat /\ (n % size = 0 => n = (n \div size) * size)
<1>1. CASE size = 1
  BY <1>1
<1>2. CASE size = 2
  BY <1>2
<1>3. CASE size = 3
  BY <1>3
<1>4. CASE size = 4
  BY <1>4
<1>5. QED BY <1>1, <1>2, <1>3, <1>4

\* BuildPacket by its cases.
LEMMA BuildBytes ==
    ASSUME NEW p
    PROVE  Build(p) = IF Buildable(p)
                      THEN <<p.route + 4 * p.type + 64 * p.version>> \o CodesOf(p)
                           \o <<64 * (SizeOf(p) - 1) + HopsOf(p)>> \o p.path \o p.payload
                      ELSE NoBytes
BY Zenon DEF Build, Buildable, SizeOf, CodesOf, HopsOf

\* What BuildPacket takes is built, and read back field by field.
LEMMA BuiltParses ==
    ASSUME NEW V, NEW p \in PacketsOf(V), Buildable(p)
    PROVE  /\ Build(p) # NoBytes
           /\ Len(Build(p)) = 2 + Len(CodesOf(p)) + Len(p.path) + Len(p.payload)
           /\ Parse(Build(p)) = [route |-> p.route, type |-> p.type, version |-> p.version,
                                 codes |-> CodesOf(p), path |-> p.path, hashSize |-> SizeOf(p),
                                 payload |-> p.payload]
<1>1. PICK r \in 0..3, t \in 0..15, v \in 0..3 : r = p.route /\ t = p.type /\ v = p.version
  BY DEF PacketsOf
<1>2. PICK path \in Seq(V), payload \in Seq(V) : path = p.path /\ payload = p.payload
  BY DEF PacketsOf
<1>3. PICK codes \in Seq(V) : /\ codes = CodesOf(p)
                              /\ Len(codes) = (IF HasTransportCodes(r) THEN 4 ELSE 0)
  <2>1. CASE HasTransportCodes(r)
    <3>1. CodesOf(p) = p.codes /\ p.codes \in Seq(V) /\ Len(p.codes) = 4
      BY <1>1, <2>1 DEF CodesOf, PacketsOf, Buildable
    <3>2. QED BY <2>1, <3>1
  <2>2. CASE ~HasTransportCodes(r)
    <3>1. CodesOf(p) = <<>>
      BY <1>1, <2>2 DEF CodesOf
    <3>2. <<>> \in Seq(V) /\ Len(<<>>) = 0
      OBVIOUS
    <3>3. CodesOf(p) \in Seq(V) /\ Len(CodesOf(p)) = (IF HasTransportCodes(r) THEN 4 ELSE 0)
      BY <2>2, <3>1, <3>2
    <3>4. QED BY <3>3
  <2>3. QED BY <2>1, <2>2
<1>4. PICK size \in 1..4 : size = SizeOf(p)
  BY DEF Buildable
<1>5. PICK hops \in 0..63 : hops = HopsOf(p) /\ Len(path) = hops * size
  <2>1. Len(path) \in Nat /\ Len(path) % size = 0 /\ Len(path) \div size <= 63
    BY <1>2, <1>4 DEF Buildable, HopsOf, MaxHops
  <2>2. Len(path) \div size \in Nat /\ Len(path) = (Len(path) \div size) * size
    BY <2>1, WholeHops
  <2>3. PICK k \in 0..63 : k = Len(path) \div size
    <3>1. \A k \in Nat : k <= 63 => k \in 0..63
      OBVIOUS
    <3>2. QED BY <2>1, <2>2, <3>1, Zenon
  <2>4. HopsOf(p) = Len(path) \div size
    BY <1>2, <1>4 DEF HopsOf
  <2>5. QED BY <2>2, <2>3, <2>4
<1>6. PICK h \in 0..255 : /\ h = r + 4 * t + 64 * v
                          /\ h % 4 = r /\ (h \div 4) % 16 = t /\ h \div 64 = v
  BY HeaderByte
<1>7. PICK b \in 0..255 : /\ b = 64 * (size - 1) + hops
                          /\ b \div 64 = size - 1 /\ b % 64 = hops
  BY PathByte
<1>8. (b \div 64) + 1 = size
  BY <1>7
<1>9. Len(path) = (b % 64) * ((b \div 64) + 1)
  BY <1>5, <1>7, <1>8
<1>10. Len(codes) = (IF HasTransportCodes(h % 4) THEN 4 ELSE 0)
  BY <1>3, <1>6
<1>11. Build(p) = <<h>> \o codes \o <<b>> \o path \o payload
  BY <1>1, <1>2, <1>3, <1>4, <1>5, <1>6, <1>7, BuildBytes
<1>12. Reads(Build(p), h, b, codes, path, payload)
  BY <1>9, <1>10, <1>11, PartsRead
<1>13. QED BY <1>1, <1>2, <1>3, <1>4, <1>6, <1>8, <1>12 DEF Reads

\* BuildPacket and ParsePacket, for every packet: what was built is read back.
THEOREM EveryPacketReadBack ==
    ASSUME NEW V PROVE \A p \in PacketsOf(V) : RoundTrip(p)
<1>1. SUFFICES ASSUME NEW p \in PacketsOf(V), Build(p) # NoBytes PROVE RoundTrip(p)
  BY DEF RoundTrip
<1>2. Buildable(p)
  BY <1>1, BuildBytes
<1>3. Parse(Build(p)) = [route |-> p.route, type |-> p.type, version |-> p.version,
                         codes |-> CodesOf(p), path |-> p.path, hashSize |-> SizeOf(p),
                         payload |-> p.payload]
  BY <1>2, BuiltParses
<1>4. QED BY <1>3 DEF RoundTrip, CodesOf, SizeOf

\* The fields of a packet's first byte, and of the one before its path, packed again.
LEMMA HeaderBack ==
    ASSUME NEW h \in 0..255
    PROVE  (h % 4) + 4 * ((h \div 4) % 16) + 64 * (h \div 64) = h
OBVIOUS

\* The byte before the path holds what is read from it, and nothing else.
LEMMA PathBack ==
    ASSUME NEW b \in 0..255
    PROVE  /\ (b \div 64) + 1 \in 1..4 /\ b % 64 \in 0..63
           /\ 64 * ((b \div 64) + 1 - 1) + (b % 64) = b
OBVIOUS

\* The hops of a path that is made of them.
LEMMA HopsBack ==
    ASSUME NEW k \in Nat, NEW size \in 1..4
    PROVE  (k * size) % size = 0 /\ (k * size) \div size = k
<1>1. CASE size = 1
  BY <1>1
<1>2. CASE size = 2
  BY <1>2
<1>3. CASE size = 3
  BY <1>3
<1>4. CASE size = 4
  BY <1>4
<1>5. QED BY <1>1, <1>2, <1>3, <1>4

\* The first i elements and those after them up to the j-th are the first j.
LEMMA Prolonged ==
    ASSUME NEW V, NEW s \in Seq(V), NEW i \in 0..Len(s), NEW j \in i..Len(s)
    PROVE  SubSeq(s, 1, i) \o SubSeq(s, i + 1, j) = SubSeq(s, 1, j)
<1>1. 1 \in 1..(Len(s) + 1) /\ i \in (1 - 1)..Len(s) /\ j \in i..Len(s)
  OBVIOUS
<1>2. QED BY <1>1, ConcatAdjacentSubSeq

\* A part of one element.
LEMMA OneOf ==
    ASSUME NEW V, NEW s \in Seq(V), NEW i \in 1..Len(s)
    PROVE  SubSeq(s, i, i) = <<s[i]>>
<1>1. /\ SubSeq(s, i, i) \in Seq(V) /\ Len(SubSeq(s, i, i)) = 1
      /\ SubSeq(s, i, i)[1] = s[i]
  <2>1. i \in Int /\ \A k \in i..i : s[k] \in V
    OBVIOUS
  <2>2. /\ SubSeq(s, i, i) \in Seq(V)
        /\ Len(SubSeq(s, i, i)) = (IF i <= i THEN i - i + 1 ELSE 0)
        /\ \A k \in 1..(i - i + 1) : SubSeq(s, i, i)[k] = s[i + k - 1]
    BY <2>1, SubSeqProperties
  <2>3. i - i + 1 = 1 /\ i + 1 - 1 = i /\ i <= i
    OBVIOUS
  <2>4. QED BY <2>2, <2>3
<1>2. /\ <<s[i]>> \in Seq(V) /\ Len(<<s[i]>>) = 1 /\ <<s[i]>>[1] = s[i]
  <2>1. s[i] \in V
    OBVIOUS
  <2>2. QED BY <2>1
<1>3. PICK x \in Seq(V) : x = SubSeq(s, i, i)
  BY <1>1
<1>4. PICK y \in Seq(V) : y = <<s[i]>>
  BY <1>2
<1>5. Len(x) = 1 /\ Len(y) = 1 /\ x[1] = y[1]
  BY <1>1, <1>2, <1>3, <1>4, Zenon
<1>6. Len(x) = Len(y) /\ \A k \in 1..Len(x) : x[k] = y[k]
  BY <1>5
<1>7. x = y
  BY <1>6, SeqEqual
<1>8. QED BY <1>3, <1>4, <1>7

\* ParsePacket, for all bytes: those that are taken for a packet are its bytes.
THEOREM EveryPacketKept ==
    \A raw \in Seq(0..255) : RawKept(raw)
<1>1. SUFFICES ASSUME NEW raw \in Seq(0..255), Parse(raw) # Error,
                      Len(Parse(raw).path) <= MaxPathSize,
                      Len(Parse(raw).payload) <= MaxPacketPayload
               PROVE  Build(Parse(raw)) = raw
  BY DEF RawKept
<1>2. PICK n \in Nat : n = Len(raw)
  OBVIOUS
<1>3. PICK off \in {1, 5} : off = IF HasTransportCodes(raw[1] % 4) THEN 5 ELSE 1
  OBVIOUS
<1>4. PICK e : e = off + 1 + (raw[off + 1] % 64) * ((raw[off + 1] \div 64) + 1)
  OBVIOUS
<1>5. /\ ~(n < 2) /\ ~(n <= off) /\ ~(n < e)
      /\ Parse(raw) = [route |-> raw[1] % 4, type |-> (raw[1] \div 4) % 16,
                       version |-> raw[1] \div 64,
                       codes |-> SubSeq(raw, 2, off), path |-> SubSeq(raw, off + 2, e),
                       hashSize |-> (raw[off + 1] \div 64) + 1,
                       payload |-> SubSeq(raw, e + 1, n)]
  BY <1>1, <1>2, <1>3, <1>4, Zenon DEF Parse
<1>a. \A i \in 1..n : raw[i] \in 0..255
  BY <1>2, ElementOfSeq
<1>b. 1 \in 1..n /\ off + 1 \in 1..n
  BY <1>5
<1>6. PICK h \in 0..255 : h = raw[1]
  BY <1>a, <1>b, Zenon
<1>7. PICK b \in 0..255 : b = raw[off + 1]
  BY <1>a, <1>b, Zenon
<1>8. PICK size \in 1..4, hops \in 0..63 : /\ size = (b \div 64) + 1 /\ hops = b % 64
                                           /\ 64 * (size - 1) + hops = b
  BY PathBack
<1>9. /\ e \in Nat /\ e = off + 1 + hops * size /\ e >= off + 1 /\ e <= n
  <2>1. hops * size \in Nat
    OBVIOUS
  <2>2. e = off + 1 + hops * size
    BY <1>4, <1>7, <1>8
  <2>3. QED BY <1>5, <2>1, <2>2
<1>10. PICK p : p = Parse(raw)
  OBVIOUS
<1>11. /\ p.route = h % 4 /\ p.type = (h \div 4) % 16 /\ p.version = h \div 64
       /\ p.codes = SubSeq(raw, 2, off) /\ p.path = SubSeq(raw, off + 2, e)
       /\ p.hashSize = size /\ p.payload = SubSeq(raw, e + 1, n)
  <2>1. /\ p.route = raw[1] % 4 /\ p.type = (raw[1] \div 4) % 16 /\ p.version = raw[1] \div 64
        /\ p.codes = SubSeq(raw, 2, off) /\ p.path = SubSeq(raw, off + 2, e)
        /\ p.hashSize = (raw[off + 1] \div 64) + 1 /\ p.payload = SubSeq(raw, e + 1, n)
    <3>1. PICK r, t, v, c, w, s, d :
             /\ r = raw[1] % 4 /\ t = (raw[1] \div 4) % 16 /\ v = raw[1] \div 64
             /\ c = SubSeq(raw, 2, off) /\ w = SubSeq(raw, off + 2, e)
             /\ s = (raw[off + 1] \div 64) + 1 /\ d = SubSeq(raw, e + 1, n)
      OBVIOUS
    <3>2. p = [route |-> r, type |-> t, version |-> v, codes |-> c, path |-> w,
               hashSize |-> s, payload |-> d]
      BY <1>5, <1>10, <3>1, Zenon
    <3>3. QED BY <3>1, <3>2
  <2>2. QED BY <1>6, <1>7, <1>8, <2>1
<1>12. SizeOf(p) = size
  BY <1>11 DEF SizeOf
<1>13. Len(p.path) = hops * size
  <2>1. \A k \in (off + 2)..e : raw[k] \in 0..255
    <3>1. e \in Nat /\ e <= n
      BY <1>9
    <3>2. QED BY <1>a, <3>1
  <2>2. Len(SubSeq(raw, off + 2, e)) = IF off + 2 <= e THEN e - (off + 2) + 1 ELSE 0
    BY <1>9, <2>1, SubSeqProperties
  <2>3. (IF off + 2 <= e THEN e - (off + 2) + 1 ELSE 0) = e - off - 1
    BY <1>9
  <2>4. hops * size = e - off - 1
    <3>1. hops * size \in Nat
      OBVIOUS
    <3>2. QED BY <1>9, <3>1
  <2>5. QED BY <1>11, <2>2, <2>3, <2>4
<1>14. HopsOf(p) = hops /\ Len(p.path) % SizeOf(p) = 0
  <2>1. hops * size \in Nat
    OBVIOUS
  <2>2. (hops * size) % size = 0 /\ (hops * size) \div size = hops
    BY HopsBack
  <2>3. QED BY <1>12, <1>13, <2>2 DEF HopsOf
<1>15. CodesOf(p) = SubSeq(raw, 2, off) /\ (HasTransportCodes(p.route) => Len(p.codes) = 4)
  <2>1. CASE HasTransportCodes(p.route)
    <3>1. off = 5 /\ n >= 6
      BY <1>3, <1>5, <1>6, <1>11, <2>1
    <3>2. \A k \in 2..5 : raw[k] \in 0..255
      BY <1>a, <3>1
    <3>3. Len(SubSeq(raw, 2, 5)) = IF 2 <= 5 THEN 5 - 2 + 1 ELSE 0
      BY <3>2, SubSeqProperties
    <3>4. Len(p.codes) = 4
      BY <1>11, <3>1, <3>3
    <3>5. QED BY <1>11, <2>1, <3>4 DEF CodesOf
  <2>2. CASE ~HasTransportCodes(p.route)
    <3>1. off = 1
      BY <1>3, <1>6, <1>11, <2>2
    <3>2. SubSeq(raw, 2, 1) = <<>>
      BY SubSeqEmpty
    <3>3. QED BY <2>2, <3>1, <3>2 DEF CodesOf
  <2>3. QED BY <2>1, <2>2
<1>16. Buildable(p)
  <2>1. Len(p.path) <= MaxPathSize /\ Len(p.payload) <= MaxPacketPayload
    BY <1>1, <1>10
  <2>2. Len(p.path) \in Nat /\ Len(p.payload) \in Nat
    <3>1. hops * size \in Nat
      OBVIOUS
    <3>2. SubSeq(raw, e + 1, n) \in Seq(0..255)
      <4>1. \A k \in (e + 1)..n : raw[k] \in 0..255
        BY <1>a, <1>9
      <4>2. QED BY <1>9, <4>1, SubSeqProperties
    <3>3. Len(SubSeq(raw, e + 1, n)) \in Nat
      BY <3>2, LenProperties
    <3>4. QED BY <1>11, <1>13, <3>1, <3>3
  <2>3. ~(Len(p.path) > MaxPathSize) /\ ~(Len(p.payload) > MaxPacketPayload)
    BY <2>1, <2>2 DEF MaxPathSize, MaxPacketPayload
  <2>4. ~(HopsOf(p) > MaxHops)
    BY <1>14 DEF MaxHops
  <2>5. QED BY <1>12, <1>14, <1>15, <2>3, <2>4 DEF Buildable
<1>17. /\ p.route + 4 * p.type + 64 * p.version = h
       /\ 64 * (SizeOf(p) - 1) + HopsOf(p) = b
  <2>1. (h % 4) + 4 * ((h \div 4) % 16) + 64 * (h \div 64) = h
    BY HeaderBack
  <2>2. QED BY <1>8, <1>11, <1>12, <1>14, <2>1
<1>18. Build(p) = SubSeq(raw, 1, 1) \o SubSeq(raw, 2, off) \o SubSeq(raw, off + 1, off + 1)
                  \o SubSeq(raw, off + 2, e) \o SubSeq(raw, e + 1, n)
  <2>1. Build(p) = <<p.route + 4 * p.type + 64 * p.version>> \o CodesOf(p)
                   \o <<64 * (SizeOf(p) - 1) + HopsOf(p)>> \o p.path \o p.payload
    BY <1>16, BuildBytes, Zenon
  <2>2. SubSeq(raw, 1, 1) = <<raw[1]>> /\ SubSeq(raw, off + 1, off + 1) = <<raw[off + 1]>>
    <3>1. 1 \in 1..Len(raw) /\ off + 1 \in 1..Len(raw)
      BY <1>2, <1>5
    <3>2. QED BY <3>1, OneOf
  <2>3. QED BY <1>6, <1>7, <1>11, <1>15, <1>17, <2>1, <2>2, Zenon
<1>19. SubSeq(raw, 1, 1) \o SubSeq(raw, 2, off) = SubSeq(raw, 1, off)
  <2>1. 1 \in 0..Len(raw) /\ off \in 1..Len(raw) /\ 1 + 1 = 2
    BY <1>2, <1>5
  <2>2. QED BY <2>1, Prolonged
<1>20. SubSeq(raw, 1, off) \o SubSeq(raw, off + 1, off + 1) = SubSeq(raw, 1, off + 1)
  <2>1. off \in 0..Len(raw) /\ off + 1 \in off..Len(raw)
    BY <1>2, <1>5
  <2>2. QED BY <2>1, Prolonged
<1>21. SubSeq(raw, 1, off + 1) \o SubSeq(raw, off + 2, e) = SubSeq(raw, 1, e)
  <2>1. off + 1 \in 0..Len(raw) /\ e \in (off + 1)..Len(raw) /\ off + 1 + 1 = off + 2
    BY <1>2, <1>5, <1>9
  <2>2. QED BY <2>1, Prolonged
<1>22. SubSeq(raw, 1, e) \o SubSeq(raw, e + 1, n) = raw
  <2>1. e \in 0..Len(raw) /\ n \in e..Len(raw)
    BY <1>2, <1>9
  <2>2. SubSeq(raw, 1, e) \o SubSeq(raw, e + 1, n) = SubSeq(raw, 1, n)
    BY <2>1, Prolonged
  <2>3. QED BY <1>2, <2>2, SubSeqFull
<1>23. Build(p) = raw
  BY <1>18, <1>19, <1>20, <1>21, <1>22, Zenon
<1>24. QED BY <1>10, <1>23

-----------------------------------------------------------------------------
(* Copies of a message. *)

\* The packet s with another path.
CopyOf(s, path) ==
    [route |-> s.route, type |-> s.type, version |-> s.version, codes |-> s.codes,
     path |-> path, hashSize |-> s.hashSize, payload |-> s.payload]

\* A packet whose path can be written, with the hash size and the codes it is read with.
Sent(V, s) ==
    s \in PacketsOf(V) /\ Buildable(s) /\ s.hashSize \in 1..4 /\ CodesOf(s) = s.codes

\* A copy is read back with the path it was built with.
LEMMA CopyRead ==
    ASSUME NEW V, NEW s, Sent(V, s), NEW P \in Seq(V), NEW k \in 0..MaxHops,
           Len(P) = k * s.hashSize, Len(P) <= MaxPathSize
    PROVE  /\ CopyOf(s, P) \in PacketsOf(V) /\ Buildable(CopyOf(s, P))
           /\ Parse(Build(CopyOf(s, P))) = CopyOf(s, P)
<1> DEFINE c == CopyOf(s, P)
<1>1. /\ c.route = s.route /\ c.type = s.type /\ c.version = s.version /\ c.codes = s.codes
      /\ c.path = P /\ c.hashSize = s.hashSize /\ c.payload = s.payload
  BY DEF CopyOf
<1>2. c \in PacketsOf(V)
  BY DEF CopyOf, Sent, PacketsOf
<1>3. PICK size \in 1..4 : size = s.hashSize
  BY DEF Sent
<1> HIDE DEF c
<1>4. SizeOf(c) = size /\ SizeOf(s) = size /\ CodesOf(c) = s.codes
  BY <1>1, <1>3 DEF SizeOf, CodesOf, Sent
<1>5. k \in Nat /\ k <= 63
  BY DEF MaxHops
<1>6. Len(P) % size = 0 /\ Len(P) \div size = k
  BY <1>3, <1>5, HopsBack
<1>7. ~(k > MaxHops) /\ ~(Len(P) > MaxPathSize)
  BY <1>5 DEF MaxHops, MaxPathSize
<1>8. Buildable(c)
  BY <1>1, <1>4, <1>6, <1>7 DEF Sent, Buildable, HopsOf
<1>9. Parse(Build(c)) = [route |-> c.route, type |-> c.type, version |-> c.version,
                         codes |-> CodesOf(c), path |-> c.path, hashSize |-> SizeOf(c),
                         payload |-> c.payload]
  BY <1>2, <1>8, BuiltParses
<1>10. Parse(Build(c)) = CopyOf(s, P)
  BY <1>1, <1>3, <1>4, <1>9 DEF CopyOf
<1>11. QED BY <1>2, <1>8, <1>10 DEF c

\* What one repeater makes of a copy.
LEMMA OneRelay ==
    ASSUME NEW V, NEW s, Sent(V, s), NEW P \in Seq(V), NEW k \in 0..MaxHops,
           Len(P) = k * s.hashSize, Len(P) <= MaxPathSize, NEW hop
    PROVE  Relayed(Build(CopyOf(s, P)), hop) = Build(CopyOf(s, P \o SubSeq(hop, 1, s.hashSize)))
<1>1. Parse(Build(CopyOf(s, P))) = CopyOf(s, P)
  BY CopyRead
<1>2. CopyOf(s, P).path = P /\ CopyOf(s, P).hashSize = s.hashSize
  BY DEF CopyOf
<1>3. PICK X : X = P \o SubSeq(hop, 1, s.hashSize)
  OBVIOUS
<1>4. [CopyOf(s, P) EXCEPT !.path = X] = CopyOf(s, X)
  BY DEF CopyOf
<1>5. Relayed(Build(CopyOf(s, P)), hop)
        = Build([CopyOf(s, P) EXCEPT !.path = P \o SubSeq(hop, 1, s.hashSize)])
  BY <1>1, <1>2, Zenon DEF Relayed
<1>6. QED BY <1>3, <1>4, <1>5, Zenon

\* Repeaters whose hashes have at least size bytes, and whose hashes fill no more than a path.
Hashes(V, size, hops) ==
    /\ hops \in Seq(Seq(V)) /\ \A i \in 1..Len(hops) : Len(hops[i]) >= size
    /\ Len(hops) <= MaxHops /\ Len(hops) * size <= MaxPathSize

\* The path the first i of them leave in a copy.
PathOf(hops, size, i) ==
    [j \in 1..(i * size) |-> hops[((j - 1) \div size) + 1][((j - 1) % size) + 1]]

\* The byte of a path that belongs to the t-th byte of a hop's hash.
LEMMA ByteOfHop ==
    ASSUME NEW size \in 1..4
    PROVE  /\ \A i \in Nat, t \in 1..size :
                 /\ ((i * size + t - 1) \div size) + 1 = i + 1
                 /\ ((i * size + t - 1) % size) + 1 = t
           /\ \A i \in Nat : \A j \in 1..(i * size) : /\ ((j - 1) \div size) + 1 \in 1..i
                                                     /\ ((j - 1) % size) + 1 \in 1..size
           /\ \A i \in Nat : i * size \in Nat /\ (i + 1) * size = i * size + size
<1>1. CASE size = 1
  BY <1>1
<1>2. CASE size = 2
  BY <1>2
<1>3. CASE size = 3
  BY <1>3
<1>4. CASE size = 4
  BY <1>4
<1>5. QED BY <1>1, <1>2, <1>3, <1>4

\* It can be written, the next repeater prolongs it, and the hashes can be read in it.
GoodPath(V, size, hops, i) ==
    /\ PathOf(hops, size, i) \in Seq(V) /\ Len(PathOf(hops, size, i)) = i * size
    /\ i * size <= MaxPathSize /\ i \in 0..MaxHops
    /\ i < Len(hops) =>
          PathOf(hops, size, i + 1) = PathOf(hops, size, i) \o SubSeq(hops[i + 1], 1, size)
    /\ \A n \in 1..i :
          SubSeq(PathOf(hops, size, i), (n - 1) * size + 1, n * size) = SubSeq(hops[n], 1, size)

\* The path after i repeaters is theirs, hop by hop.
LEMMA PathFacts ==
    ASSUME NEW V, NEW size \in 1..4, NEW hops, Hashes(V, size, hops), NEW i \in 0..Len(hops)
    PROVE  GoodPath(V, size, hops, i)
<1>1. PICK m \in Nat : m = Len(hops)
  BY DEF Hashes
<1>2. \A n \in 1..m : /\ hops[n] \in Seq(V) /\ Len(hops[n]) \in Nat /\ Len(hops[n]) >= size
                      /\ \A t \in 1..size : hops[n][t] \in V
  <2>1. SUFFICES ASSUME NEW n \in 1..m
                 PROVE  /\ hops[n] \in Seq(V) /\ Len(hops[n]) \in Nat /\ Len(hops[n]) >= size
                        /\ \A t \in 1..size : hops[n][t] \in V
    OBVIOUS
  <2>2. hops[n] \in Seq(V) /\ Len(hops[n]) >= size
    BY <1>1, ElementOfSeq DEF Hashes
  <2>3. PICK h \in Seq(V) : h = hops[n]
    BY <2>2
  <2>4. Len(h) \in Nat /\ \A t \in 1..Len(h) : h[t] \in V
    OBVIOUS
  <2>5. QED BY <2>2, <2>3, <2>4
<1>3. \A k \in 0..m : /\ k * size \in Nat
                      /\ PathOf(hops, size, k) \in [1..(k * size) -> V]
  <2>1. SUFFICES ASSUME NEW k \in 0..m
                 PROVE  k * size \in Nat /\ PathOf(hops, size, k) \in [1..(k * size) -> V]
    OBVIOUS
  <2>2. \A j \in 1..(k * size) : ((j - 1) \div size) + 1 \in 1..m /\ ((j - 1) % size) + 1 \in 1..size
    <3>1. \A j \in 1..(k * size) : ((j - 1) \div size) + 1 \in 1..k /\ ((j - 1) % size) + 1 \in 1..size
      BY ByteOfHop
    <3>2. \A q \in 1..k : q \in 1..m
      OBVIOUS
    <3>3. QED BY <3>1, <3>2, Zenon
  <2>3. \A j \in 1..(k * size) : hops[((j - 1) \div size) + 1][((j - 1) % size) + 1] \in V
    BY <1>2, <2>2, Zenon
  <2>4. k * size \in Nat
    BY ByteOfHop
  <2>5. QED BY <2>3, <2>4 DEF PathOf
<1>4. \A k \in 0..m : PathOf(hops, size, k) \in Seq(V) /\ Len(PathOf(hops, size, k)) = k * size
  <2>1. SUFFICES ASSUME NEW k \in 0..m
                 PROVE  PathOf(hops, size, k) \in Seq(V) /\ Len(PathOf(hops, size, k)) = k * size
    OBVIOUS
  <2>2. PICK q \in Nat : q = k * size
    BY <1>3
  <2>3. PICK P : P = PathOf(hops, size, k)
    OBVIOUS
  <2>4. P \in [1..q -> V]
    BY <1>3, <2>2, <2>3
  <2>5. P \in Seq(V) /\ Len(P) = q
    BY <2>4
  <2>6. QED BY <2>2, <2>3, <2>5
<1>5. i * size <= MaxPathSize /\ i \in 0..MaxHops
  <2>1. i \in 0..m /\ m * size <= MaxPathSize /\ m <= MaxHops
    BY <1>1 DEF Hashes
  <2>2. i * size <= m * size
    <3>1. CASE size = 1
      BY <2>1, <3>1
    <3>2. CASE size = 2
      BY <2>1, <3>2
    <3>3. CASE size = 3
      BY <2>1, <3>3
    <3>4. CASE size = 4
      BY <2>1, <3>4
    <3>5. QED BY <3>1, <3>2, <3>3, <3>4
  <2>3. i * size \in Nat /\ m * size \in Nat
    BY <1>3, <2>1
  <2>4. QED BY <2>1, <2>2, <2>3 DEF MaxPathSize, MaxHops
\* The t-th byte of the n-th hop.
<1>6. \A k \in 0..m : \A n \in 1..k : \A t \in 1..size :
         PathOf(hops, size, k)[(n - 1) * size + t] = hops[n][t]
  <2>1. SUFFICES ASSUME NEW k \in 0..m, NEW n \in 1..k, NEW t \in 1..size
                 PROVE  PathOf(hops, size, k)[(n - 1) * size + t] = hops[n][t]
    OBVIOUS
  <2>2. n - 1 \in Nat
    OBVIOUS
  <2>3. PICK q : q = (n - 1) * size + t
    OBVIOUS
  <2>4. ((q - 1) \div size) + 1 = n /\ ((q - 1) % size) + 1 = t
    <3>1. /\ (((n - 1) * size + t - 1) \div size) + 1 = n - 1 + 1
          /\ (((n - 1) * size + t - 1) % size) + 1 = t
      BY <2>2, ByteOfHop
    <3>2. n - 1 + 1 = n
      OBVIOUS
    <3>3. QED BY <2>3, <3>1, <3>2
  <2>5. q \in 1..(k * size)
    <3>1. CASE size = 1
      BY <2>3, <3>1
    <3>2. CASE size = 2
      BY <2>3, <3>2
    <3>3. CASE size = 3
      BY <2>3, <3>3
    <3>4. CASE size = 4
      BY <2>3, <3>4
    <3>5. QED BY <3>1, <3>2, <3>3, <3>4
  <2>6. PathOf(hops, size, k)[q] = hops[((q - 1) \div size) + 1][((q - 1) % size) + 1]
    BY <2>5, Zenon DEF PathOf
  <2>7. QED BY <2>3, <2>4, <2>6, Zenon
<1>7. \A n \in 1..m : /\ SubSeq(hops[n], 1, size) \in Seq(V) /\ Len(SubSeq(hops[n], 1, size)) = size
                      /\ \A t \in 1..size : SubSeq(hops[n], 1, size)[t] = hops[n][t]
  <2>1. SUFFICES ASSUME NEW n \in 1..m
                 PROVE  /\ SubSeq(hops[n], 1, size) \in Seq(V) /\ Len(SubSeq(hops[n], 1, size)) = size
                        /\ \A t \in 1..size : SubSeq(hops[n], 1, size)[t] = hops[n][t]
    OBVIOUS
  <2>2. PICK h : h = hops[n] /\ \A t \in 1..size : h[t] \in V
    BY <1>2
  <2>3. /\ SubSeq(h, 1, size) \in Seq(V) /\ Len(SubSeq(h, 1, size)) = IF 1 <= size THEN size - 1 + 1 ELSE 0
        /\ \A t \in 1..(size - 1 + 1) : SubSeq(h, 1, size)[t] = h[1 + t - 1]
    BY <2>2, SubSeqProperties
  <2>4. size - 1 + 1 = size /\ 1 <= size /\ \A t \in 1..size : 1 + t - 1 = t
    OBVIOUS
  <2>5. QED BY <2>2, <2>3, <2>4
<1>8. ASSUME i < Len(hops)
      PROVE  PathOf(hops, size, i + 1) = PathOf(hops, size, i) \o SubSeq(hops[i + 1], 1, size)
  <2>1. i + 1 \in 1..m /\ i + 1 \in 0..m /\ i \in 0..m
    BY <1>1, <1>8
  <2>2. PICK x \in Seq(V) : x = PathOf(hops, size, i) /\ Len(x) = i * size
    BY <1>4, <2>1
  <2>3. PICK y \in Seq(V) : /\ y = SubSeq(hops[i + 1], 1, size) /\ Len(y) = size
                            /\ \A t \in 1..size : y[t] = hops[i + 1][t]
    BY <1>7, <2>1
  <2>4. PICK z \in Seq(V) : z = PathOf(hops, size, i + 1) /\ Len(z) = (i + 1) * size
    BY <1>4, <2>1
  <2>5. Both(V, x, y, x \o y)
    BY TwoParts
  <2>6. PICK w : w = x \o y
    OBVIOUS
  <2>7. PICK q \in Nat : q = i * size /\ (i + 1) * size = q + size
    <3>1. i \in Nat
      OBVIOUS
    <3>2. QED BY <3>1, ByteOfHop
  <2>8. w \in Seq(V) /\ Len(w) = q + size /\ Len(z) = q + size
    BY <2>2, <2>3, <2>4, <2>5, <2>6, <2>7 DEF Both
  <2>9. \A j \in 1..q : z[j] = x[j]
    <3>1. SUFFICES ASSUME NEW j \in 1..q PROVE z[j] = x[j]
      OBVIOUS
    <3>2. j \in 1..(i * size) /\ j \in 1..((i + 1) * size)
      BY <2>7
    <3>3. PathOf(hops, size, i)[j] = PathOf(hops, size, i + 1)[j]
      BY <3>2, Zenon DEF PathOf
    <3>4. QED BY <2>2, <2>4, <3>3
  <2>10. \A t \in 1..size : z[q + t] = y[t]
    <3>1. SUFFICES ASSUME NEW t \in 1..size PROVE z[q + t] = y[t]
      OBVIOUS
    <3>2. i + 1 \in 1..(i + 1) /\ (i + 1) - 1 = i
      OBVIOUS
    <3>3. PathOf(hops, size, i + 1)[i * size + t] = hops[i + 1][t]
      BY <1>6, <2>1, <3>2
    <3>4. QED BY <2>3, <2>4, <2>7, <3>3
  <2>11. \A j \in 1..(q + size) : z[j] = w[j]
    <3>1. SUFFICES ASSUME NEW j \in 1..(q + size) PROVE z[j] = w[j]
      OBVIOUS
    <3>2. \A t \in 1..q : w[t] = x[t]
      BY <2>2, <2>5, <2>6, <2>7 DEF Both
    <3>3. \A t \in 1..size : w[q + t] = y[t]
      BY <2>2, <2>3, <2>5, <2>6, <2>7 DEF Both
    <3>4. j \in 1..q \/ (j - q \in 1..size /\ q + (j - q) = j)
      OBVIOUS
    <3>5. CASE j \in 1..q
      BY <2>9, <3>2, <3>5
    <3>6. CASE j - q \in 1..size /\ q + (j - q) = j
      <4>1. z[q + (j - q)] = y[j - q] /\ w[q + (j - q)] = y[j - q]
        BY <2>10, <3>3, <3>6, Zenon
      <4>2. QED BY <3>6, <4>1
    <3>7. QED BY <3>4, <3>5, <3>6
  <2>12. z = w
    BY <2>8, <2>11, SeqEqual
  <2>13. QED BY <2>2, <2>3, <2>4, <2>6, <2>12
<1>9. ASSUME NEW n \in 1..i
      PROVE  SubSeq(PathOf(hops, size, i), (n - 1) * size + 1, n * size) = SubSeq(hops[n], 1, size)
  <2>1. i \in 0..m /\ n \in 1..m /\ n - 1 \in Nat
    BY <1>1
  <2>2. PICK x \in Seq(V) : x = PathOf(hops, size, i) /\ Len(x) = i * size
    BY <1>4, <2>1
  <2>3. PICK y \in Seq(V) : /\ y = SubSeq(hops[n], 1, size) /\ Len(y) = size
                            /\ \A t \in 1..size : y[t] = hops[n][t]
    BY <1>7, <2>1
  <2>4. PICK q \in Nat : q = (n - 1) * size /\ n * size = q + size
    <3>1. (n - 1) * size \in Nat /\ (n - 1 + 1) * size = (n - 1) * size + size
      BY <2>1, ByteOfHop
    <3>2. n - 1 + 1 = n
      BY <2>1
    <3>3. QED BY <3>1, <3>2
  <2>5. \A t \in 1..Len(y) : x[q + t] = y[t]
    BY <1>6, <2>1, <2>2, <2>3, <2>4
  <2>6. q + Len(y) <= Len(x)
    <3>1. n * size <= i * size
      <4>1. CASE size = 1
        BY <4>1
      <4>2. CASE size = 2
        BY <4>2
      <4>3. CASE size = 3
        BY <4>3
      <4>4. CASE size = 4
        BY <4>4
      <4>5. QED BY <4>1, <4>2, <4>3, <4>4
    <3>2. QED BY <2>2, <2>3, <2>4, <3>1
  <2>7. SubSeq(x, q + 1, q + Len(y)) = y
    BY <2>5, <2>6, PartIs
  <2>8. QED BY <2>2, <2>3, <2>4, <2>7
<1>10. QED BY <1>1, <1>4, <1>5, <1>8, <1>9 DEF GoodPath

\* The copies that the first repeaters make, one after the other.
LEMMA Copies ==
    ASSUME NEW V, NEW s, Sent(V, s), s.path = <<>>,
           NEW hops, Hashes(V, s.hashSize, hops), NEW k \in 0..Len(hops)
    PROVE  RelayedBy(Build(s), hops, k) = Build(CopyOf(s, PathOf(hops, s.hashSize, k)))
<1> DEFINE f == CHOOSE g : g = [i \in 0..k |-> IF i = 0 THEN Build(s) ELSE Relayed(g[i - 1], hops[i])]
           g == [i \in 0..k |-> Build(CopyOf(s, PathOf(hops, s.hashSize, i)))]
<1>0. PICK size \in 1..4 : size = s.hashSize
  BY DEF Sent
<1>1. Len(hops) \in Nat /\ Hashes(V, size, hops)
  BY <1>0 DEF Hashes
<1>2. PathOf(hops, size, 0) = <<>> /\ CopyOf(s, <<>>) = s
  <2>1. 0 \in 0..Len(hops) /\ 0 * size = 0
    BY <1>1
  <2>2. PICK x \in Seq(V) : x = PathOf(hops, size, 0) /\ Len(x) = 0
    <3>1. GoodPath(V, size, hops, 0)
      BY <1>1, <2>1, PathFacts
    <3>2. QED BY <2>1, <3>1 DEF GoodPath
  <2>3. x = <<>>
    BY <2>2
  <2>4. CopyOf(s, <<>>) = s
    BY DEF CopyOf, Sent, PacketsOf
  <2>5. QED BY <2>2, <2>3, <2>4
<1>3. ASSUME NEW i \in 1..k
      PROVE  Relayed(Build(CopyOf(s, PathOf(hops, size, i - 1))), hops[i])
                = Build(CopyOf(s, PathOf(hops, size, i)))
  <2>1. i - 1 \in 0..Len(hops) /\ i - 1 < Len(hops) /\ i - 1 + 1 = i
    BY <1>1
  <2>2. PICK P \in Seq(V) : /\ P = PathOf(hops, size, i - 1) /\ Len(P) = (i - 1) * size
                            /\ (i - 1) * size <= MaxPathSize /\ i - 1 \in 0..MaxHops
    <3>1. GoodPath(V, size, hops, i - 1)
      BY <1>1, <2>1, PathFacts
    <3>2. QED BY <2>1, <3>1 DEF GoodPath
  <2>3. PathOf(hops, size, i) = P \o SubSeq(hops[i], 1, size)
    <3>1. PICK j \in 0..Len(hops) : j = i - 1 /\ j < Len(hops) /\ j + 1 = i
      BY <2>1
    <3>2. PathOf(hops, size, j + 1) = PathOf(hops, size, j) \o SubSeq(hops[j + 1], 1, size)
      <4>1. GoodPath(V, size, hops, j)
        BY <1>1, <3>1, PathFacts
      <4>2. QED BY <3>1, <4>1 DEF GoodPath
    <3>3. QED BY <2>2, <3>1, <3>2
  <2>4. Relayed(Build(CopyOf(s, P)), hops[i]) = Build(CopyOf(s, P \o SubSeq(hops[i], 1, s.hashSize)))
    BY <1>0, <2>2, OneRelay
  <2>5. QED BY <1>0, <2>2, <2>3, <2>4, Zenon
<1>4. g = [i \in 0..k |-> IF i = 0 THEN Build(s) ELSE Relayed(g[i - 1], hops[i])]
  <2>1. SUFFICES ASSUME NEW i \in 0..k
                 PROVE  g[i] = IF i = 0 THEN Build(s) ELSE Relayed(g[i - 1], hops[i])
    OBVIOUS
  <2>2. CASE i = 0
    <3>1. g[0] = Build(CopyOf(s, PathOf(hops, s.hashSize, 0)))
      BY <2>2
    <3>2. QED BY <1>0, <1>2, <2>2, <3>1
  <2>3. CASE i # 0
    <3>1. i \in 1..k /\ i - 1 \in 0..k
      BY <2>3
    <3>2. g[i - 1] = Build(CopyOf(s, PathOf(hops, s.hashSize, i - 1)))
      BY <3>1
    <3>3. g[i] = Build(CopyOf(s, PathOf(hops, s.hashSize, i)))
      OBVIOUS
    <3> HIDE DEF g
    <3>4. QED BY <1>0, <1>3, <2>3, <3>1, <3>2, <3>3
  <2>4. QED BY <2>2, <2>3
<1>5. \A i \in 0..k : g[i] = Build(CopyOf(s, PathOf(hops, size, i)))
  BY <1>0
<1> HIDE DEF g
<1>6. f = [i \in 0..k |-> IF i = 0 THEN Build(s) ELSE Relayed(f[i - 1], hops[i])]
  BY <1>4
<1>7. RelayedBy(Build(s), hops, k) = f[k]
  BY DEF RelayedBy
<1> HIDE DEF f
<1>8. f[0] = Build(s) /\ \A i \in 1..k : f[i] = Relayed(f[i - 1], hops[i])
  BY <1>1, <1>6
<1> DEFINE S == {i \in Nat : f[i] = Build(CopyOf(s, PathOf(hops, size, i)))}
<1>9. 0 \in S
  BY <1>2, <1>8
<1>10. \A i \in 0..(k - 1) : i \in S => i + 1 \in S
  <2>1. SUFFICES ASSUME NEW i \in 0..(k - 1), i \in S PROVE i + 1 \in S
    OBVIOUS
  <2>2. i + 1 \in 1..k /\ i + 1 - 1 = i /\ i + 1 \in Nat
    BY <1>1
  <2>3. f[i + 1] = Relayed(f[i], hops[i + 1])
    BY <1>8, <2>2
  <2>4. f[i] = Build(CopyOf(s, PathOf(hops, size, i)))
    BY <2>1
  <2>5. Relayed(Build(CopyOf(s, PathOf(hops, size, i))), hops[i + 1])
           = Build(CopyOf(s, PathOf(hops, size, i + 1)))
    BY <1>3, <2>2
  <2>6. QED BY <2>2, <2>3, <2>4, <2>5
<1> HIDE DEF S
<1>11. k \in Nat
  BY <1>1
<1>12. k \in S
  BY <1>9, <1>10, <1>11, InductionTo
<1>13. QED BY <1>0, <1>7, <1>12 DEF S

-----------------------------------------------------------------------------
(* Channel texts. *)

\* The blocks hold timestamp, flags and text, and no block is empty.
LEMMA Blocks ==
    ASSUME NEW n \in Nat
    PROVE  /\ Padded(n) \in Nat /\ Padded(n) >= 5 + n /\ Padded(n) <= n + 20 /\ Padded(n) >= 16
           /\ Padded(n) % 16 = 0
           /\ n <= 171 => Padded(n) <= 176
BY DEF Padded

\* What BuildGroupTextPayload enciphers.
PlainText(timestamp, text) ==
    SubSeq(<<timestamp, 0, 0, 0, 0>> \o text \o Zeros(16), 1, Padded(Len(text)))

Cipher(key, plain) == [i \in 1..Len(plain) |-> <<key, plain[i]>>]

PlainIs(T, text, timestamp, plain) ==
    /\ plain \in Seq(T \cup {0, timestamp}) /\ Len(plain) = Padded(Len(text))
    /\ plain[1] = timestamp
    /\ \A i \in 1..Len(text) : plain[5 + i] = text[i]
    /\ \A i \in (6 + Len(text))..Len(plain) : plain[i] = 0

\* The plain text in its blocks: timestamp, flags, the text, zeros.
LEMMA PlainFacts ==
    ASSUME NEW T, NEW text \in Seq(T), NEW timestamp
    PROVE  PlainIs(T, text, timestamp, PlainText(timestamp, text))
<1> DEFINE W == T \cup {0, timestamp}
<1>1. PICK m \in Nat : m = Len(text)
  OBVIOUS
<1>2. PICK head \in Seq(W) : /\ head = <<timestamp, 0, 0, 0, 0>> /\ Len(head) = 5
                             /\ head[1] = timestamp
  <2>1. timestamp \in W /\ 0 \in W
    OBVIOUS
  <2> HIDE DEF W
  <2>2. <<timestamp, 0, 0, 0, 0>> \in Seq(W) /\ Len(<<timestamp, 0, 0, 0, 0>>) = 5
        /\ <<timestamp, 0, 0, 0, 0>>[1] = timestamp
    BY <2>1
  <2>3. QED BY <2>2, Zenon
<1>3. PICK t \in Seq(W) : t = text /\ Len(t) = m
  <2>1. T \subseteq W
    OBVIOUS
  <2> HIDE DEF W
  <2>2. text \in Seq(W)
    BY <2>1, SeqMonotonic
  <2>3. QED BY <1>1, <2>2
<1>4. PICK z \in Seq(W) : z = Zeros(16) /\ Len(z) = 16 /\ \A i \in 1..16 : z[i] = 0
  <2>1. 0 \in W
    OBVIOUS
  <2> HIDE DEF W
  <2>2. Zeros(16) \in [1..16 -> W]
    BY <2>1 DEF Zeros
  <2>3. Zeros(16) \in Seq(W) /\ Len(Zeros(16)) = 16
    <3>1. PICK n \in Nat : n = 16
      OBVIOUS
    <3>2. PICK s \in [1..n -> W] : s = Zeros(16)
      BY <2>2, <3>1
    <3>3. s \in Seq(W) /\ Len(s) = n
      OBVIOUS
    <3>4. QED BY <3>1, <3>2, <3>3
  <2>4. \A i \in 1..16 : Zeros(16)[i] = 0
    BY DEF Zeros
  <2>5. QED BY <2>3, <2>4, Zenon
<1> HIDE DEF W
<1>5. PICK x : x = head \o t
  OBVIOUS
<1>6. /\ x \in Seq(W) /\ Len(x) = 5 + m
      /\ \A i \in 1..5 : x[i] = head[i]
      /\ \A i \in 1..m : x[5 + i] = t[i]
  <2>1. Both(W, head, t, head \o t)
    BY TwoParts
  <2>2. QED BY <1>2, <1>3, <1>5, <2>1 DEF Both
<1>7. PICK y : y = x \o z
  OBVIOUS
<1>8. /\ y \in Seq(W) /\ Len(y) = 21 + m
      /\ \A i \in 1..(5 + m) : y[i] = x[i]
      /\ \A i \in 1..16 : y[5 + m + i] = 0
  <2>1. Both(W, x, z, x \o z)
    BY <1>6, TwoParts
  <2>2. /\ y \in Seq(W) /\ Len(y) = Len(x) + 16
        /\ \A i \in 1..Len(x) : y[i] = x[i]
        /\ \A i \in 1..16 : y[Len(x) + i] = z[i]
    BY <1>4, <1>7, <2>1 DEF Both
  <2>3. Len(x) = 5 + m
    BY <1>6
  <2>4. Len(x) + 16 = 21 + m
    BY <2>3
  <2>5. QED BY <1>4, <2>2, <2>3, <2>4
<1>9. PICK p \in Nat : p = Padded(m) /\ p >= 5 + m /\ p <= m + 20 /\ p >= 16
  BY Blocks
<1>10. PICK plain : plain = SubSeq(y, 1, p)
  OBVIOUS
<1>11. plain \in Seq(W) /\ Len(plain) = p /\ \A i \in 1..p : plain[i] = y[i]
  <2>1. \A i \in 1..p : y[i] \in W
    <3>1. \A i \in 1..Len(y) : y[i] \in W
      BY <1>8, ElementOfSeq
    <3>2. \A i \in 1..p : i \in 1..Len(y)
      BY <1>8, <1>9
    <3>3. QED BY <3>1, <3>2, Zenon
  <2>2. /\ SubSeq(y, 1, p) \in Seq(W) /\ Len(SubSeq(y, 1, p)) = IF 1 <= p THEN p - 1 + 1 ELSE 0
        /\ \A i \in 1..(p - 1 + 1) : SubSeq(y, 1, p)[i] = y[1 + i - 1]
    BY <2>1, SubSeqProperties
  <2>3. 1 <= p /\ p - 1 + 1 = p /\ \A i \in 1..p : 1 + i - 1 = i
    BY <1>9
  <2>4. QED BY <1>10, <2>2, <2>3
<1>12. PlainText(timestamp, text) = plain
  BY <1>1, <1>2, <1>3, <1>4, <1>5, <1>7, <1>9, <1>10, Zenon DEF PlainText
<1>13. plain[1] = timestamp
  BY <1>2, <1>6, <1>8, <1>9, <1>11
<1>14. \A i \in 1..m : plain[5 + i] = t[i]
  <2>1. SUFFICES ASSUME NEW i \in 1..m PROVE plain[5 + i] = t[i]
    OBVIOUS
  <2>2. 5 + i \in 1..p /\ 5 + i \in 1..(5 + m)
    BY <1>9
  <2>3. QED BY <1>6, <1>8, <1>11, <2>2
<1>15. \A i \in (6 + m)..p : plain[i] = 0
  <2>1. SUFFICES ASSUME NEW i \in (6 + m)..p PROVE plain[i] = 0
    OBVIOUS
  <2>2. PICK j \in 1..16 : i = 5 + m + j
    BY <1>9
  <2>3. i \in 1..p /\ y[5 + m + j] = 0
    <3>1. i \in 1..p
      BY <1>9
    <3>2. y[5 + m + j] = 0
      BY <1>8
    <3>3. QED BY <3>1, <3>2
  <2>4. QED BY <1>11, <2>2, <2>3
<1>16. QED BY <1>1, <1>3, <1>9, <1>11, <1>12, <1>13, <1>14, <1>15 DEF W, PlainIs

\* DecryptGroupText reads what BuildGroupTextPayload wrote, with the same key alone.
Readable(key, timestamp, text, payload) ==
    /\ \E V : payload \in Seq(V)
    /\ Len(payload) \in Nat /\ Len(payload) = 3 + Padded(Len(text))
    /\ Decrypt(key, payload) = [timestamp |-> timestamp, text |-> text]
    /\ \A other : other # key => Decrypt(other, payload) = Error

\* What GroupText makes is readable in that sense.
LEMMA TextRead ==
    ASSUME NEW T, 0 \notin T, NEW text \in Seq(T), Len(text) <= 171, NEW timestamp, NEW key
    PROVE  Readable(key, timestamp, text, GroupText(key, timestamp, text))
<1>1. PICK m \in Nat : m = Len(text) /\ m <= 171
  OBVIOUS
<1>c. PICK p \in Nat : p = Padded(m)
  BY Blocks
<1>2. p = Padded(m) /\ p >= 5 + m /\ p >= 16 /\ p % 16 = 0 /\ p <= 176
  <2>1. Padded(m) \in Nat /\ Padded(m) >= 5 + m /\ Padded(m) >= 16 /\ Padded(m) <= 176
    BY <1>1, Blocks, Zenon
  <2>2. Padded(m) % 16 = 0
    BY Blocks, Zenon
  <2>3. QED BY <1>c, <2>1, <2>2, Zenon
<1>3. PICK plain : plain = PlainText(timestamp, text)
  OBVIOUS
<1>4. /\ plain \in Seq(T \cup {0, timestamp}) /\ Len(plain) = p
      /\ plain[1] = timestamp
      /\ \A i \in 1..m : plain[5 + i] = text[i]
      /\ \A i \in (6 + m)..p : plain[i] = 0
  <2>1. PlainIs(T, text, timestamp, plain)
    BY <1>3, PlainFacts
  <2>2. QED BY <1>1, <1>2, <2>1 DEF PlainIs
<1>5. PICK cipher : cipher = Cipher(key, plain)
  OBVIOUS
<1>6. PICK C : /\ cipher \in Seq(C) /\ Len(cipher) = p
               /\ \A i \in 1..p : cipher[i] = <<key, plain[i]>>
  <2>1. cipher = [i \in 1..p |-> <<key, plain[i]>>]
    BY <1>4, <1>5 DEF Cipher
  <2> DEFINE D == {<<key, plain[i]>> : i \in 1..p}
  <2>2. cipher \in [1..p -> D]
    BY <2>1
  <2> HIDE DEF D
  <2>3. cipher \in Seq(D) /\ Len(cipher) = p
    BY <2>2
  <2>4. \A i \in 1..p : cipher[i] = <<key, plain[i]>>
    BY <2>1
  <2>5. QED BY <2>3, <2>4
<1>7. PICK a, b, c : a = <<"hash", key>> /\ b = <<"mac", key, cipher>> /\ c = "mac2"
  OBVIOUS
<1>8. PICK V : a \in V /\ b \in V /\ c \in V /\ C \subseteq V
  <2>1. a \in C \cup {a, b, c} /\ b \in C \cup {a, b, c} /\ c \in C \cup {a, b, c}
        /\ C \subseteq C \cup {a, b, c}
    OBVIOUS
  <2>2. QED BY <2>1, Zenon
<1>9. cipher \in Seq(V)
  BY <1>6, <1>8, SeqMonotonic
<1>10. PICK head : /\ head = <<a, b, c>> /\ head \in Seq(V) /\ Len(head) = 3 /\ head[2] = b
  <2>1. <<a, b, c>> \in Seq(V) /\ Len(<<a, b, c>>) = 3 /\ <<a, b, c>>[2] = b
    BY <1>8
  <2>2. QED BY <2>1, Zenon
<1>11. PICK payload : payload = head \o cipher
  OBVIOUS
<1>12. /\ payload \in Seq(V) /\ Len(payload) = 3 + p
       /\ \A i \in 1..3 : payload[i] = head[i]
       /\ \A i \in 1..p : payload[3 + i] = cipher[i]
  <2>1. Both(V, head, cipher, head \o cipher)
    BY <1>9, <1>10, TwoParts
  <2>2. QED BY <1>6, <1>10, <1>11, <2>1 DEF Both
<1>13. GroupText(key, timestamp, text) = payload
  <2>1. GroupText(key, timestamp, text) = <<<<"hash", key>>, <<"mac", key, Cipher(key, PlainText(timestamp, text))>>, "mac2">>
           \o Cipher(key, PlainText(timestamp, text))
    BY Zenon DEF GroupText, Cipher, PlainText
  <2>2. QED BY <1>3, <1>5, <1>7, <1>10, <1>11, <2>1, Zenon
<1>14. SubSeq(payload, 4, Len(payload)) = cipher
  <2>1. SubSeq(payload, 3 + 1, 3 + Len(cipher)) = cipher
    BY <1>6, <1>9, <1>12, PartIs
  <2>2. QED BY <1>6, <1>12, <2>1
<1>15. payload[2] = b
  BY <1>10, <1>12
<1>16. ~(Len(payload) < 19) /\ ~(Len(cipher) % 16 # 0) /\ ~(Len(cipher) > 4096)
  BY <1>2, <1>6, <1>12
<1> DEFINE cipher2 == SubSeq(payload, 4, Len(payload))
           plain2 == [i \in 1..Len(cipher2) |-> cipher2[i][2]]
           zeros2 == {i \in 6..Len(plain2) : plain2[i] = 0}
           end2 == IF zeros2 = {} THEN Len(plain2) ELSE Min(zeros2) - 1
<1>a. \A k : Decrypt(k, payload) =
             IF Len(payload) < 19 \/ Len(cipher2) % 16 # 0 \/ Len(cipher2) > 4096 THEN Error
             ELSE IF payload[2] # <<"mac", k, cipher2>> THEN Error
             ELSE [timestamp |-> plain2[1], text |-> SubSeq(plain2, 6, end2)]
  BY Zenon DEF Decrypt
<1> HIDE DEF end2
<1>17. \A other : other # key => Decrypt(other, payload) = Error
  <2>1. SUFFICES ASSUME NEW other, other # key PROVE Decrypt(other, payload) = Error
    OBVIOUS
  <2>2. payload[2] # <<"mac", other, cipher>>
    BY <1>7, <1>15, <2>1
  <2>3. payload[2] # <<"mac", other, cipher2>>
    BY <1>14, <2>2
  <2> HIDE DEF plain2, cipher2, zeros2
  <2>4. Decrypt(other, payload) =
           IF Len(payload) < 19 \/ Len(cipher2) % 16 # 0 \/ Len(cipher2) > 4096 THEN Error
           ELSE IF payload[2] # <<"mac", other, cipher2>> THEN Error
           ELSE [timestamp |-> plain2[1], text |-> SubSeq(plain2, 6, end2)]
    BY <1>a
  <2>5. QED BY <2>3, <2>4
<1>18. [i \in 1..Len(cipher) |-> cipher[i][2]] = plain
  <2>1. \A i \in 1..p : cipher[i][2] = plain[i]
    BY <1>6
  <2>2. plain = [i \in 1..p |-> plain[i]]
    BY <1>4
  <2>3. QED BY <1>6, <2>1, <2>2
<1>b. plain2 = plain
  BY <1>14, <1>18
<1> HIDE DEF plain2
<1>19. PICK zeros : zeros = zeros2 /\ zeros = {i \in 6..Len(plain) : plain[i] = 0}
  BY <1>b
<1> HIDE DEF zeros2
<1>20. (IF zeros = {} THEN Len(plain) ELSE Min(zeros) - 1) = 5 + m
  <2>1. zeros = (6 + m)..p
    <3>1. \A i \in 6..(5 + m) : plain[i] # 0
      <4>1. SUFFICES ASSUME NEW i \in 6..(5 + m) PROVE plain[i] # 0
        OBVIOUS
      <4>2. i - 5 \in 1..m /\ 5 + (i - 5) = i
        OBVIOUS
      <4>3. plain[i] = text[i - 5] /\ text[i - 5] \in T
        <5>1. plain[5 + (i - 5)] = text[i - 5]
          BY <1>4, <4>2
        <5>2. text[i - 5] \in T
          BY <1>1, <4>2, ElementOfSeq
        <5>3. QED BY <4>2, <5>1, <5>2
      <4>4. QED BY <4>3
    <3>2. \A i \in 6..p : plain[i] = 0 <=> i \in (6 + m)..p
      <4>1. SUFFICES ASSUME NEW i \in 6..p PROVE plain[i] = 0 <=> i \in (6 + m)..p
        OBVIOUS
      <4>2. i \in 6..(5 + m) \/ i \in (6 + m)..p
        OBVIOUS
      <4>3. ~(i \in 6..(5 + m) /\ i \in (6 + m)..p)
        OBVIOUS
      <4>4. QED BY <1>4, <3>1, <4>2, <4>3
    <3>3. \A i \in (6 + m)..p : i \in 6..p
      OBVIOUS
    <3>4. QED BY <1>4, <1>19, <3>2, <3>3
  <2>2. CASE p = 5 + m
    <3>1. zeros = {}
      BY <2>1, <2>2
    <3>2. QED BY <1>4, <2>2, <3>1
  <2>3. CASE p # 5 + m
    <3>1. p >= 6 + m
      BY <1>2, <2>3
    <3>2. /\ 6 + m \in zeros /\ \A y \in zeros : 6 + m <= y
          /\ \A x \in zeros : (\A y \in zeros : x <= y) => x = 6 + m
      BY <2>1, <3>1
    <3>3. Min(zeros) = CHOOSE x \in zeros : \A y \in zeros : x <= y
      BY DEF Min
    <3>4. Min(zeros) = 6 + m
      BY <3>2, <3>3, Zenon
    <3>5. zeros # {}
      BY <3>2
    <3>6. QED BY <3>4, <3>5
  <2>4. QED BY <2>2, <2>3
<1>21. SubSeq(plain, 6, 5 + m) = text
  <2>1. PICK W : plain \in Seq(W) /\ text \in Seq(W)
    <3>1. T \subseteq T \cup {0, timestamp}
      OBVIOUS
    <3>2. text \in Seq(T \cup {0, timestamp})
      BY <3>1, SeqMonotonic
    <3>3. QED BY <1>4, <3>2, Zenon
  <2>2. SubSeq(plain, 5 + 1, 5 + Len(text)) = text
    BY <1>1, <1>2, <1>4, <2>1, PartIs
  <2>3. QED BY <1>1, <2>2
<1>22. Decrypt(key, payload) = [timestamp |-> plain[1], text |-> SubSeq(plain, 6, 5 + m)]
  <2>1. ~(payload[2] # <<"mac", key, cipher>>)
    BY <1>7, <1>15
  <2>2. cipher2 = cipher
    BY <1>14
  <2>3. end2 = 5 + m
    BY <1>b, <1>19, <1>20, Zenon DEF end2
  <2> HIDE DEF cipher2
  <2>4. Decrypt(key, payload) =
           IF Len(payload) < 19 \/ Len(cipher2) % 16 # 0 \/ Len(cipher2) > 4096 THEN Error
           ELSE IF payload[2] # <<"mac", key, cipher2>> THEN Error
           ELSE [timestamp |-> plain2[1], text |-> SubSeq(plain2, 6, end2)]
    BY <1>a
  <2>5. ~(Len(payload) < 19 \/ Len(cipher2) % 16 # 0 \/ Len(cipher2) > 4096)
    BY <1>16, <2>2
  <2>6. Decrypt(key, payload) = [timestamp |-> plain2[1], text |-> SubSeq(plain2, 6, end2)]
    BY <2>1, <2>2, <2>4, <2>5
  <2>7. QED BY <1>b, <2>3, <2>6, Zenon
<1>23. Decrypt(key, payload) = [timestamp |-> timestamp, text |-> text]
  BY <1>4, <1>21, <1>22
<1>24. QED BY <1>1, <1>2, <1>12, <1>13, <1>17, <1>23 DEF Readable

\* The packet BuildChannelPacket makes.
MessageIs(s, size, scope, payload) ==
    /\ s = [route |-> s.route, type |-> s.type, version |-> s.version, codes |-> s.codes,
            path |-> s.path, hashSize |-> s.hashSize, payload |-> s.payload]
    /\ s.route = (IF scope = "" THEN Flood ELSE TransportFlood)
    /\ s.type = GrpTxt /\ s.version = 0
    /\ s.codes = (IF scope = "" THEN <<>> ELSE <<<<scope, GrpTxt, payload>>, "high", 0, 0>>)
    /\ s.path = <<>> /\ s.hashSize = size /\ s.payload = payload

\* What BuildChannelPacket makes, by its fields.
LEMMA Message ==
    ASSUME NEW key, NEW size, NEW scope, NEW text, NEW timestamp
    PROVE  MessageIs(ChannelPacket(key, size, scope, text, timestamp), size, scope,
                     GroupText(key, timestamp, text))
BY DEF ChannelPacket, TransportCodes, MessageIs

\* It can be built, and with it any copy of it.
LEMMA MessageSent ==
    ASSUME NEW T, 0 \notin T, NEW H, NEW key, NEW size \in 1..4, NEW scope,
           NEW text \in Seq(T), Len(text) <= 171, NEW timestamp
    PROVE  \E V : H \subseteq V /\ Sent(V, ChannelPacket(key, size, scope, text, timestamp))
<1>1. PICK s : s = ChannelPacket(key, size, scope, text, timestamp)
  OBVIOUS
<1>2. PICK payload : payload = GroupText(key, timestamp, text)
  OBVIOUS
<1>a. MessageIs(s, size, scope, payload)
  BY <1>1, <1>2, Message
<1>b. Readable(key, timestamp, text, payload)
  BY <1>2, TextRead
<1>c. s = [route |-> s.route, type |-> s.type, version |-> s.version, codes |-> s.codes,
           path |-> s.path, hashSize |-> s.hashSize, payload |-> s.payload]
  BY <1>a DEF MessageIs
<1>3. s.type = GrpTxt /\ s.version = 0 /\ s.path = <<>> /\ s.hashSize = size /\ s.payload = payload
  BY <1>a DEF MessageIs
<1>r. s.route = (IF scope = "" THEN Flood ELSE TransportFlood)
  BY <1>a DEF MessageIs
<1>s. s.codes = (IF scope = "" THEN <<>> ELSE <<<<scope, GrpTxt, payload>>, "high", 0, 0>>)
  BY <1>a DEF MessageIs
<1>4. PICK V0 : payload \in Seq(V0)
  BY <1>b DEF Readable
<1>5. Len(payload) \in Nat /\ Len(payload) <= 179
  <2>1. Len(payload) \in Nat /\ Len(payload) = 3 + Padded(Len(text))
    BY <1>b DEF Readable
  <2>2. Len(text) \in Nat
    OBVIOUS
  <2>3. Padded(Len(text)) \in Nat /\ Padded(Len(text)) <= 176
    BY <2>2, Blocks
  <2>4. QED BY <2>1, <2>3
<1>6. PICK code : code = <<scope, GrpTxt, payload>>
  OBVIOUS
<1>7. PICK V : V0 \subseteq V /\ H \subseteq V /\ code \in V /\ "high" \in V /\ 0 \in V
  <2> DEFINE W == V0 \cup H \cup {code, "high", 0}
  <2>1. V0 \subseteq W /\ H \subseteq W /\ code \in W /\ "high" \in W /\ 0 \in W
    OBVIOUS
  <2> HIDE DEF W
  <2>2. QED BY <2>1
<1>8. payload \in Seq(V)
  BY <1>4, <1>7, SeqMonotonic
<1>9. s.codes \in Seq(V) /\ (s.route = TransportFlood => Len(s.codes) = 4)
      /\ (s.route = Flood => s.codes = <<>>)
  <2>1. <<code, "high", 0, 0>> \in Seq(V) /\ Len(<<code, "high", 0, 0>>) = 4 /\ <<>> \in Seq(V)
    BY <1>7
  <2>2. s.codes = IF scope = "" THEN <<>> ELSE <<code, "high", 0, 0>>
    BY <1>6, <1>s, Zenon
  <2>3. CASE scope = ""
    BY <1>r, <2>1, <2>2, <2>3 DEF Flood, TransportFlood
  <2>4. CASE scope # ""
    <3>1. s.codes = <<code, "high", 0, 0>> /\ s.route = TransportFlood
      BY <1>r, <2>2, <2>4
    <3>2. s.codes \in Seq(V) /\ Len(s.codes) = 4
      BY <2>1, <3>1, Zenon
    <3>3. QED BY <3>1, <3>2 DEF Flood, TransportFlood
  <2>5. QED BY <2>3, <2>4
<1>10. s.route \in {Flood, TransportFlood}
  BY <1>r
<1>11. s \in PacketsOf(V)
  <2>1. s.route \in 0..3 /\ s.type \in 0..15 /\ s.version \in 0..3
    BY <1>3, <1>10 DEF Flood, TransportFlood, GrpTxt
  <2>2. s.path \in Seq(V) /\ s.hashSize \in Nat
    BY <1>3
  <2>3. s.payload \in Seq(V) /\ s.codes \in Seq(V)
    BY <1>3, <1>8, <1>9
  <2>4. PICK r \in 0..3, t \in 0..15, v \in 0..3, c \in Seq(V), p \in Seq(V), h \in Nat, d \in Seq(V) :
             /\ r = s.route /\ t = s.type /\ v = s.version /\ c = s.codes /\ p = s.path
             /\ h = s.hashSize /\ d = s.payload
    BY <2>1, <2>2, <2>3, Zenon
  <2>5. s = [route |-> r, type |-> t, version |-> v, codes |-> c, path |-> p, hashSize |-> h,
             payload |-> d]
    BY <1>c, <2>4, Zenon
  <2>6. QED BY <2>5 DEF PacketsOf
<1>12. SizeOf(s) = size /\ HopsOf(s) = 0 /\ Len(s.path) = 0 /\ Len(s.path) % SizeOf(s) = 0
  <2>1. SizeOf(s) = size
    BY <1>3 DEF SizeOf
  <2>2. Len(s.path) = 0
    BY <1>3
  <2>3. 0 % size = 0 /\ 0 \div size = 0
    <3>1. CASE size = 1
      BY <3>1
    <3>2. CASE size = 2
      BY <3>2
    <3>3. CASE size = 3
      BY <3>3
    <3>4. CASE size = 4
      BY <3>4
    <3>5. QED BY <3>1, <3>2, <3>3, <3>4
  <2>4. QED BY <2>1, <2>2, <2>3 DEF HopsOf
<1>13. HasTransportCodes(s.route) <=> s.route = TransportFlood
  BY <1>10 DEF HasTransportCodes, Flood, TransportFlood, TransportDirect
<1>14. Buildable(s)
  <2>1. ~(HopsOf(s) > MaxHops) /\ ~(Len(s.path) > MaxPathSize)
    BY <1>12 DEF MaxHops, MaxPathSize
  <2>2. ~(Len(s.payload) > MaxPacketPayload)
    BY <1>3, <1>5 DEF MaxPacketPayload
  <2>3. ~(HasTransportCodes(s.route) /\ Len(s.codes) # 4)
    BY <1>9, <1>13
  <2>4. QED BY <1>12, <2>1, <2>2, <2>3 DEF Buildable
<1>15. CodesOf(s) = s.codes
  BY <1>9, <1>10, <1>13 DEF CodesOf
<1>16. Sent(V, s)
  BY <1>3, <1>11, <1>14, <1>15 DEF Sent
<1>17. QED BY <1>1, <1>7, <1>16

\* The two bytes of a code tell its scope.
LEMMA CodesTell ==
    ASSUME NEW name, NEW scope, NEW payload
    PROVE  (\A b \in 1..2 : <<<<name, GrpTxt, payload>>, "high", 0, 0>>[b]
                              = <<<<scope, GrpTxt, payload>>, "high", 0, 0>>[b])
              <=> name = scope
<1>1. PICK x, y : x = <<name, GrpTxt, payload>> /\ y = <<scope, GrpTxt, payload>>
  OBVIOUS
<1>2. x = y <=> name = scope
  <2>1. x[1] = name /\ y[1] = scope
    BY <1>1
  <2>2. x = y => name = scope
    BY <2>1
  <2>3. name = scope => x = y
    BY <1>1
  <2>4. QED BY <2>2, <2>3
<1>3. (\A b \in 1..2 : <<x, "high", 0, 0>>[b] = <<y, "high", 0, 0>>[b]) <=> x = y
  <2>1. /\ <<x, "high", 0, 0>>[1] = x /\ <<y, "high", 0, 0>>[1] = y
        /\ <<x, "high", 0, 0>>[2] = "high" /\ <<y, "high", 0, 0>>[2] = "high"
    OBVIOUS
  <2>2. QED BY <2>1
<1>4. QED BY <1>1, <1>2, <1>3, Zenon

ScopeIs(p, scope) ==
    /\ p.route = (IF scope = "" THEN Flood ELSE TransportFlood) /\ p.type = GrpTxt
    /\ p.codes = (IF scope = "" THEN <<>> ELSE <<<<scope, GrpTxt, p.payload>>, "high", 0, 0>>)

\* MatchScope finds the scope of a packet, and no other.
LEMMA ScopeMatched ==
    ASSUME NEW p, NEW scope, scope # "other", ScopeIs(p, scope)
    PROVE  MatchScope(p, <<"other", "scope">>) = (IF scope = "scope" THEN 2 ELSE 0)
<1>1. CASE scope = ""
  <2>1. p.route = 1
    BY <1>1 DEF ScopeIs, Flood
  <2>2. ~HasTransportCodes(p.route)
    BY <2>1 DEF HasTransportCodes, TransportFlood, TransportDirect
  <2>3. MatchScope(p, <<"other", "scope">>) = 0
    BY <2>2, Zenon DEF MatchScope
  <2>4. QED BY <1>1, <2>3
<1>2. CASE scope # ""
  <2>1. p.route = 0
    BY <1>2 DEF ScopeIs, TransportFlood
  <2>2. HasTransportCodes(p.route)
    BY <2>1 DEF HasTransportCodes, TransportFlood
  <2> DEFINE Same(name) == \A b \in 1..2 : TransportCodes(name, p)[b] = p.codes[b]
  <2>3. \A name : Same(name) <=> name = scope
    <3>1. SUFFICES ASSUME NEW name PROVE Same(name) <=> name = scope
      BY Zenon
    <3>2. p.type = GrpTxt
      BY DEF ScopeIs
    <3>3. p.codes = <<<<scope, GrpTxt, p.payload>>, "high", 0, 0>>
      BY <1>2, Zenon DEF ScopeIs
    <3>4. TransportCodes(name, p) = <<<<name, GrpTxt, p.payload>>, "high", 0, 0>>
      BY <3>2, Zenon DEF TransportCodes
    <3>5. PICK d : d = p.payload
      OBVIOUS
    <3>6. (\A b \in 1..2 : <<<<name, GrpTxt, d>>, "high", 0, 0>>[b]
                             = <<<<scope, GrpTxt, d>>, "high", 0, 0>>[b]) <=> name = scope
      BY CodesTell
    <3>7. PICK mine, its : /\ mine = <<<<name, GrpTxt, d>>, "high", 0, 0>>
                           /\ its = <<<<scope, GrpTxt, d>>, "high", 0, 0>>
      OBVIOUS
    <3>8. TransportCodes(name, p) = mine /\ p.codes = its
      BY <3>3, <3>4, <3>5, <3>7, Zenon
    <3>9. (\A b \in 1..2 : mine[b] = its[b]) <=> name = scope
      BY <3>6, <3>7, Zenon
    <3>10. QED BY <3>8, <3>9, Zenon
  <2>4. PICK names : names = <<"other", "scope">> /\ Len(names) = 2
                     /\ names[1] = "other" /\ names[2] = "scope"
    <3>1. /\ Len(<<"other", "scope">>) = 2
          /\ <<"other", "scope">>[1] = "other" /\ <<"other", "scope">>[2] = "scope"
      OBVIOUS
    <3>2. QED BY <3>1, Zenon
  <2>5. PICK matches : matches = {i \in 1..Len(names) : Same(names[i])}
    OBVIOUS
  <2>6. MatchScope(p, names) = IF matches = {} THEN 0 ELSE Min(matches)
    BY <2>2, <2>5, Zenon DEF MatchScope
  <2> HIDE DEF Same
  <2>7. matches = {i \in 1..2 : names[i] = scope}
    BY <2>3, <2>4, <2>5
  <2>8. CASE scope = "scope"
    <3>1. matches = {2}
      BY <2>4, <2>7, <2>8
    <3>2. PICK two \in Nat : two = 2
      OBVIOUS
    <3>3. Min({two}) = CHOOSE x \in {two} : \A y \in {two} : x <= y
      BY Zenon DEF Min
    <3>4. two <= two
      OBVIOUS
    <3>5. two \in {two} /\ \A y \in {two} : two <= y
      BY <3>4, Zenon
    <3>6. Min({two}) = two
      BY <3>3, <3>5, Zenon
    <3>7. matches # {}
      BY <3>1
    <3>8. QED BY <2>4, <2>6, <2>8, <3>1, <3>2, <3>6, <3>7
  <2>9. CASE scope # "scope"
    <3>1. matches = {}
      BY <2>4, <2>7, <2>9
    <3>2. QED BY <2>4, <2>6, <2>9, <3>1
  <2>10. QED BY <2>8, <2>9
<1>3. QED BY <1>1, <1>2

\* The messages there are: any text a packet can hold, without a zero in it, and
\* repeaters whose hashes a path can hold.
Relayable(key, size, scope, text, hops) ==
    /\ scope # "other" /\ key # "another key" /\ Len(text) <= 171
    /\ \A i \in 1..Len(hops) : Len(hops[i]) >= size
    /\ Len(hops) <= MaxHops /\ Len(hops) * size <= MaxPathSize

\* trackDelivery, observeOwnCopy, maybeScopeNotice, for every message and every way it
\* takes: the copy has the hash of the packet sent, names its repeaters, carries its
\* scope, and reads as the text sent, with the channel's key alone.
THEOREM EveryCopyRecognised ==
    ASSUME NEW T, 0 \notin T, NEW H
    PROVE  \A key, scope, timestamp : \A size \in 1..4, text \in Seq(T), hops \in Seq(Seq(H)) :
              Relayable(key, size, scope, text, hops) =>
                 CopiesRecognised(key, size, scope, text, timestamp, hops)
<1>1. SUFFICES ASSUME NEW key, NEW scope, NEW timestamp, NEW size \in 1..4, NEW text \in Seq(T),
                      NEW hops \in Seq(Seq(H)), Relayable(key, size, scope, text, hops)
               PROVE  CopiesRecognised(key, size, scope, text, timestamp, hops)
  OBVIOUS
<1>2. PICK s : s = ChannelPacket(key, size, scope, text, timestamp)
  OBVIOUS
<1>3. PICK payload : payload = GroupText(key, timestamp, text)
  OBVIOUS
<1>a. MessageIs(s, size, scope, payload)
  BY <1>2, <1>3, Message
<1>4. /\ s.route = (IF scope = "" THEN Flood ELSE TransportFlood)
      /\ s.type = GrpTxt /\ s.version = 0
      /\ s.codes = (IF scope = "" THEN <<>> ELSE <<<<scope, GrpTxt, payload>>, "high", 0, 0>>)
      /\ s.path = <<>> /\ s.hashSize = size /\ s.payload = payload
  BY <1>a DEF MessageIs
<1>5. Len(text) <= 171 /\ scope # "other" /\ key # "another key"
  BY <1>1 DEF Relayable
<1>6. PICK V : H \subseteq V /\ Sent(V, s)
  BY <1>2, <1>5, MessageSent
<1>7. Hashes(V, s.hashSize, hops)
  <2>1. Seq(H) \subseteq Seq(V)
    BY <1>6, SeqMonotonic
  <2>2. hops \in Seq(Seq(V))
    BY <2>1, SeqMonotonic
  <2>3. QED BY <1>1, <1>4, <2>2 DEF Hashes, Relayable
<1>8. ASSUME NEW k \in 0..Len(hops)
      PROVE  LET copy == Parse(RelayedBy(Build(s), hops, k)) IN
             /\ Hash(copy) = Hash(s)
             /\ Hops(copy) = [i \in 1..k |-> SubSeq(hops[i], 1, size)]
             /\ MatchScope(copy, <<"other", "scope">>) = (IF scope = "scope" THEN 2 ELSE 0)
             /\ Decrypt(key, copy.payload) = [timestamp |-> timestamp, text |-> text]
             /\ Decrypt("another key", copy.payload) = Error
  <2>1. GoodPath(V, size, hops, k)
    BY <1>4, <1>7, PathFacts
  <2>2. PICK P \in Seq(V) : P = PathOf(hops, size, k)
    BY <2>1 DEF GoodPath
  <2>a. k \in Nat
    OBVIOUS
  <2>3. /\ Len(P) = k * size /\ k * size <= MaxPathSize /\ k \in 0..MaxHops
        /\ \A i \in 1..k : SubSeq(P, (i - 1) * size + 1, i * size) = SubSeq(hops[i], 1, size)
    BY <2>1, <2>2, Zenon DEF GoodPath
  <2>4. RelayedBy(Build(s), hops, k) = Build(CopyOf(s, P))
    <3>1. s.path = <<>>
      BY <1>4
    <3>2. RelayedBy(Build(s), hops, k) = Build(CopyOf(s, PathOf(hops, s.hashSize, k)))
      BY <1>6, <1>7, <3>1, Copies
    <3>3. QED BY <1>4, <2>2, <3>2, Zenon
  <2>5. Parse(Build(CopyOf(s, P))) = CopyOf(s, P)
    BY <1>4, <1>6, <2>3, CopyRead
  <2>6. PICK copy : copy = CopyOf(s, P)
    OBVIOUS
  <2>7. /\ copy.route = s.route /\ copy.type = s.type /\ copy.codes = s.codes
        /\ copy.path = P /\ copy.hashSize = size /\ copy.payload = payload
    BY <1>4, <2>6 DEF CopyOf
  <2>8. Hash(copy) = Hash(s)
    BY <1>4, <2>7 DEF Hash
  <2>9. Hops(copy) = [i \in 1..k |-> SubSeq(hops[i], 1, size)]
    <3>1. Len(P) % size = 0 /\ Len(P) \div size = k
      BY <2>a, <2>3, HopsBack
    <3>2. Hops(copy) = [i \in 1..(Len(P) \div size) |-> SubSeq(P, (i - 1) * size + 1, i * size)]
      BY <2>7, <3>1 DEF Hops
    <3>3. QED BY <2>3, <3>1, <3>2
  <2>10. MatchScope(copy, <<"other", "scope">>) = (IF scope = "scope" THEN 2 ELSE 0)
    <3>1. ScopeIs(copy, scope)
      BY <1>a, <2>7, Zenon DEF ScopeIs, MessageIs
    <3>2. QED BY <1>5, <3>1, ScopeMatched
  <2>11. /\ Decrypt(key, payload) = [timestamp |-> timestamp, text |-> text]
         /\ Decrypt("another key", payload) = Error
    <3>1. Readable(key, timestamp, text, payload)
      BY <1>3, <1>5, TextRead
    <3>2. QED BY <1>5, <3>1 DEF Readable
  <2>12. QED BY <2>4, <2>5, <2>6, <2>7, <2>8, <2>9, <2>10, <2>11
<1>9. QED BY <1>2, <1>8 DEF CopiesRecognised

\* BuildGroupTextPayload: three bytes before the blocks, however long the text is.
LEMMA PayloadLength ==
    ASSUME NEW T, NEW text \in Seq(T), NEW timestamp, NEW key
    PROVE  Len(GroupText(key, timestamp, text)) = 3 + Padded(Len(text))
<1>1. PICK plain : plain = PlainText(timestamp, text)
  OBVIOUS
<1>2. PICK p \in Nat : p = Padded(Len(text))
  BY Blocks
<1>3. Len(plain) = p
  BY <1>1, <1>2, PlainFacts DEF PlainIs
<1>4. PICK cipher : cipher = Cipher(key, plain)
  OBVIOUS
<1>5. PICK C : cipher \in Seq(C) /\ Len(cipher) = p
  <2>1. cipher = [i \in 1..p |-> <<key, plain[i]>>]
    BY <1>3, <1>4 DEF Cipher
  <2> DEFINE D == {<<key, plain[i]>> : i \in 1..p}
  <2>2. cipher \in [1..p -> D]
    BY <2>1
  <2> HIDE DEF D
  <2>3. cipher \in Seq(D) /\ Len(cipher) = p
    BY <2>2
  <2>4. QED BY <2>3
<1>6. PICK a, b, c : a = <<"hash", key>> /\ b = <<"mac", key, cipher>> /\ c = "mac2"
  OBVIOUS
<1>7. PICK V : a \in V /\ b \in V /\ c \in V /\ C \subseteq V
  <2>1. a \in C \cup {a, b, c} /\ b \in C \cup {a, b, c} /\ c \in C \cup {a, b, c}
        /\ C \subseteq C \cup {a, b, c}
    OBVIOUS
  <2>2. QED BY <2>1, Zenon
<1>8. cipher \in Seq(V)
  BY <1>5, <1>7, SeqMonotonic
<1>9. PICK head : head = <<a, b, c>> /\ head \in Seq(V) /\ Len(head) = 3
  <2>1. <<a, b, c>> \in Seq(V) /\ Len(<<a, b, c>>) = 3
    BY <1>7
  <2>2. QED BY <2>1, Zenon
<1>10. GroupText(key, timestamp, text) = head \o cipher
  <2>1. GroupText(key, timestamp, text)
           = <<<<"hash", key>>, <<"mac", key, Cipher(key, PlainText(timestamp, text))>>, "mac2">>
               \o Cipher(key, PlainText(timestamp, text))
    BY Zenon DEF GroupText, Cipher, PlainText
  <2>2. QED BY <1>1, <1>4, <1>6, <1>9, <2>1, Zenon
<1>11. Len(head \o cipher) = 3 + p
  <2>1. Both(V, head, cipher, head \o cipher)
    BY <1>8, <1>9, TwoParts
  <2>2. QED BY <1>5, <1>9, <2>1 DEF Both
<1>12. QED BY <1>2, <1>10, <1>11

\* Up to 155 bytes end in the tenth block, more do not.
LEMMA TenBlocks ==
    ASSUME NEW n \in Nat
    PROVE  /\ n <= 155 => Padded(n) <= 160
           /\ n > 155 => Padded(n) >= 176
BY DEF Padded

\* BuildPacket, BuildSendRawPacketFrame: the packet of a text goes into the radio's frame
\* exactly if the text has no more than 155 bytes.
LEMMA MessageLength ==
    ASSUME NEW T, 0 \notin T, NEW key, NEW scope, NEW timestamp
    PROVE  \A size \in 1..4, text \in Seq(T) :
               Sendable(Build(ChannelPacket(key, size, scope, text, timestamp)))
                   <=> Len(text) <= 155
<1>0. SUFFICES ASSUME NEW size \in 1..4, NEW text \in Seq(T)
               PROVE  Sendable(Build(ChannelPacket(key, size, scope, text, timestamp)))
                          <=> Len(text) <= 155
  OBVIOUS
<1>1. PICK s : s = ChannelPacket(key, size, scope, text, timestamp)
  OBVIOUS
<1>2. PICK payload : payload = GroupText(key, timestamp, text)
  OBVIOUS
<1>3. PICK n \in Nat : n = Len(text)
  OBVIOUS
<1>4. MessageIs(s, size, scope, payload)
  BY <1>1, <1>2, Message
<1>5. PICK blocks \in Nat : blocks = Padded(n)
  BY Blocks
<1>6. s.payload = payload /\ Len(payload) = 3 + blocks
  BY <1>2, <1>3, <1>4, <1>5, PayloadLength DEF MessageIs
<1>7. (n <= 155 => blocks <= 160) /\ (n > 155 => blocks >= 176)
  BY <1>5, TenBlocks
<1>8. CASE n > 171
  <2>1. blocks >= 5 + n /\ blocks % 16 = 0
    BY <1>5, Blocks
  <2>2. Len(s.payload) > MaxPacketPayload
    BY <1>6, <1>8, <2>1 DEF MaxPacketPayload
  <2>3. Build(s) = NoBytes
    BY <2>2, BuildBytes DEF Buildable
  <2>4. QED BY <1>1, <1>3, <1>8, <2>3 DEF Sendable
<1>9. CASE n <= 171
  <2>1. PICK V : Sent(V, s)
    <3>1. \E V : {} \subseteq V /\ Sent(V, ChannelPacket(key, size, scope, text, timestamp))
      BY <1>3, <1>9, MessageSent
    <3>2. QED BY <1>1, <3>1
  <2>2. /\ Build(s) # NoBytes
        /\ Len(Build(s)) = 2 + Len(CodesOf(s)) + Len(s.path) + Len(s.payload)
    BY <2>1, BuiltParses DEF Sent
  <2>3. Len(s.path) = 0
    <3>1. s.path = <<>>
      BY <1>4 DEF MessageIs
    <3>2. QED BY <3>1
  <2>4. Len(CodesOf(s)) \in {0, 4}
    <3>1. CodesOf(s) = s.codes
      BY <2>1 DEF Sent
    <3>2. CASE HasTransportCodes(s.route)
      BY <2>1, <3>1, <3>2 DEF Sent, Buildable
    <3>3. CASE ~HasTransportCodes(s.route)
      <4>1. CodesOf(s) = <<>>
        BY <3>3 DEF CodesOf
      <4>2. QED BY <4>1
    <3>4. QED BY <3>2, <3>3
  <2>5. PICK codes \in 0..4 : codes = Len(CodesOf(s))
    BY <2>4
  <2>6. Len(Build(s)) = 2 + codes + 0 + (3 + blocks)
    BY <1>6, <2>2, <2>3, <2>5, Zenon
  <2>7. 2 + codes + 0 + (3 + blocks) <= MaxRawPacketLen <=> n <= 155
    BY <1>7 DEF MaxRawPacketLen
  <2>8. Sendable(Build(s)) <=> n <= 155
    BY <2>2, <2>6, <2>7, Zenon DEF Sendable
  <2>9. QED BY <1>1, <1>3, <2>8
<1>10. QED BY <1>3, <1>8, <1>9

-----------------------------------------------------------------------------
(* Configurations. *)

\* A configuration whose ids and URLs are written without spaces around them.
Plainly(cfg) ==
    \A i \in Enabled(cfg) :
        /\ On(cfg, i).id = [id |-> On(cfg, i).id.id, padded |-> FALSE]
        /\ On(cfg, i).url # "padded"

\* A set with two elements at least.
LEMMA TwoAtLeast ==
    ASSUME NEW S, IsFiniteSet(S), NEW x \in S, NEW y \in S, x # y
    PROVE  Cardinality(S) >= 2
<1>1. IsFiniteSet({x}) /\ Cardinality({x}) = 1
  BY FS_Singleton
<1>2. y \notin {x} /\ {x} \cup {y} \subseteq S
  OBVIOUS
<1>3. Cardinality({x} \cup {y}) = 2
  BY <1>1, <1>2, FS_AddElement
<1>4. Cardinality({x} \cup {y}) <= Cardinality(S) /\ Cardinality(S) \in Nat
  BY <1>2, FS_Subset, FS_CardinalityType
<1>5. QED BY <1>3, <1>4

\* main: what an enabled bridge of an accepted configuration needs is started.
LEMMA SidesStarted ==
    ASSUME NEW cfg, Accepted(cfg), NEW i \in Enabled(cfg)
    PROVE  /\ HasChannel(On(cfg, i)) => "discord" \in Started(cfg)
           /\ On(cfg, i).mc # "off" => "meshcore" \in Started(cfg)
           /\ On(cfg, i).mt # "off" => "meshtastic" \in Started(cfg)
<1>1. ValidGlobals(cfg)
  BY DEF Accepted
<1>2. HasChannel(On(cfg, i)) => "discord" \in Started(cfg)
  BY DEF Started
<1>3. ASSUME On(cfg, i).mc # "off" PROVE "meshcore" \in Started(cfg)
  <2>1. cfg.mcHost
    BY <1>1, <1>3 DEF ValidGlobals
  <2>2. QED BY <2>1 DEF Started
<1>4. ASSUME On(cfg, i).mt # "off" PROVE "meshtastic" \in Started(cfg)
  <2>1. cfg.mtHost
    BY <1>1, <1>4 DEF ValidGlobals
  <2>2. QED BY <2>1 DEF Started
<1>5. QED BY <1>2, <1>3, <1>4

\* Validate, New, main: every bridge of an accepted configuration works, whatever is in
\* it, as long as no id and no URL has spaces around it.
THEOREM EveryAcceptedServed ==
    \A cfg : Plainly(cfg) => Serves(cfg)
<1>1. SUFFICES ASSUME NEW cfg, Plainly(cfg), Accepted(cfg), NEW i \in Enabled(cfg)
      PROVE LET b == On(cfg, i) IN
        /\ b.mc # "broken"
        /\ Cardinality(Sides(b, cfg)) >= 2
        /\ \A s \in {"meshcore", "meshtastic"} : b[IF s = "meshcore" THEN "mc" ELSE "mt"] # "off"
                                                   => s \in Started(cfg)
        /\ HasChannel(b) => ByChan(cfg, [id |-> b.id.id, padded |-> FALSE]) = i
        /\ DiscordEnabled(b) => b.url = "ok"
        /\ b.mc # "off" /\ b.notice =>
               ~b.readOnly /\ ResolvedRxScopes(b, cfg) # {}
                           /\ \A s \in b.complain : s \notin ResolvedRxScopes(b, cfg)
  BY Zenon DEF Serves
<1> DEFINE b == On(cfg, i)
<1>2. ValidBridge(b, cfg) /\ Distinct(cfg)
  BY <1>1 DEF Accepted
<1>3. b.id = [id |-> b.id.id, padded |-> FALSE] /\ b.url # "padded"
  BY <1>1 DEF Plainly
<1>4. DiscordEnabled(b) <=> HasChannel(b)
  <2>1. b.id = Blank => b.id.id = ""
    <3>1. Blank.id = ""
      BY DEF Blank
    <3>2. QED BY <3>1, Zenon
  <2>2. b.id.id = "" => b.id = Blank
    BY <1>3, Zenon DEF Blank
  <2>3. QED BY <2>1, <2>2 DEF DiscordEnabled, HasChannel
<1>5. b.mc # "broken" /\ (DiscordEnabled(b) => b.url = "ok")
  BY <1>2, <1>3, <1>4 DEF ValidBridge
<1>6. Cardinality(Sides(b, cfg)) >= 2
  <2>1. IsFiniteSet(Sides(b, cfg))
    <3>1. IsFiniteSet({"discord", "meshcore", "meshtastic"})
      <4>1. IsFiniteSet({"meshtastic"})
        BY FS_Singleton
      <4>2. IsFiniteSet({"meshtastic"} \cup {"meshcore"})
        BY <4>1, FS_AddElement
      <4>3. IsFiniteSet(({"meshtastic"} \cup {"meshcore"}) \cup {"discord"})
        BY <4>2, FS_AddElement
      <4>4. {"discord", "meshcore", "meshtastic"} = ({"meshtastic"} \cup {"meshcore"}) \cup {"discord"}
        OBVIOUS
      <4>5. QED BY <4>3, <4>4
    <3>2. Sides(b, cfg) \in SUBSET {"discord", "meshcore", "meshtastic"}
      BY DEF Sides, Started
    <3>3. QED BY <3>1, <3>2, FS_Subset
  <2>2. /\ HasChannel(b) => "discord" \in Sides(b, cfg)
        /\ b.mc # "off" => "meshcore" \in Sides(b, cfg)
        /\ b.mt # "off" => "meshtastic" \in Sides(b, cfg)
    BY <1>1, <1>4, SidesStarted DEF Sides
  <2>3. /\ b.mc # "off" \/ b.mt # "off"
        /\ HasChannel(b) \/ (b.mc # "off" /\ b.mt # "off")
    BY <1>2 DEF ValidBridge
  <2>4. \E x, y \in Sides(b, cfg) : x # y
    <3>1. "discord" # "meshcore" /\ "discord" # "meshtastic" /\ "meshcore" # "meshtastic"
      OBVIOUS
    <3>2. QED BY <2>2, <2>3, <3>1
  <2>5. QED BY <2>1, <2>4, TwoAtLeast
<1>7. \A s \in {"meshcore", "meshtastic"} :
          b[IF s = "meshcore" THEN "mc" ELSE "mt"] # "off" => s \in Started(cfg)
  BY <1>1, SidesStarted
<1>8. HasChannel(b) => ByChan(cfg, [id |-> b.id.id, padded |-> FALSE]) = i
  <2>1. SUFFICES ASSUME HasChannel(b) PROVE ByChan(cfg, [id |-> b.id.id, padded |-> FALSE]) = i
    OBVIOUS
  <2> DEFINE own == {j \in Enabled(cfg) : DiscordEnabled(On(cfg, j)) /\ On(cfg, j).id = b.id}
  <2>2. i \in own
    BY <1>4, <2>1
  <2>3. ASSUME NEW j \in own PROVE j = i
    BY <1>1, <1>2, <2>1 DEF Distinct
  <2>4. own = {i}
    BY <2>2, <2>3
  <2>5. ByChan(cfg, b.id) = IF own = {} THEN 0 ELSE CHOOSE j \in own : \A k \in own : k <= j
    BY Zenon DEF ByChan
  <2>6. i <= i
    BY <1>1 DEF Enabled
  <2> HIDE DEF own
  <2>7. (CHOOSE j \in own : \A k \in own : k <= j) \in own
    BY <2>4, <2>6
  <2>8. ByChan(cfg, b.id) \in own
    BY <2>2, <2>5, <2>7
  <2>9. ByChan(cfg, b.id) = i
    BY <2>4, <2>8
  <2>10. QED BY <1>3, <2>9, Zenon
<1>9. b.mc # "off" /\ b.notice =>
          ~b.readOnly /\ ResolvedRxScopes(b, cfg) # {}
                      /\ \A s \in b.complain : s \notin ResolvedRxScopes(b, cfg)
  <2>1. b.mc # "off" => ValidScopeNotice(b, ResolvedRxScopes(b, cfg))
    BY <1>2 DEF ValidBridge
  <2>2. QED BY <2>1 DEF ValidScopeNotice
<1>10. QED BY <1>5, <1>6, <1>7, <1>8, <1>9

-----------------------------------------------------------------------------
(* Chunks and packets: what is cut goes out. *)

\* What Fill makes.
LEMMA FillIs ==
    ASSUME NEW n \in Nat, NEW b
    PROVE  /\ Fill(n, b) \in Seq({b}) /\ Len(Fill(n, b)) = n
           /\ \A i \in 1..n : Fill(n, b)[i] = b
BY DEF Fill

\* A name that fills the limit alone: one chunk is left, with nothing of the text.
LEMMA LongNames ==
    ASSUME NEW name \in Nat, NEW r \in Runes, NEW max \in Int, Prefix(name) > max
    PROVE  \A i \in 1..Len(ComposeChunks(name, r, max).chunks) :
               Size(ComposeChunks(name, r, max).chunks[i]) = Prefix(name)
<1>1. PICK chunks : chunks = ComposeChunks(name, r, max).chunks
  OBVIOUS
<1>2. PICK before \in Nat : before = Prefix(name) /\ before > max
  BY DEF Prefix
<1>3. Len(r) \in Nat /\ \A k \in 0..Len(r) : BytesTo(r, k) \in Nat
  BY TextFacts
<1>4. ~Short(name, r, max)
  <2>1. Len(r) \in 0..Len(r)
    BY <1>3
  <2>2. Bytes(r) \in Nat
    BY <1>3, <2>1 DEF Bytes
  <2>3. QED BY <1>2, <2>2 DEF Short
<1>5. ~(Pieces(name, r, max) > 0)
  <2>1. \A n \in 2..MaxPieces : ~Hold(name, r, max, n)
    <3>1. \A n \in 2..MaxPieces : ~(Room(name, n, max) > 0)
      BY <1>2 DEF Room, PiecePrefix, Prefix, Digits, MaxPieces
    <3>2. QED BY <3>1 DEF Hold
  <2>2. Pieces(name, r, max) = 0
    BY <2>1, PiecesFirst
  <2>3. QED BY <2>2
<1>6. PICK k \in 0..Len(r) :
          /\ chunks = <<[before |-> before, text |-> SubSeq(r, 1, k)]>>
          /\ BytesTo(r, k) <= (IF max - before < 0 THEN 0 ELSE max - before)
  BY <1>1, <1>2, <1>4, <1>5, ComposedCut DEF Whole
<1>7. Bytes(SubSeq(r, 1, k)) = 0
  <2>1. 1 \in 1..(Len(r) + 1) /\ k \in (1 - 1)..Len(r) /\ 1 - 1 = 0
    BY <1>3
  <2>2. Bytes(SubSeq(r, 1, k)) = BytesTo(r, k) - BytesTo(r, 0) /\ BytesTo(r, 0) = 0
    BY <2>1, PartOfText, BytesStep
  <2>3. BytesTo(r, k) \in Nat /\ BytesTo(r, k) <= 0
    BY <1>2, <1>3, <1>6
  <2>4. QED BY <2>2, <2>3
<1>8. PICK text : text = SubSeq(r, 1, k)
  OBVIOUS
<1>9. Len(chunks) = 1 /\ chunks[1] = [before |-> before, text |-> text]
  BY <1>6, <1>8
<1>10. Size(chunks[1]) = before
  <2>1. chunks[1].before = before /\ chunks[1].text = text
    BY <1>9
  <2>2. QED BY <1>2, <1>7, <1>8, <2>1 DEF Size
<1>11. \A i \in 1..Len(chunks) : Size(chunks[i]) = before
  BY <1>9, <1>10
<1>12. QED BY <1>1, <1>2, <1>11

\* Whether the radio's frame can take a packet with a chunk is up to the name.
SendableByName(name, chunks) ==
    \A i \in 1..Len(chunks), size \in 1..4 : \A key, scope, timestamp :
        Sendable(Build(ChannelPacket(key, size, scope, Fill(Size(chunks[i]), 65), timestamp)))
            <=> name <= LongestName

\* composeChunks, BuildPacket, BuildSendRawPacketFrame, for every name and every text: with
\* meshcoreMaxChunkBytes every chunk goes into the radio's frame, also one that a wide rune
\* takes beyond the limit, if the name has no more than LongestName bytes; with a longer
\* name none does.
THEOREM EveryChunkSendable ==
    \A name \in Nat, r \in Seq(1..4) : SendableByName(name, ComposeChunks(name, r, 150).chunks)
<1>1. SUFFICES ASSUME NEW name \in Nat, NEW r \in Seq(1..4),
                      NEW i \in 1..Len(ComposeChunks(name, r, 150).chunks), NEW size \in 1..4,
                      NEW key, NEW scope, NEW timestamp
               PROVE  Sendable(Build(ChannelPacket(key, size, scope,
                          Fill(Size(ComposeChunks(name, r, 150).chunks[i]), 65), timestamp)))
                        <=> name <= LongestName
  BY DEF SendableByName
<1>2. r \in Runes
  <2>1. 1..4 \subseteq Nat \ {0}
    OBVIOUS
  <2>2. QED BY <2>1, SeqMonotonic DEF Runes
<1>3. \A j \in 1..Len(r) : r[j] \in 1..4
  BY ElementOfSeq
<1>4. 150 \in Int /\ 4 \in Nat \ {0}
  OBVIOUS
<1>5. PICK n \in Nat : /\ n = Size(ComposeChunks(name, r, 150).chunks[i])
                       /\ n <= 155 <=> name <= LongestName
  <2>1. CASE name <= 148
    <3>1. Prefix(name) <= 150
      BY <2>1 DEF Prefix
    <3>2. PICK m \in Nat : m = Size(ComposeChunks(name, r, 150).chunks[i]) /\ m <= 150 + 4 - 1
      BY <1>2, <1>3, <1>4, <3>1, ChunkSizes
    <3>3. QED BY <2>1, <3>2 DEF LongestName
  <2>2. CASE name > 148
    <3>1. Prefix(name) > 150
      BY <2>2 DEF Prefix
    <3>2. Size(ComposeChunks(name, r, 150).chunks[i]) = Prefix(name)
      BY <1>2, <1>4, <3>1, LongNames
    <3>3. Prefix(name) \in Nat /\ (Prefix(name) <= 155 <=> name <= LongestName)
      BY DEF Prefix, LongestName
    <3>4. QED BY <3>2, <3>3
  <2>3. QED BY <2>1, <2>2
<1>6. PICK text \in Seq({65}) : text = Fill(n, 65) /\ Len(text) = n
  BY FillIs
<1>7. 0 \notin {65}
  OBVIOUS
<1>8. Sendable(Build(ChannelPacket(key, size, scope, text, timestamp))) <=> Len(text) <= 155
  BY <1>7, MessageLength
<1>9. QED BY <1>5, <1>6, <1>8

-----------------------------------------------------------------------------
(* The samples. *)

\* What a behaviour is about never changes.
LEMMA SampleStays == [CodecNext]_<<vars, sample>> => UNCHANGED sample
BY DEF CodecNext

\* The samples of each kind.
LEMMA StartSamples ==
    ASSUME CodecInit
    PROVE  /\ sample.part = "text" => sample.of \in ChunkSamples
           /\ sample.part = "packet" => sample.of \in PacketSamples
           /\ sample.part = "raw" => sample.of \in RawSamples
           /\ sample.part = "message" => sample.of \in Messages
           /\ sample.part = "config" =>
                  sample.of \in Settings(SUBSET {"t"}, OneBridge) \cup Settings({{}}, TwoBridges)
<1> DEFINE Of(part, S) == \E s \in S : sample = [part |-> part, of |-> s]
<1>1. \/ sample = [part |-> "stream"] \/ Of("text", ChunkSamples) \/ Of("packet", PacketSamples)
      \/ Of("raw", RawSamples) \/ Of("message", Messages)
      \/ Of("config", Settings(SUBSET {"t"}, OneBridge)) \/ Of("config", Settings({{}}, TwoBridges))
  BY Zenon DEF CodecInit, Sampled
<1>2. ASSUME NEW part, NEW S, Of(part, S) PROVE sample.part = part /\ sample.of \in S
  BY <1>2
<1>3. sample = [part |-> "stream"] => sample.part = "stream"
  OBVIOUS
<1> HIDE DEF Of
<1>4. QED BY <1>1, <1>2, <1>3

\* The chunk samples are texts in the sense of the theorems.
LEMMA ChunkSamplesAre ==
    ASSUME NEW s \in ChunkSamples
    PROVE  /\ s.name \in Nat /\ s.max \in Int /\ s.runes \in Seq(1..4) /\ s.runes \in Runes
<1>1. \A lengths \in SUBSET Nat, sizes \in SUBSET (1..4) : Alike(lengths, sizes) \subseteq Seq(1..4)
  <2>1. ASSUME NEW n \in Nat, NEW w \in 1..4 PROVE Fill(n, w) \in Seq(1..4)
    <3>1. Fill(n, w) \in Seq({w}) /\ {w} \subseteq 1..4
      BY FillIs
    <3>2. QED BY <3>1, SeqMonotonic
  <2>2. ASSUME NEW lengths \in SUBSET Nat, NEW sizes \in SUBSET (1..4), NEW x \in Alike(lengths, sizes)
        PROVE  x \in Seq(1..4)
    <3>1. \E n \in lengths, w \in sizes : x = Fill(n, w)
      BY SMT DEF Alike
    <3>2. QED BY <2>1, <3>1
  <2>3. QED BY <2>2
<1>2. WideEnd \subseteq Seq(1..4)
  <2>1. ASSUME NEW f \in {0, 4, 40}, NEW k \in 0..4, NEW t \in [1..k -> {1, 3, 4}]
        PROVE  Fill(f, 1) \o t \in Seq(1..4)
    <3>1. f \in Nat /\ {1} \subseteq 1..4 /\ {1, 3, 4} \subseteq 1..4 /\ k \in Nat
      OBVIOUS
    <3>2. Fill(f, 1) \in Seq(1..4)
      <4>1. Fill(f, 1) \in Seq({1})
        BY <3>1, FillIs
      <4>2. QED BY <3>1, <4>1, SeqMonotonic
    <3>3. t \in Seq({1, 3, 4})
      BY <3>1
    <3>4. t \in Seq(1..4)
      BY <3>1, <3>3, SeqMonotonic
    <3>5. QED BY <3>2, <3>4, ConcatProperties
  <2>2. ASSUME NEW x \in WideEnd PROVE x \in Seq(1..4)
    <3>1. \E f \in {0, 4, 40}, t \in UNION {[1..k -> {1, 3, 4}] : k \in 0..4} : x = Fill(f, 1) \o t
      BY SMTT(30) DEF WideEnd
    <3>2. QED BY <2>1, <3>1
  <2>3. QED BY <2>2
<1>3. /\ 0..60 \in SUBSET Nat /\ {1, 3, 4} \in SUBSET (1..4) /\ {0, 1, 40, 60} \in SUBSET Nat
      /\ {1, 3, 8, 13} \subseteq Nat
      /\ {20, 128, 138, 148, 149, LongestName, LongestName + 1, 169, 170, 320} \subseteq Nat
      /\ {14, 20} \subseteq Int /\ {150, 200} \subseteq Int
  BY DEF LongestName
<1>4. Alike(0..60, {1, 3, 4}) \cup WideEnd \subseteq Seq(1..4)
      /\ Alike({0, 1, 40, 60}, {1, 3, 4}) \subseteq Seq(1..4)
  BY <1>1, <1>2, <1>3
<1>5. s.name \in Nat /\ s.max \in Int /\ s.runes \in Seq(1..4)
  BY <1>3, <1>4 DEF ChunkSamples
<1>6. s.runes \in Runes
  <2>1. 1..4 \subseteq Nat \ {0}
    OBVIOUS
  <2>2. Seq(1..4) \subseteq Runes
    BY <2>1, SeqMonotonic DEF Runes
  <2>3. QED BY <1>5, <2>1, <2>2
<1>7. QED BY <1>5, <1>6

\* So are the packet samples, and the bytes to be parsed.
LEMMA PacketSamplesAre ==
    /\ PacketSamples \subseteq PacketsOf(Nat)
    /\ RawSamples \subseteq Seq(0..255)
<1>1. ASSUME NEW n \in Nat, NEW b \in Nat PROVE Fill(n, b) \in Seq(Nat)
  <2>1. Fill(n, b) \in Seq({b}) /\ {b} \subseteq Nat
    BY FillIs
  <2>2. QED BY <2>1, SeqMonotonic
<1>2. {Fill(n, 200) : n \in {0, 2, 3, 12, 60, 63, 64}} \subseteq Seq(Nat)
  <2> DEFINE lengths == {0, 2, 3, 12, 60, 63, 64}
  <2>1. ASSUME NEW n \in lengths PROVE Fill(n, 200) \in Seq(Nat)
    <3>1. n \in Nat /\ 200 \in Nat
      OBVIOUS
    <3>2. QED BY <1>1, <3>1
  <2> HIDE DEF lengths
  <2>2. {Fill(n, 200) : n \in lengths} \subseteq Seq(Nat)
    BY <2>1
  <2>3. QED BY <2>2, Zenon DEF lengths
<1>3. {Fill(n, 7) : n \in {0, 1, MaxPacketPayload}} \subseteq Seq(Nat)
  <2>1. \A n \in {0, 1, MaxPacketPayload} : n \in Nat
    BY DEF MaxPacketPayload
  <2>2. 7 \in Nat
    OBVIOUS
  <2>3. \A n \in {0, 1, MaxPacketPayload} : Fill(n, 7) \in Seq(Nat)
    BY <1>1, <2>1, <2>2
  <2>4. QED BY <2>3, Zenon
<1>4. {<<9, 8, 7, 6>>} \subseteq Seq(Nat)
  OBVIOUS
<1>5. {0, GrpTxt, 15} \subseteq 0..15 /\ {0, 3} \subseteq 0..3 /\ 0..4 \subseteq Nat
  BY DEF GrpTxt
<1>6. PacketSamples \subseteq PacketsOf(Nat)
  BY <1>2, <1>3, <1>4, <1>5 DEF PacketSamples, PacketsOf
<1>7. RawSamples \subseteq Seq(0..255)
  <2>1. ASSUME NEW n \in 2..5, NEW raw \in [1..n -> {0, 1, 66, 129, 197}]
        PROVE  raw \in Seq(0..255)
    <3>1. n \in Nat /\ {0, 1, 66, 129, 197} \subseteq 0..255
      OBVIOUS
    <3>2. raw \in Seq({0, 1, 66, 129, 197})
      BY <3>1
    <3>3. QED BY <3>1, <3>2, SeqMonotonic
  <2>2. QED BY <2>1 DEF RawSamples
<1>8. QED BY <1>6, <1>7

\* A sampled text is one byte, repeated.
LEMMA TextIs ==
    ASSUME NEW text \in Texts
    PROVE  \E n \in TextLengths, b \in TextBytes : text = Fill(n, b)
BY SMT DEF Texts

\* The sampled messages can be relayed.
LEMMA MessagesAre ==
    ASSUME NEW m \in Messages
    PROVE  /\ m.size \in 1..4 /\ m.text \in Seq(TextBytes) /\ m.hops \in Seq(Seq(Nat))
           /\ Relayable(m.key, m.size, m.scope, m.text, m.hops)
<1>1. /\ m.key = "k" /\ m.size \in 1..4 /\ m.scope \in {"", "scope", "third"}
      /\ m.text \in Texts /\ m.hops \in {Repeaters(n) : n \in {0, 1, 16}}
  BY DEF Messages
<1>2. m.text \in Seq(TextBytes) /\ Len(m.text) <= 171
  <2>1. PICK n \in TextLengths, b \in TextBytes : m.text = Fill(n, b)
    BY <1>1, TextIs
  <2>2. n \in Nat /\ n <= 171 /\ {b} \subseteq TextBytes
    BY DEF TextLengths
  <2>3. Fill(n, b) \in Seq({b}) /\ Len(Fill(n, b)) = n
    BY <2>2, FillIs
  <2>4. QED BY <2>1, <2>2, <2>3, SeqMonotonic
<1>3. PICK n \in {0, 1, 16} : m.hops = Repeaters(n)
  BY <1>1
<1>4. n \in Nat /\ n <= 16
  OBVIOUS
<1>5. \A i \in 1..n : <<i, 2 * i, 0, 255>> \in Seq(Nat) /\ Len(<<i, 2 * i, 0, 255>>) = 4
  OBVIOUS
<1>6. m.hops \in Seq(Seq(Nat)) /\ Len(m.hops) = n /\ \A i \in 1..n : Len(m.hops[i]) = 4
  BY <1>3, <1>4, <1>5 DEF Repeaters
<1>7. m.scope # "other" /\ m.key # "another key"
  BY <1>1
<1>8. \A i \in 1..Len(m.hops) : Len(m.hops[i]) >= m.size
  <2>1. PICK size \in 1..4 : size = m.size
    BY <1>1
  <2>2. 4 >= size
    OBVIOUS
  <2>3. QED BY <1>6, <2>1, <2>2
<1>9. Len(m.hops) <= MaxHops /\ Len(m.hops) * m.size <= MaxPathSize
  <2>1. PICK size \in 1..4 : size = m.size
    BY <1>1
  <2>2. n <= 63 /\ n * size <= 64
    <3>1. size = 1 \/ size = 2 \/ size = 3 \/ size = 4
      OBVIOUS
    <3>2. QED BY <1>4, <3>1
  <2>3. QED BY <1>6, <2>1, <2>2 DEF MaxHops, MaxPathSize
<1>10. Relayable(m.key, m.size, m.scope, m.text, m.hops)
  BY <1>2, <1>7, <1>8, <1>9, Zenon DEF Relayable
<1>11. QED BY <1>1, <1>2, <1>6, <1>10

\* Without such spaces every configuration sampled is written plainly.
LEMMA ConfigsAre ==
    ASSUME Padding = {FALSE},
           NEW cfg \in Settings(SUBSET {"t"}, OneBridge) \cup Settings({{}}, TwoBridges)
    PROVE  Plainly(cfg)
<1> DEFINE Unpadded(b) == b.id = [id |-> b.id.id, padded |-> FALSE] /\ b.url # "padded"
<1>1. \A d \in Ids : d = [id |-> d.id, padded |-> FALSE]
  <2>1. ASSUME NEW d \in Ids PROVE d = [id |-> d.id, padded |-> FALSE]
    <3>1. d \in [id : {"", "1"}, padded : {FALSE}]
      BY Zenon DEF Ids
    <3>2. d.padded = FALSE /\ d = [id |-> d.id, padded |-> d.padded]
      BY <3>1
    <3>3. QED BY <3>2, Zenon
  <2>2. QED BY <2>1
<1>2. \A bridges \in OneBridge : \A i \in 1..Len(bridges) : Unpadded(bridges[i])
  <2>1. ASSUME NEW bridges \in OneBridge, NEW i \in 1..Len(bridges) PROVE Unpadded(bridges[i])
    <3>1. PICK b : b.id \in Ids /\ b.url \in Urls /\ bridges = <<b>>
      BY DEF OneBridge
    <3>2. bridges[i] = b
      BY <3>1
    <3>3. b.url # "padded"
      BY <3>1 DEF Urls
    <3>4. QED BY <1>1, <3>1, <3>2, <3>3, Zenon
  <2>2. QED BY <2>1
<1>3. ASSUME NEW b \in Plain PROVE Unpadded(b)
  <2>1. PICK d : b.id = Written(d) /\ b.url \in {"none", "ok"}
    BY DEF Plain
  <2>2. QED BY <2>1 DEF Written
<1>4. \A bridges \in TwoBridges : \A i \in 1..Len(bridges) : Unpadded(bridges[i])
  BY <1>3 DEF TwoBridges
<1>5. cfg.bridges \in OneBridge \cup TwoBridges
  BY DEF Settings
<1>6. QED BY <1>2, <1>4, <1>5 DEF Plainly, Enabled, On

-----------------------------------------------------------------------------
(* The properties the runs check. *)

\* The streams among the samples behave as Frames has it; other samples do not move.
THEOREM StreamsAreFrames == CodecSpec => Spec
<1>1. CodecInit => Init
  BY Zenon DEF CodecInit
<1>2. [CodecNext]_<<vars, sample>> => [Next]_vars
  BY DEF CodecNext
<1>3. QED BY <1>1, <1>2, PTL DEF CodecSpec, Spec

\* composeChunks: nothing of a message is lost or repeated between its pieces.
THEOREM TextsAreCarried == CodecSpec => []ChunksCarryAll
<1>1. CodecInit => ChunksCarryAll
  <2>1. SUFFICES ASSUME CodecInit, sample.part = "text"
                 PROVE  CarriesAll(sample.of.name, sample.of.runes, sample.of.max)
    BY DEF ChunksCarryAll
  <2>2. sample.of \in ChunkSamples
    BY <2>1, StartSamples
  <2>3. sample.of.name \in Nat /\ sample.of.max \in Int /\ sample.of.runes \in Runes
    BY <2>2, ChunkSamplesAre
  <2>4. QED BY <2>3, EveryTextCarried
<1>2. ChunksCarryAll /\ [CodecNext]_<<vars, sample>> => ChunksCarryAll'
  BY SampleStays DEF ChunksCarryAll
<1>3. QED BY <1>1, <1>2, PTL DEF CodecSpec

\* composeChunks, BuildSendRawPacketFrame: every message fits, and goes into the radio's
\* frame as far as names let it.
THEOREM TextsFit == CodecSpec => []ChunksFit
<1>1. CodecInit => ChunksFitTight
  <2>1. SUFFICES ASSUME CodecInit, sample.part = "text"
                 PROVE  FitsTight(sample.of.name, sample.of.runes, sample.of.max)
    BY DEF ChunksFitTight
  <2>2. sample.of \in ChunkSamples
    BY <2>1, StartSamples
  <2>3. sample.of.name \in Nat /\ sample.of.max \in Int /\ sample.of.runes \in Runes
    BY <2>2, ChunkSamplesAre
  <2>4. QED BY <2>3, EveryChunkFits
<1>2. CodecInit => ChunksSendable
  <2>1. SUFFICES ASSUME CodecInit, sample.part = "text", sample.of.max = 150
                 PROVE  LET c == ComposeChunks(sample.of.name, sample.of.runes, sample.of.max) IN
                        \A i \in 1..Len(c.chunks), size \in {2, 3}, scope \in {"", "scope"} :
                            Sendable(Build(ChannelPacket("k", size, scope, Fill(Size(c.chunks[i]), 65), 0)))
                                <=> sample.of.name <= LongestName
    BY Zenon DEF ChunksSendable
  <2>2. sample.of \in ChunkSamples
    BY <2>1, StartSamples
  <2>3. sample.of.name \in Nat /\ sample.of.runes \in Seq(1..4)
    BY <2>2, ChunkSamplesAre
  <2>4. PICK chunks : chunks = ComposeChunks(sample.of.name, sample.of.runes, 150).chunks
    OBVIOUS
  <2>5. SendableByName(sample.of.name, chunks)
    BY <2>3, <2>4, EveryChunkSendable
  <2>6. ASSUME NEW i \in 1..Len(chunks), NEW size \in {2, 3}, NEW scope
        PROVE  Sendable(Build(ChannelPacket("k", size, scope, Fill(Size(chunks[i]), 65), 0)))
                   <=> sample.of.name <= LongestName
    <3>1. size \in 1..4
      OBVIOUS
    <3>2. QED BY <2>5, <3>1, Zenon DEF SendableByName
  <2>7. \A i \in 1..Len(chunks), size \in {2, 3}, scope \in {"", "scope"} :
            Sendable(Build(ChannelPacket("k", size, scope, Fill(Size(chunks[i]), 65), 0)))
                <=> sample.of.name <= LongestName
    BY <2>6, Zenon
  <2>8. chunks = ComposeChunks(sample.of.name, sample.of.runes, sample.of.max).chunks
    BY <2>1, <2>4, Zenon
  <2>9. QED BY <2>7, <2>8, Zenon
<1>3. ChunksFit /\ [CodecNext]_<<vars, sample>> => ChunksFit'
  BY SampleStays DEF ChunksFit, ChunksFitTight, ChunksSendable
<1>4. QED BY <1>1, <1>2, <1>3, PTL DEF CodecSpec, ChunksFit

\* BuildPacket, ParsePacket: what was built is read back, what is read was built.
THEOREM PacketsAreReadBack == CodecSpec => []PacketsReadBack
<1>1. CodecInit => PacketsReadBack
  BY StartSamples, PacketSamplesAre, EveryPacketReadBack, EveryPacketKept DEF PacketsReadBack
<1>2. PacketsReadBack /\ [CodecNext]_<<vars, sample>> => PacketsReadBack'
  BY SampleStays DEF PacketsReadBack
<1>3. QED BY <1>1, <1>2, PTL DEF CodecSpec

\* trackDelivery, observeOwnCopy, maybeScopeNotice: every relayed copy of a message is
\* recognised, when no text has a zero byte.
THEOREM MessagesAreRecognised ==
    ASSUME 0 \notin TextBytes
    PROVE  CodecSpec => []MessagesRecognised
<1>1. CodecInit => MessagesRecognised
  BY StartSamples, MessagesAre, EveryCopyRecognised DEF MessagesRecognised
<1>2. MessagesRecognised /\ [CodecNext]_<<vars, sample>> => MessagesRecognised'
  BY SampleStays DEF MessagesRecognised
<1>3. QED BY <1>1, <1>2, PTL DEF CodecSpec

\* Validate, New, main: every bridge of an accepted configuration works, when no id
\* or URL has spaces around it.
THEOREM AcceptedAreServed ==
    ASSUME Padding = {FALSE}
    PROVE  CodecSpec => []AcceptedIsServed
<1>1. CodecInit => AcceptedIsServed
  BY StartSamples, ConfigsAre, EveryAcceptedServed DEF AcceptedIsServed
<1>2. AcceptedIsServed /\ [CodecNext]_<<vars, sample>> => AcceptedIsServed'
  BY SampleStays DEF AcceptedIsServed
<1>3. QED BY <1>1, <1>2, PTL DEF CodecSpec
=============================================================================
