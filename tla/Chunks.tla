------------------------------- MODULE Chunks -------------------------------
(***************************************************************************)
(* composeChunks (bridge/outbound.go): a message that is too long for one  *)
(* transmission goes out in pieces numbered "(i/n)", and no piece splits a *)
(* rune.  Sizes are what matters: a name is its number of bytes, a text    *)
(* the sequence of the numbers of bytes of its runes.                      *)
(***************************************************************************)
EXTENDS Integers, Sequences, SequencesExt

MaxPieces == 50 \* the loop's bound

Digits(i) == IF i < 10 THEN 1 ELSE 2

\* The bytes before the text of a whole message, "name: ", and of the i-th of
\* n pieces, "name (i/n): ".
Prefix(name) == name + 2
PiecePrefix(name, i, n) == name + 6 + Digits(i) + Digits(n)

\* The bytes of the first k runes.
BytesTo(runes, k) ==
    LET sum[i \in 0..Len(runes)] == IF i = 0 THEN 0 ELSE sum[i - 1] + runes[i] IN sum[k]

Bytes(runes) == BytesTo(runes, Len(runes))

\* splitRunesByByteLen: the runes its pieces begin with.  A piece takes as many
\* runes as fit, and at least one.
Starts(runes, avail) ==
    LET st[i \in 0..Len(runes)] ==
            LET before == st[i - 1] IN
            IF i = 0 THEN [starts |-> <<1>>, len |-> 0]
            ELSE IF before.len + runes[i] > avail /\ before.len > 0
                 THEN [starts |-> Append(before.starts, i), len |-> runes[i]]
                 ELSE [starts |-> before.starts, len |-> before.len + runes[i]]
    IN  st[Len(runes)].starts

Split(runes, avail) ==
    LET starts == Starts(runes, avail)
        ends == Append(Tail(starts), Len(runes) + 1)
    IN  [i \in 1..Len(starts) |-> SubSeq(runes, starts[i], ends[i] - 1)]

\* truncateRunes: the longest beginning that fits.
Truncate(runes, avail) ==
    SubSeq(runes, 1, Max({k \in 0..Len(runes) : BytesTo(runes, k) <= avail}))

\* A mutant of Room: the "(i/n)" is forgotten.
RoomWithoutNumbers(name, n, max) == max - Prefix(name)

\* What n pieces leave for the text of each.
Room(name, n, max) == max - PiecePrefix(name, n, n)

\* n pieces hold the text.
Hold(name, runes, max, n) ==
    Room(name, n, max) > 0 /\ Len(Starts(runes, Room(name, n, max))) <= n

\* A mutant of Pieces: the loop ends one piece early.
PiecesOneShort(name, runes, max) ==
    LET try[n \in 2..MaxPieces] ==
            IF n = MaxPieces THEN 0 ELSE IF Hold(name, runes, max, n) THEN n ELSE try[n + 1]
    IN  try[2]

\* The first number of pieces that hold the text; 0 if 50 do not.
Pieces(name, runes, max) ==
    LET try[n \in 2..MaxPieces] ==
            IF Hold(name, runes, max, n) THEN n ELSE IF n = MaxPieces THEN 0 ELSE try[n + 1]
    IN  try[2]

Whole(name, text) == [before |-> Prefix(name), text |-> text]

\* The messages composeChunks makes, as the number of bytes before the text and
\* the text; cut tells that the rest of the text was dropped.
ComposeChunks(name, runes, max) ==
    IF Prefix(name) + Bytes(runes) <= max
    THEN [chunks |-> <<Whole(name, runes)>>, cut |-> FALSE]
    ELSE LET n == Pieces(name, runes, max)
             pieces == Split(runes, Room(name, n, max))
             room == max - Prefix(name)
         IN  IF n > 0
             THEN [chunks |-> [i \in 1..Len(pieces) |->
                                  [before |-> PiecePrefix(name, i, Len(pieces)),
                                   text |-> pieces[i]]],
                   cut |-> FALSE]
             ELSE [chunks |-> <<Whole(name, Truncate(runes, IF room < 0 THEN 0 ELSE room))>>,
                   cut |-> TRUE]

Size(chunk) == chunk.before + Bytes(chunk.text)

-----------------------------------------------------------------------------

\* composeChunks: nothing of a message is lost or repeated between its pieces,
\* and they come in order.  A message is cut only if 50 pieces need not hold it,
\* however its runes fall - and then at a rune.
CarriesAll(name, runes, max) ==
    LET c == ComposeChunks(name, runes, max)
        text == FlattenSeq([i \in 1..Len(c.chunks) |-> c.chunks[i].text])
    IN  IF c.cut
        THEN /\ IsPrefix(text, runes)
             /\ Bytes(runes) > MaxPieces * (Room(name, MaxPieces, max) - Max(ToSet(runes) \cup {1}) + 1)
        ELSE text = runes

\* composeChunks, splitRunesByByteLen: every message fits into maxBytes with its
\* own "(i/n)" - n being known only when all are made - unless a single rune is
\* wider than the room left, or the name alone is; and none is sent without need:
\* the first rune of the next piece would not have fitted into it.
FitsTight(name, runes, max) ==
    LET c == ComposeChunks(name, runes, max)
        n == Len(c.chunks)
    IN  \A i \in 1..n :
            /\ \/ Size(c.chunks[i]) <= max
               \/ n > 1 /\ Len(c.chunks[i].text) = 1
               \/ n = 1 /\ Len(runes) = 1
               \/ c.cut /\ c.chunks[i].text = <<>>
            /\ n > 1 => c.chunks[i].text # <<>>
            /\ i < n => Bytes(c.chunks[i].text) + c.chunks[i + 1].text[1] > Room(name, n, max)
=============================================================================
