--------------------------- MODULE MCSignedMessage ---------------------------
(***************************************************************************)
(* Signed messages with bytes of four bits, characters of three and blocks *)
(* of four bytes.  A message of 6 or of 10 bytes has the marker's value in *)
(* its length field.                                                       *)
(***************************************************************************)
EXTENDS SignedMessage

MCAlphabet == [v \in 0 .. 7 |-> <<1, 2, 3, 4, 5, 6, 7, 9>>[v + 1]]
MCHeader == <<4, 9>>
MCOtherHeader == {<<4, 7>>, <<4, 9, 1>>}

\* Every payload of up to four bytes over three values, and longer ones up to
\* a byte more than the layout has room for.
MCPayload ==
    UNION {[1 .. n -> {0, 6, 15}] : n \in 1 .. 4}
      \cup {Repeat(b, n) \o <<c>> : b \in {0, 9}, c \in {1, 8, 15}, n \in 4 .. MaxDecoded}

=============================================================================
