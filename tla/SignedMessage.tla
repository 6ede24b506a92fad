---------------------------- MODULE SignedMessage ----------------------------
(***************************************************************************)
(* From the bytes an issuer signed to the text R_Base extracts claims      *)
(* from: SHA-256 over a buffer whose message may have any length, the      *)
(* window of the buffer that holds the payload, and its base64url          *)
(* decoding.  Sizes are parameters and keep the proportions of the code:   *)
(* four characters carry three bytes, a byte is 4 * Quarter bits.          *)
(***************************************************************************)
EXTENDS Integers, FiniteSets, SequencesExt

CONSTANTS
    Quarter,      \* a quarter of a byte's bits (2 in the code)
    BlockBytes,   \* bytes of a SHA-256 block (64)
    LengthBytes,  \* bytes of the length field that ends the padding (8)
    MaxDecoded,   \* max_decoded_payload_len of the layout
    Alphabet,     \* BASE64URL_ALPHABET: the byte that stands for a value
    Dot,          \* the separator byte
    Header,       \* base64url of JWT_HEADER_JSON
    Payload,      \* payloads issuers sign, as bytes
    OtherHeader,  \* headers other issuers use
    Junk,         \* bytes a prover fills the blocks it does not need with
    None          \* no token, no credential, no proof

Values(bits) == 0 .. 2 ^ bits - 1
Byte == Values(4 * Quarter)
Char == Values(3 * Quarter)

\* 0x80, the byte that follows the message: its top bit alone.
Marker == 2 ^ (4 * Quarter - 1)

\* Tokens are ASCII, so the marker is no byte of theirs; headers are base64url,
\* so the separator is none of theirs; and the empty bits of a group are the
\* character 'A'.
ASSUME MessageAssumption ==
    /\ Quarter \in Nat \ {0} /\ BlockBytes \in Nat /\ LengthBytes \in 1 .. BlockBytes - 1
    /\ MaxDecoded \in Nat \ {0} /\ MaxDecoded % 3 = 0
    /\ Alphabet \in [Char -> Byte] /\ Dot \in Byte
    /\ \A v, w \in Char : Alphabet[v] = Alphabet[w] => v = w
    /\ \A h \in OtherHeader \cup {Header} :
          h \in Seq(Byte) /\ Dot \notin ToSet(h) /\ Marker \notin ToSet(h) \cup {Dot, Alphabet[0]}
    /\ \A bs \in Payload : bs \in Seq(Byte)
    /\ \A v \in Char : Alphabet[v] \notin {Marker, Dot}

VARIABLES
    jwt,   \* the compact token: header, payload characters and what they encode
    cred,  \* the JWTCredential in memory
    base   \* what the R_Base proof made last shows of the message, or None

vars == <<jwt, cred, base>>

Repeat(b, n) == [i \in 1 .. n |-> b]
CeilDiv(a, b) == (a + b - 1) \div b

-----------------------------------------------------------------------------
(* The base64 and sha2 crates.                                             *)

\* Three bytes, or what there is of them and zeros, as a number.
GroupOfBytes(bs, g) ==
    LET b(i) == IF 3 * g + i \in DOMAIN bs THEN bs[3 * g + i] ELSE 0
        s == 2 ^ (4 * Quarter)
    IN  (b(1) * s + b(2)) * s + b(3)

\* URL_SAFE_NO_PAD.encode
base64url_encode(bs) ==
    [i \in 1 .. CeilDiv(4 * Len(bs), 3) |->
        LET below == 3 - ((i - 1) % 4)
        IN  Alphabet[(GroupOfBytes(bs, (i - 1) \div 4) \div 2 ^ (3 * Quarter * below))
                        % 2 ^ (3 * Quarter)]]

CharValue(c) == CHOOSE v \in Char : Alphabet[v] = c

\* Four characters, or what there is of them and 'A's, as a number.
GroupOfChars(cs, g) ==
    LET v(i) == IF 4 * g + i \in DOMAIN cs THEN CharValue(cs[4 * g + i]) ELSE 0
        s == 2 ^ (3 * Quarter)
    IN  ((v(1) * s + v(2)) * s + v(3)) * s + v(4)

\* URL_SAFE_NO_PAD.decode, for characters of the alphabet.
base64url_decode(cs) ==
    [i \in 1 .. (3 * Len(cs)) \div 4 |->
        LET below == 2 - ((i - 1) % 3)
        IN  (GroupOfChars(cs, (i - 1) \div 3) \div 2 ^ (4 * Quarter * below))
               % 2 ^ (4 * Quarter)]

\* decode refuses other characters, a single left-over character and left-over
\* bits that are not zero.
Decodes(cs) ==
    /\ ToSet(cs) \subseteq {Alphabet[v] : v \in Char}
    /\ base64url_encode(base64url_decode(cs)) = cs

\* The big-endian length in bits.
LengthField(len) ==
    [i \in 1 .. LengthBytes |->
        ((4 * Quarter * len) \div 2 ^ (4 * Quarter * (LengthBytes - i)))
            % 2 ^ (4 * Quarter)]

BlockCount(len) == CeilDiv(len + 1 + LengthBytes, BlockBytes)

Sha256Padded(m) ==
    m \o <<Marker>>
      \o Repeat(0, BlockCount(Len(m)) * BlockBytes - Len(m) - 1 - LengthBytes)
      \o LengthField(Len(m))

\* The hash is taken to be collision-free: a digest is the blocks it is of.
Sha256(m) == Sha256Padded(m)

-----------------------------------------------------------------------------
(* The layout, and tokens made and loaded.                                 *)

max_payload_b64_len == Len(base64url_encode(Repeat(0, MaxDecoded)))
payload_b64_byte_offset == Len(Header) + 1
max_msg_len_bytes == Len(Header) + 1 + max_payload_b64_len

MessageOf(h, cs) == h \o <<Dot>> \o cs
Token(h, bs) == [header |-> h, payload |-> base64url_encode(bs), bytes |-> bs]

ASSUME NoneAssumption ==
    \A h \in OtherHeader \cup {Header}, bs \in Payload : None # Token(h, bs)

Init == jwt = None /\ cred = None /\ base = None

\* build_jwt_credential: the library signs a payload the layout has room for.
Build ==
    /\ jwt = None
    /\ \E bs \in Payload :
          /\ Len(bs) <= MaxDecoded
          /\ Len(base64url_encode(bs)) <= max_payload_b64_len
          /\ jwt' = Token(Header, bs)
          /\ cred' = [header |-> Header, payload |-> base64url_encode(bs)]
    /\ UNCHANGED base

\* A token signed without the library, under any header and of any length.
SignElsewhere ==
    /\ jwt = None
    /\ \E h \in OtherHeader \cup {Header}, bs \in Payload : jwt' = Token(h, bs)
    /\ UNCHANGED <<cred, base>>

\* from_jwt_file, once the signature verified.
Load ==
    /\ jwt # None /\ cred = None
    /\ Decodes(jwt.payload)
    /\ Len(base64url_decode(jwt.payload)) <= MaxDecoded
    /\ cred' = [header |-> jwt.header, payload |-> jwt.payload]
    /\ UNCHANGED <<jwt, base>>

-----------------------------------------------------------------------------
(* The circuit, over a buffer of bytes, the claimed length of the message  *)
(* in it and the claimed number of blocks.  That the buffer's bits are 0   *)
(* or 1, as every filling of the library has them, is assumed.             *)

max_blocks == CeilDiv(4 * Quarter * (max_msg_len_bytes + LengthBytes) + 1,
                      4 * Quarter * BlockBytes)
BufferBytes == max_blocks * BlockBytes

\* The block states are computed for all blocks and one is selected.
SelectedDigest(message, num_blocks) == SubSeq(message, 1, num_blocks * BlockBytes)

\* range_bits: enough for max_blocks * 64, and one more.
RangeBits == (CHOOSE b \in 0 .. BufferBytes :
                 2 ^ b >= BufferBytes /\ \A c \in 0 .. b - 1 : 2 ^ c < BufferBytes) + 1

\* Mutation of MarkerSelected: the byte selected is not looked at.
MarkerUnchecked(message, len) == len \in 0 .. BufferBytes - 1

\* The one-hot indicator of the length selects the marker.
MarkerSelected(message, len) == len \in 0 .. BufferBytes - 1 /\ message[len + 1] = Marker

\* Mutation of constrain_sha256_padding: room for one byte more than the marker
\* and the length field take.
constrain_padding_short(message, len, num_blocks) ==
    /\ MarkerSelected(message, len)
    /\ num_blocks * BlockBytes - len - (LengthBytes + 2) \in Values(RangeBits)
    /\ len + BlockBytes + LengthBytes - num_blocks * BlockBytes \in Values(RangeBits)

\* Neither the zeros nor the length field of the padding is looked at.
constrain_sha256_padding(message, len, num_blocks) ==
    /\ MarkerSelected(message, len)
    /\ num_blocks * BlockBytes - len - (LengthBytes + 1) \in Values(RangeBits)
    /\ len + BlockBytes + LengthBytes - num_blocks * BlockBytes \in Values(RangeBits)

constrain_jwt_header(message) ==
    SubSeq(message, 1, payload_b64_byte_offset) = Header \o <<Dot>>

\* Position i of the payload is inside it: a suffix sum of the length's indicator.
IsActive(i, payloadLen) == i < payloadLen

\* The decoder's input: the window of the buffer, 'A' where it is not active.
DecoderInput(message, payloadLen) ==
    [i \in 1 .. max_payload_b64_len |->
        IF IsActive(i - 1, payloadLen)
        THEN message[payload_b64_byte_offset + i] ELSE Alphabet[0]]

\* The ways to split a value in a high and a low part of the given widths.
Splits(v, hi, lo) ==
    {s \in Values(hi) \X Values(lo) : s[1] * 2 ^ lo + s[2] = v}

\* The byte triples the constraints of a group of four characters admit.
GroupDecodings(c) ==
    LET q == Quarter
        six(i) == {v \in Char : Alphabet[v] = c[i]}
    IN  UNION { { << v[1] * 2 ^ q + s1[1],
                     s1[2] * 2 ^ (2 * q) + s2[1],
                     s2[2] * 2 ^ (3 * q) + v[4] >> :
                  s1 \in Splits(v[2], q, 2 * q), s2 \in Splits(v[3], 2 * q, q) } :
                v \in six(1) \X six(2) \X six(3) \X six(4) }

\* Texts the decoder's constraints admit; every group is decoded on its own.
Decodings(ascii) ==
    LET groups == 0 .. Len(ascii) \div 4 - 1
        triples == [g \in groups |-> GroupDecodings(SubSeq(ascii, 4 * g + 1, 4 * g + 4))]
        choices == {f \in [groups -> UNION Range(triples)] :
                       \A g \in groups : f[g] \in triples[g]}
    IN  IF \E g \in groups : triples[g] = {} THEN {}
        ELSE {[i \in 1 .. 3 * Cardinality(groups) |-> f[(i - 1) \div 3][((i - 1) % 3) + 1]] :
                 f \in choices}

\* The issuer's signature is on the digest the circuit computed.
BaseHolds(message, len, num_blocks, text) ==
    /\ num_blocks \in 1 .. max_blocks
    /\ SelectedDigest(message, num_blocks) = Sha256(MessageOf(jwt.header, jwt.payload))
    /\ constrain_sha256_padding(message, len, num_blocks)
    /\ constrain_jwt_header(message)
    /\ len - payload_b64_byte_offset \in 0 .. max_payload_b64_len
    /\ text \in Decodings(DecoderInput(message, len - payload_b64_byte_offset))

-----------------------------------------------------------------------------
(* Provers.                                                                *)

\* A message and its padding, with one byte repeated in the blocks after it.
Buffer(m, junk) ==
    Sha256Padded(m) \o Repeat(junk, BufferBytes - BlockCount(Len(m)) * BlockBytes)

\* prove_jwt_base's values: its buffer, and the decoding of the padded payload.
FilledText == base64url_decode(cred.payload
                                 \o Repeat(Alphabet[0], max_payload_b64_len - Len(cred.payload)))

FilledHolds ==
    LET m == MessageOf(cred.header, cred.payload)
    IN  BaseHolds(Buffer(m, 0), Len(m), BlockCount(Len(m)), FilledText)

Shown(len, text) == [len |-> len, text |-> text]

\* prove_jwt_base
ProveBase ==
    /\ cred # None /\ base = None
    /\ FilledHolds
    /\ base' = Shown(Len(MessageOf(cred.header, cred.payload)), FilledText)
    /\ UNCHANGED <<jwt, cred>>

\* Any prover: any claimed length, any number of blocks, any bytes in blocks
\* the digest does not cover.
ProveAny ==
    /\ jwt # None /\ base = None
    /\ LET m == MessageOf(jwt.header, jwt.payload)
       IN  /\ BlockCount(Len(m)) <= max_blocks
           /\ \E junk \in Junk, len \in 0 .. BufferBytes - 1, n \in 1 .. max_blocks :
                 /\ len - payload_b64_byte_offset \in 0 .. max_payload_b64_len
                 /\ \E text \in Decodings(DecoderInput(Buffer(m, junk),
                                                       len - payload_b64_byte_offset)) :
                       /\ BaseHolds(Buffer(m, junk), len, n, text)
                       /\ base' = Shown(len, text)
    /\ UNCHANGED <<jwt, cred>>

Next == Build \/ SignElsewhere \/ Load \/ ProveBase \/ ProveAny

Spec == Init /\ [][Next]_vars

-----------------------------------------------------------------------------
(* Properties.                                                             *)

\* Whatever length, block count and left-over blocks its prover claims, a
\* proof reads the text the issuer encoded, to its end, and zeros after it,
\* from a token under the one header.  The circuit looks at neither the zeros
\* nor the length field of the padding: that a token holds no marker has to do.
SignedTextIsRead ==
    base # None =>
        /\ jwt.header = Header
        /\ base.len = Len(MessageOf(jwt.header, jwt.payload))
        /\ base.text = jwt.bytes \o Repeat(0, MaxDecoded - Len(jwt.bytes))

\* A credential the library built, or loaded under the one header, can be
\* proved: its length may be any up to the layout's, at a block's edge too,
\* and its last group of characters may be full or not.
CredentialCanBeProved ==
    cred # None /\ cred.header = Header => FilledHolds

=============================================================================
