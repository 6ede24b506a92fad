--------------------------- MODULE ClaimExtraction ---------------------------
(***************************************************************************)
(* From a signed JSON payload to the attributes R_Base commits to.  The    *)
(* owner's library searches the text for each key and keeps the list it    *)
(* found or was given; the circuit lets the prover name any position and   *)
(* checks the bytes around it.  A payload is a sequence of bytes in which  *)
(* every key is one byte long, and structure is what JSON makes it.        *)
(***************************************************************************)
EXTENDS Integers, FiniteSets, SequencesExt

CONSTANTS
    Byte,         \* the bytes of payloads
    KeyList,      \* claim key lists that layouts and circuits are made for
    GivenValue,   \* values an issuer is asked to sign
    MaxValueLen,  \* max_value_len of every layout
    IssMaxLen,    \* JWT_ISS_MAX_VALUE_LEN
    IatMaxLen,    \* JWT_IAT_MAX_VALUE_LEN
    IssValue,     \* JWT_ISS_VALUE
    IatValue,     \* JWT_IAT_DEFAULT
    Coord,        \* a coordinate of the fixed holder key
    Legacy,       \* members of payloads signed outside the library
    None          \* no file, no credential, no proof

Quote  == "q"
Colon  == ":"
Comma  == ","
LBrace == "{"
RBrace == "}"
Escape == "\\"
Nul    == "0"

\* Key bytes of the standard claims and of the members of cnf.
Iss == "i"
Iat == "t"
Cnf == "n"
X   == "x"
Y   == "y"

Standard == {Iss, Iat, Cnf}

\* A member of a payload object: a string, a number, or the cnf block.
Str(k, v) == [key |-> k, kind |-> "string", val |-> v]
Num(k, v) == [key |-> k, kind |-> "number", val |-> v]
CnfOf(c)  == [key |-> Cnf, kind |-> "cnf", val |-> c]

\* A key's byte stands for its name, and is none of the structure's.
KeyByte == Byte \ {Quote, Colon, Comma, LBrace, RBrace}

Member == [key : KeyByte, kind : {"string", "number", "cnf"}, val : Seq(Byte)]

\* Texts the library writes itself and coordinates have no quotes in them.
Unquoted(s) == s \in Seq(Byte) /\ Quote \notin ToSet(s)

ASSUME TextAssumption ==
    /\ {Quote, Colon, Comma, LBrace, RBrace, Nul, Iss, Iat, Cnf, X, Y} \subseteq Byte
    /\ \A ks \in KeyList : ks \in Seq(KeyByte)
    /\ GivenValue \subseteq Seq(Byte)
    /\ \A s \in {IssValue, IatValue, Coord} : Unquoted(s)
    /\ \A ms \in Legacy :
        /\ ms \in Seq(Member) /\ ms # <<>>
        /\ \A i \in DOMAIN ms : ms[i].kind = "cnf" => ms[i].key = Cnf /\ Unquoted(ms[i].val)

ASSUME ExtractionAssumption ==
    /\ \A n \in {MaxValueLen, IssMaxLen, IatMaxLen} : n \in Nat \ {0} /\ n % 4 = 0
    /\ Len(IssValue) \in 1 .. IssMaxLen /\ Len(IatValue) \in 1 .. IatMaxLen
    /\ \A ks \in KeyList : ks # <<>>

VARIABLES
    jwt,      \* payload in the compact file and its members, or None
    cred,     \* the JWTCredential in memory, or None
    members,  \* history: the members its payload was made from
    built,    \* history: the library signed it, it was not loaded
    base      \* the R_Base proof made last, with its prover's list, or None

vars == <<jwt, cred, members, built, base>>

-----------------------------------------------------------------------------
(* Text.                                                                   *)

Ceil4(n) == ((n + 3) \div 4) * 4
Ceil3(n) == ((n + 2) \div 3) * 3

\* Vec::resize(n, 0): pads with zero bytes, or cuts.
Resize(s, n) == [i \in 1 .. n |-> IF i <= Len(s) THEN s[i] ELSE Nul]

\* The elements of a sequence that are in a set, in order.
Only(s, S) ==
    LET kept[i \in 0 .. Len(s)] ==
          IF i = 0 THEN <<>>
          ELSE IF s[i] \in S THEN Append(kept[i - 1], s[i]) ELSE kept[i - 1]
    IN  kept[Len(s)]

Quoted(s) == <<Quote>> \o s \o <<Quote>>

CnfPrefix == Quoted(<<Cnf>>) \o <<Colon, LBrace>> \o Quoted(<<X>>) \o <<Colon, Quote>>
CnfSeparator == <<Quote, Comma>> \o Quoted(<<Y>>) \o <<Colon, Quote>>
CnfBlock(c) == CnfPrefix \o c \o CnfSeparator \o c \o <<Quote, RBrace>>

MemberText(m) ==
    CASE m.kind = "string" -> Quoted(<<m.key>>) \o <<Colon>> \o Quoted(m.val)
      [] m.kind = "number" -> Quoted(<<m.key>>) \o <<Colon>> \o m.val
      [] m.kind = "cnf"    -> CnfBlock(m.val)

\* The JSON object with these members; no character is escaped.
JsonText(ms) ==
    <<LBrace>> \o MemberText(Head(ms))
      \o FlattenSeq([i \in 1 .. Len(ms) - 1 |-> <<Comma>> \o MemberText(ms[i + 1])])
      \o <<RBrace>>

PayloadMembers(keys, values, iss, iat) ==
    <<Str(Iss, iss), Str(Iat, iat), CnfOf(Coord)>>
      \o [i \in 1 .. Len(keys) |-> Str(keys[i], values[i])]

\* build_payload_json
PayloadJson(keys, values, iss, iat) ==
    JsonText(PayloadMembers(keys, values, iss, iat))

\* generate_jwt_layout_inner: the decoded length of the longest payload.
Longest(n) == [i \in 1 .. n |-> X]

MaxDecodedLen(keys) ==
    Ceil3(Len(PayloadJson(keys, [i \in 1 .. Len(keys) |-> Longest(MaxValueLen)],
                          Longest(IssMaxLen), Longest(IatMaxLen))))

\* key_padded || value_padded, for keys of one byte.
AttributeOf(key, value) == <<key>> \o Resize(value, MaxValueLen)

-----------------------------------------------------------------------------
(* The search in the text.                                                 *)

Occurrences(text, pattern) ==
    {p \in 1 .. Len(text) - Len(pattern) + 1 :
        SubSeq(text, p, p + Len(pattern) - 1) = pattern}

Least(S) == CHOOSE p \in S : \A r \in S : p <= r

SearchKey(key) == Quoted(<<key>>) \o <<Colon>>

\* Where the value of the first occurrence starts and ends; two bytes after
\* the key are skipped whatever they are.
ValueStart(p) == p + 5
ClosingQuotes(text, p) == {r \in ValueStart(p) .. Len(text) : text[r] = Quote}

Findable(text, key) ==
    LET found == Occurrences(text, SearchKey(key))
    IN  /\ found # {}
        /\ Least(found) > 1
        /\ text[Least(found) - 1] \in {LBrace, Comma}
        /\ ClosingQuotes(text, Least(found)) # {}

\* find_claim_position, where it succeeds; start counts from zero.
FindClaimPosition(text, key) ==
    LET p == Least(Occurrences(text, SearchKey(key)))
    IN  [ key |-> key, start |-> p - 1,
          value |-> SubSeq(text, ValueStart(p), Least(ClosingQuotes(text, p)) - 1) ]

\* find_cnf_start and extract_cnf_coords
CnfFindable(text) ==
    LET found == Occurrences(text, CnfPrefix)
    IN  found # {} /\ Least(found) \in Occurrences(text, CnfBlock(Coord))

FindCnfStart(text) == Least(Occurrences(text, CnfPrefix)) - 1

-----------------------------------------------------------------------------
(* The circuit: a witness names a position and a length.                   *)

\* Bytes an extractor slices out of the payload, with room to realign.
SliceLen(maxLen) == Ceil4(1 + maxLen + 7) + 4
CnfSliceLen == Ceil4(Len(CnfBlock(Coord))) + 4

\* Mutation of PaddedJsonLen: no room for a window at the end of the payload.
PaddedToWords(decodedLen) == Ceil4(decodedLen)

PaddedJsonLen(decodedLen) ==
    Ceil4(decodedLen + Max({ SliceLen(MaxValueLen), SliceLen(IssMaxLen),
                             SliceLen(IatMaxLen), CnfSliceLen }))

\* Starts a word-aligned window of this length can be cut at, realigned.
ValidStarts(jsonLen, sliceLen) == 0 .. ((jsonLen - sliceLen) \div 4) * 4 + 3

\* The A-padded base64 text decodes to the payload and zero bytes.
CircuitJson(text, keys) == Resize(text, PaddedJsonLen(MaxDecodedLen(keys)))

\* Mutation of KnownKeyClaim: quotes may occur within the value.
ClaimUpToSomeQuote(json, key, maxLen, start, len) ==
    LET byte(j) == json[start + j + 1]
    IN  /\ start \in ValidStarts(Len(json), SliceLen(maxLen))
        /\ len \in 1 .. maxLen
        /\ byte(0) \in {LBrace, Comma}
        /\ [j \in 1 .. 5 |-> byte(j)] = SearchKey(key) \o <<Quote>>
        /\ byte(6 + len) = Quote

\* make_json_claim_circuit_known_key: start is the byte before the key.
KnownKeyClaim(json, key, maxLen, start, len) ==
    LET byte(j) == json[start + j + 1]
    IN  /\ start \in ValidStarts(Len(json), SliceLen(maxLen))
        /\ len \in 1 .. maxLen
        /\ byte(0) \in {LBrace, Comma}
        /\ [j \in 1 .. 5 |-> byte(j)] = SearchKey(key) \o <<Quote>>
        /\ byte(6 + len) = Quote
        /\ \A j \in 6 .. 5 + len : byte(j) # Quote

\* Mutation of ClaimLeaf: bytes after the value are not zeroed.
ClaimLeafUnmasked(json, key, start, len) ==
    <<key>> \o SubSeq(json, start + 7, start + 6 + MaxValueLen)

\* The key, and the value with the bytes after it zeroed.
ClaimLeaf(json, key, start, len) ==
    <<key>> \o Resize(SubSeq(json, start + 7, start + 6 + len), MaxValueLen)

\* make_cnf_extractor_circuit, for the owner whose key it proves.
CnfClaim(json, start) ==
    /\ start \in ValidStarts(Len(json), CnfSliceLen)
    /\ SubSeq(json, start + 1, start + Len(CnfBlock(Coord))) = CnfBlock(Coord)

\* Every leaf some witness makes the extractor of a key yield.
ClaimReadings(json, key) ==
    {ClaimLeaf(json, key, w[1], w[2]) :
        w \in {v \in ValidStarts(Len(json), SliceLen(MaxValueLen)) \X (1 .. MaxValueLen) :
                  KnownKeyClaim(json, key, MaxValueLen, v[1], v[2])}}

-----------------------------------------------------------------------------
(* Credentials.                                                            *)

\* The credential fields both constructors find in the payload's text.
Parsed(text, keys) ==
    [ payload |-> text, keys |-> keys,
      claims |-> [i \in 1 .. Len(keys) |-> FindClaimPosition(text, keys[i])],
      iss |-> FindClaimPosition(text, Iss), iat |-> FindClaimPosition(text, Iat),
      cnf |-> FindCnfStart(text) ]

Parsable(text, keys) ==
    /\ \A k \in ToSet(keys) \cup {Iss, Iat} : Findable(text, k)
    /\ CnfFindable(text)

Credential(text, keys, values) ==
    LET parsed == Parsed(text, keys)
    IN  [ payload |-> text, keys |-> keys,
          attributes |-> [i \in 1 .. Len(values) |-> AttributeOf(keys[i], values[i])],
          claims |-> parsed.claims, iss |-> parsed.iss, iat |-> parsed.iat, cnf |-> parsed.cnf ]

\* build_jwt_credential: the list is built from the values given.
BuiltCredential(keys, values) ==
    Credential(PayloadJson(keys, values, IssValue, IatValue), keys, values)

\* The values the search finds.
FoundValues(text, keys) == [i \in 1 .. Len(keys) |-> FindClaimPosition(text, keys[i]).value]

\* Mutation of LoadedCredential: values keep the length they have.
LoadedUnpadded(text, keys) ==
    [Credential(text, keys, FoundValues(text, keys)) EXCEPT
        !.attributes = [i \in 1 .. Len(keys) |-> <<keys[i]>> \o FoundValues(text, keys)[i]]]

\* from_jwt_file: the list is built from the values found.
LoadedCredential(text, keys) == Credential(text, keys, FoundValues(text, keys))

Loadable(text, keys) ==
    /\ Len(text) <= MaxDecodedLen(keys)
    /\ Parsable(text, keys)

Init ==
    /\ jwt = None
    /\ cred = None
    /\ members = <<>>
    /\ built = FALSE
    /\ base = None

\* generate_jwt_from_claims with its guards; the library signs what it built.
SignClaims(keys, values) ==
    /\ Len(keys) = Len(values)
    /\ keys # <<>>
    /\ \A i \in 1 .. Len(values) : Len(values[i]) \in 1 .. MaxValueLen
    /\ Parsable(PayloadJson(keys, values, IssValue, IatValue), keys)
    /\ cred' = BuiltCredential(keys, values)
    /\ members' = PayloadMembers(keys, values, IssValue, IatValue)
    /\ built' = TRUE
    /\ UNCHANGED <<jwt, base>>

GenerateJwtFromClaims(keys, values) ==
    /\ cred = None /\ jwt = None
    /\ SignClaims(keys, values)

\* A legacy issuer signs a payload of its own.
SignLegacy(ms) ==
    /\ cred = None /\ jwt = None
    /\ jwt' = [payload |-> JsonText(ms), members |-> ms]
    /\ UNCHANGED <<cred, members, built, base>>

\* save_jwt_file
SaveJwtFile ==
    /\ cred # None
    /\ jwt' = [payload |-> cred.payload, members |-> members]
    /\ UNCHANGED <<cred, members, built, base>>

\* from_jwt_file, with the layout of some key list
FromJwtFile(keys) ==
    /\ jwt # None
    /\ Loadable(jwt.payload, keys)
    /\ cred' = LoadedCredential(jwt.payload, keys)
    /\ members' = jwt.members
    /\ built' = FALSE
    /\ UNCHANGED <<jwt, base>>

\* A payload with a bare quote in a string is not JSON.
IsJson(ms) ==
    \A i \in 1 .. Len(ms) : \A p \in 1 .. Len(ms[i].val) :
        ms[i].val[p] = Quote => p > 1 /\ ms[i].val[p - 1] = Escape

\* The members as serde_json's map holds them: for a key that occurs twice
\* the last value, at the place of the first.
JsonObject(ms) ==
    LET first == Only([i \in 1 .. Len(ms) |-> i],
                      {i \in 1 .. Len(ms) : \A j \in 1 .. i - 1 : ms[j].key # ms[i].key})
        last(i) == CHOOSE j \in 1 .. Len(ms) :
                      /\ ms[j].key = ms[i].key
                      /\ \A m \in j + 1 .. Len(ms) : ms[m].key # ms[i].key
    IN  [n \in 1 .. Len(first) |-> ms[last(first[n])]]

Unescaped(s) == Only(s, ToSet(s) \ {Escape})

\* save_readable_json, then from_definition_json: the user claims signed anew.
FromDefinitionJson ==
    /\ cred # None
    /\ IsJson(members)
    /\ LET claims == Only(JsonObject(members), {m \in ToSet(members) : m.key \notin Standard})
       IN  /\ \A i \in 1 .. Len(claims) : claims[i].kind = "string"
           /\ SignClaims([i \in 1 .. Len(claims) |-> claims[i].key],
                         [i \in 1 .. Len(claims) |-> Unescaped(claims[i].val)])

\* fill_json_claim_witness_known_key, as far as it can fail
Fillable(json, claim, maxLen) ==
    /\ claim.start - 1 \in ValidStarts(Len(json), SliceLen(maxLen))
    /\ Len(claim.value) >= 1

\* prove_jwt_base with the circuit built for these keys: the witness is where
\* the credential says its claims are, and the constraints must accept it.
WitnessAccepted(c, keys) ==
    LET json == CircuitJson(c.payload, keys)
        accepts(key, claim, maxLen) ==
            /\ Fillable(json, claim, maxLen)
            /\ KnownKeyClaim(json, key, maxLen, claim.start - 1, Len(claim.value))
    IN  /\ Len(c.claims) = Len(keys)
        /\ Len(c.payload) <= MaxDecodedLen(keys)
        /\ \A i \in 1 .. Len(keys) : accepts(keys[i], c.claims[i], MaxValueLen)
        /\ accepts(Iss, c.iss, IssMaxLen)
        /\ accepts(Iat, c.iat, IatMaxLen)
        /\ CnfClaim(json, c.cnf)

CommittedLeaves(c, keys) ==
    LET json == CircuitJson(c.payload, keys)
    IN  [i \in 1 .. Len(keys) |->
            ClaimLeaf(json, keys[i], c.claims[i].start - 1, Len(c.claims[i].value))]

ProveJwtBase(keys) ==
    /\ cred # None
    /\ WitnessAccepted(cred, keys)
    /\ base' = [ leaves |-> CommittedLeaves(cred, keys), list |-> cred.attributes,
                 built |-> built ]
    /\ UNCHANGED <<jwt, cred, members, built>>

Next ==
    \/ \E keys \in KeyList : \E values \in [1 .. Len(keys) -> GivenValue] :
          GenerateJwtFromClaims(keys, values)
    \/ \E ms \in Legacy : SignLegacy(ms)
    \/ SaveJwtFile
    \/ \E keys \in KeyList : FromJwtFile(keys)
    \/ FromDefinitionJson
    \/ \E keys \in KeyList : ProveJwtBase(keys)

Spec == Init /\ [][Next]_vars

-----------------------------------------------------------------------------
(* Properties.                                                             *)

\* Lists the search misreads: a key given twice, a key that the members
\* before the user's claims hold, or a value with a quote in it.
Misread(list) ==
    \E i \in 1 .. Len(list) :
        \/ \E j \in 1 .. i - 1 : list[j][1] = list[i][1]
        \/ list[i][1] \in Standard \cup {X, Y}
        \/ Quote \in ToSet(list[i])

\* The list an owner holds opens the commitment of the base proof it made,
\* whatever text the credential was loaded from, over-long values included;
\* for a credential the library signed, unless the search misreads it.
ListOpensBase ==
    base # None => base.leaves = base.list \/ (base.built /\ Misread(base.list))

\* The claim is a string of admissible length.
StringClaim(c, claim, maxLen) ==
    /\ c.payload[claim.start + 5] = Quote
    /\ Len(claim.value) \in 1 .. maxLen

\* A credential whose claims are strings that fit can be proved, wherever in
\* the payload they lie: no extractor's window leaves the padded payload, and
\* what the search found is a witness the circuit takes.
AcceptedCanBeProved ==
    /\ cred # None
    /\ \A i \in 1 .. Len(cred.keys) : StringClaim(cred, cred.claims[i], MaxValueLen)
    /\ StringClaim(cred, cred.iss, IssMaxLen)
    /\ StringClaim(cred, cred.iat, IatMaxLen)
    => WitnessAccepted(cred, cred.keys)

\* A value up to its first quote.
Cut(v) ==
    LET quotes == {p \in 1 .. Len(v) : v[p] = Quote}
    IN  IF quotes = {} THEN v ELSE SubSeq(v, 1, Least(quotes) - 1)

\* The string members a payload shows, those of cnf included.
Shown(ms) ==
    LET strings == {m \in ToSet(ms) : m.kind = "string"}
        cnfs == {m \in ToSet(ms) : m.kind = "cnf"}
    IN  {AttributeOf(m.key, Cut(m.val)) : m \in strings}
          \cup {AttributeOf(k, m.val) : k \in {X, Y}, m \in cnfs}

\* Whatever position and length a prover names, an extractor yields a member
\* of the signed object: no witness reads a key within a string, joins two
\* members or goes on past the end of a value.
ReadingsAreMembers ==
    cred # None /\ IsJson(members) =>
        \A i \in 1 .. Len(cred.keys) :
            ClaimReadings(CircuitJson(cred.payload, cred.keys), cred.keys[i])
                \subseteq Shown(members)

\* A credential the library signed loads back from its file as it was.
ReloadIsIdentity ==
    cred # None /\ built /\ ~Misread(cred.attributes) =>
        /\ Loadable(cred.payload, cred.keys)
        /\ LoadedCredential(cred.payload, cred.keys) = cred

=============================================================================
