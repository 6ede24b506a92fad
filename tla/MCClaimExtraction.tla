-------------------------- MODULE MCClaimExtraction --------------------------
(***************************************************************************)
(* Claim extraction on small payloads: values at every length that         *)
(* matters, keys that collide with standard ones, members in any order.    *)
(***************************************************************************)
EXTENDS ClaimExtraction

Times(b, n) == [i \in 1 .. n |-> b]

MCByte ==
    {Quote, Colon, Comma, LBrace, RBrace, Escape, Nul, Iss, Iat, Cnf, X, Y}
      \cup {"a", "b", "c", "d", "s", "u", "w", "9"}

MCIss == <<"s", "s">>
MCIat == <<"9">>
MCCoord == <<"c", "c">>

MCKeyLists == {<<"a">>, <<"a", "b">>, <<"b", "x">>, <<"i", "a">>, <<"a", "a">>}

\* A value that is another claim's text, bare and with its quotes escaped.
MCInjected == <<"u", Quote, Comma, Quote, "b", Quote, Colon, Quote, "w">>
MCEscaped ==
    <<"u", Escape, Quote, Comma, Escape, Quote, "b", Escape, Quote, Colon, Escape, Quote>>

\* Empty, short, a key's name, as long as the layout allows, longer, with a
\* quote, with another claim in it.
MCGiven ==
    { <<>>, <<"u">>, <<"b">>, Times("w", MaxValueLen), Times("w", MaxValueLen + 1),
      <<"u", Quote, "w">>, MCInjected }

\* Payloads of legacy issuers: the members in any order, with a number, an
\* over-long value, escaped quotes, a key that occurs twice, another holder.
MCMembers(a, iss, iat, c) ==
    {Str("a", a), Str(Iss, iss), iat, CnfOf(c), Str("b", <<"w">>)}

MCArranged(S) == {p \in [1 .. Cardinality(S) -> S] : ToSet(p) = S}

MCLegacy ==
    LET regular(a, iss, iat, c) == MCArranged(MCMembers(a, iss, iat, c))
        ii == <<"s">>
        tt == Str(Iat, <<"9">>)
    IN  regular(<<"u">>, ii, tt, Coord)
          \cup regular(Times("w", MaxValueLen), ii, tt, Coord)
          \cup regular(Times("w", MaxValueLen + 1), ii, tt, Coord)
          \cup regular(MCEscaped, ii, tt, Coord)
          \cup regular(<<"u">>, ii, Num(Iat, <<"9", "9">>), Coord)
          \cup regular(<<"u">>, Times("s", IssMaxLen + 1), tt, Coord)
          \cup {p \in regular(<<"u">>, ii, tt, <<"d", "c">>) : p[1] = tt}
          \cup {p \o <<Str("a", <<"b">>)>> : p \in regular(<<"u">>, ii, tt, Coord)}

=============================================================================
