------------------------------ MODULE LinkText ------------------------------
(***************************************************************************)
(* The text algorithms of the request and of the partner link: url_decode, *)
(* parse_query, cookie_value, split_target (handlers.cpp) and url_encode,  *)
(* render_link (links.cpp), run on every short text over an alphabet.      *)
(*                                                                         *)
(* A text is a sequence of bytes.  The names of placeholders, parameters   *)
(* and cookies are one letter each: u for url, e for url_enc, s for subid, *)
(* c for campaign.                                                         *)
(***************************************************************************)
EXTENDS Integers, Sequences, FiniteSets, SequencesExt

CONSTANTS
  Alphabets,     (* sets of bytes that texts are made of                   *)
  MaxLen         (* bound: length of a text                                *)

ASSUME TextAssumption == Alphabets \subseteq SUBSET (0..255) /\ MaxLen \in Nat

VARIABLES
  text,          (* the text given to the algorithms                       *)
  alphabet       (* what it is made of                                     *)

textVars == <<text, alphabet>>

Space == 32
Pct   == 37
Amp   == 38
Plus  == 43
Semi  == 59
Eq    == 61
Quest == 63
Open  == 123
Close == 125
U == 117
E == 101
S == 115
C == 99

From(s, i) == SubSeq(s, i, Len(s))

(* string_view::find: the first place of a byte from i on, 0 for npos.     *)
FindFrom(s, c, i) ==
  LET places == {j \in i..Len(s) : s[j] = c}
  IN  IF places = {} THEN 0 ELSE Min(places)

Find(s, c) == FindFrom(s, c, 1)

Before(s, i) == IF i = 0 THEN s ELSE SubSeq(s, 1, i - 1)

(* The part from i up to the next byte c, or to the end.                   *)
UpTo(s, c, i) ==
  LET next == FindFrom(s, c, i)
  IN  SubSeq(s, i, IF next = 0 THEN Len(s) ELSE next - 1)

-----------------------------------------------------------------------------
(* is_unreserved.  The bug: a plus is left alone.                          *)
UnreservedOrPlus(c) == c \in (65..90) \cup (97..122) \cup (48..57) \cup {43, 45, 95, 46, 126}

Unreserved(c) == c \in (65..90) \cup (97..122) \cup (48..57) \cup {45, 95, 46, 126}

HexDigit(v) == IF v < 10 THEN 48 + v ELSE 65 + v - 10

UrlEncode(s) ==
  FlattenSeq([i \in DOMAIN s |->
    IF Unreserved(s[i]) THEN <<s[i]>>
    ELSE <<Pct, HexDigit(s[i] \div 16), HexDigit(s[i] % 16)>>])

HexValue(c) ==
  CASE c \in 48..57  -> c - 48
    [] c \in 97..102 -> c - 97 + 10
    [] c \in 65..70  -> c - 65 + 10
    [] OTHER         -> -1

(* A complete escape stands at i.                                          *)
Escape(s, i) ==
  s[i] = Pct /\ i + 2 <= Len(s) /\ HexValue(s[i + 1]) >= 0 /\ HexValue(s[i + 2]) >= 0

UrlDecode(s) ==
  LET out[i \in 1..(Len(s) + 1)] ==
        IF i > Len(s) THEN <<>>
        ELSE IF Escape(s, i)
        THEN <<HexValue(s[i + 1]) * 16 + HexValue(s[i + 2])>> \o out[i + 3]
        ELSE <<IF s[i] = Plus THEN Space ELSE s[i]>> \o out[i + 1]
  IN  out[1]

(* unordered_map: insert_or_assign replaces, emplace only adds.            *)
InsertOrAssign(q, name, value) ==
  [n \in DOMAIN q \cup {name} |-> IF n = name THEN value ELSE q[n]]

Emplace(q, name, value) == IF name \in DOMAIN q THEN q ELSE InsertOrAssign(q, name, value)

(* One name=value of a query: a value replaces what the name had, a bare   *)
(* name only claims an unused one.  The bug: the first value stays.        *)
AddPairFirst(q, pair) ==
  LET e == Find(pair, Eq)
  IN  Emplace(q, UrlDecode(Before(pair, e)), IF e = 0 THEN <<>> ELSE UrlDecode(From(pair, e + 1)))

AddPair(q, pair) ==
  LET e == Find(pair, Eq)
  IN  IF e = 0 THEN Emplace(q, UrlDecode(pair), <<>>)
      ELSE InsertOrAssign(q, UrlDecode(Before(pair, e)), UrlDecode(From(pair, e + 1)))

(* The pairs between the &s, empty ones included.                          *)
Pairs(s) ==
  LET rest[i \in 1..(Len(s) + 1)] ==
        LET amp == FindFrom(s, Amp, i)
        IN  <<UpTo(s, Amp, i)>> \o IF amp = 0 THEN <<>> ELSE rest[amp + 1]
  IN  rest[1]

ParseQuery(s) ==
  LET pairs == Pairs(s)
      out[k \in 0..Len(pairs)] ==
        IF k = 0 THEN <<>>
        ELSE IF pairs[k] = <<>> THEN out[k - 1] ELSE AddPair(out[k - 1], pairs[k])
  IN  out[Len(pairs)]

(* A pair of a Cookie header has this name.                                *)
Named(pair, name) == LET e == Find(pair, Eq) IN e # 0 /\ Before(pair, e) = <<name>>

CookieValue(header, name) ==
  LET value[i \in 1..(Len(header) + 1)] ==
        LET semi == FindFrom(header, Semi, i)
            pair == UpTo(header, Semi, i)
        IN  IF i > Len(header) THEN <<>>
            ELSE IF header[i] \in {Space, Semi} THEN value[i + 1]
            ELSE IF Named(pair, name) THEN From(pair, Find(pair, Eq) + 1)
            ELSE IF semi = 0 THEN <<>> ELSE value[semi + 1]
  IN  value[1]

SplitTarget(s) ==
  LET q == Find(s, Quest)
  IN  [path |-> Before(s, q), query |-> IF q = 0 THEN <<>> ELSE From(s, q + 1)]

-----------------------------------------------------------------------------
(* A placeholder's text: its variable's value or, unknown, itself.  The    *)
(* bug: an unknown one is dropped.                                         *)
ExpandKnown(name, vars) ==
  CASE name = <<U>> -> vars.url
    [] name = <<E>> -> UrlEncode(vars.url)
    [] name = <<S>> -> vars.subid
    [] name = <<C>> -> vars.campaign
    [] OTHER        -> <<>>

Expand(name, vars) ==
  IF name \in {<<U>>, <<E>>, <<S>>, <<C>>} THEN ExpandKnown(name, vars)
  ELSE <<Open>> \o name \o <<Close>>

RenderLink(t, vars) ==
  LET out[i \in 1..(Len(t) + 1)] ==
        LET close == FindFrom(t, Close, i)
        IN  IF i > Len(t) THEN <<>>
            ELSE IF t[i] # Open THEN <<t[i]>> \o out[i + 1]
            ELSE IF close = 0 THEN From(t, i)
            ELSE Expand(SubSeq(t, i + 1, close - 1), vars) \o out[close + 1]
  IN  out[1]

-----------------------------------------------------------------------------
TextInit == text = <<>> /\ alphabet \in Alphabets

TextNext ==
  /\ Len(text) < MaxLen
  /\ \E c \in alphabet : text' = Append(text, c)
  /\ UNCHANGED alphabet

TextSpec == TextInit /\ [][TextNext]_textVars

Placeholder(n) == <<Open, n, Close>>

(* h?s={subid}&u={url_enc}, the form of the affiliate template in          *)
(* docs/analytics.md.                                                      *)
Affiliate == <<104, Quest, S, Eq, Open, S, Close, Amp, U, Eq, Open, E, Close>>

(* links.hpp:11: {url_enc} "has to survive being a query parameter of the  *)
(* partner URL": whatever the product url holds, a partner that splits and *)
(* decodes the link as this server does gets it back, and the click token  *)
(* beside it.                                                              *)
UrlEncSurvives ==
  LET link == RenderLink(Affiliate, [url |-> text, subid |-> <<55, 75>>, campaign |-> <<>>])
      q    == ParseQuery(SplitTarget(link).query)
  IN  q = [n \in {<<U>>, <<S>>} |-> IF n = <<U>> THEN text ELSE <<55, 75>>]

(* A value of which no text has a part.                                    *)
Mark == 256

(* A text with something in the place of each mark.                        *)
PutForMark(marked, value) ==
  FlattenSeq([i \in DOMAIN marked |-> IF marked[i] = Mark THEN value ELSE <<marked[i]>>])

(* render_link is one pass over the template.  links.hpp:27: nothing of it *)
(* gets lost: when every placeholder stands for itself ({url_enc}, which   *)
(* encodes, cannot) it comes out as it was, typos, unterminated and nested *)
(* braces included.  And a value that looks like a placeholder is not      *)
(* expanded: putting it in for a mark after rendering gives the same.      *)
RenderIsOnePass ==
  LET Render(u, s, c) == RenderLink(text, [url |-> u, subid |-> s, campaign |-> c])
  IN  /\ (\A i \in 1..(Len(text) - 2) : SubSeq(text, i, i + 2) # Placeholder(E))
           => Render(Placeholder(U), Placeholder(S), Placeholder(C)) = text
      /\ Render(<<55>>, Placeholder(U), <<56>>) =
           PutForMark(Render(<<55>>, <<Mark>>, <<56>>), Placeholder(U))

(* The maximal runs of a text without a byte.                              *)
Runs(s, c) ==
  {r \in (DOMAIN s) \X (DOMAIN s) :
     /\ r[1] <= r[2] /\ \A k \in r[1]..r[2] : s[k] # c
     /\ r[1] = 1 \/ s[r[1] - 1] = c
     /\ r[2] = Len(s) \/ s[r[2] + 1] = c}

Piece(s, r) == SubSeq(s, r[1], r[2])

(* What a query string means: a parameter has the value of the last pair   *)
(* that gives its name one, and is empty when only bare names do.          *)
QueryMeaning(s) ==
  LET runs == Runs(s, Amp)
      Name(r) == UrlDecode(Before(Piece(s, r), Find(Piece(s, r), Eq)))
      Valued(n) == {r \in runs : Name(r) = n /\ Eq \in ToSet(Piece(s, r))}
      Value(r) == UrlDecode(From(Piece(s, r), Find(Piece(s, r), Eq) + 1))
  IN  [n \in {Name(r) : r \in runs} |->
         IF Valued(n) = {} THEN <<>>
         ELSE Value(CHOOSE r \in Valued(n) : \A o \in Valued(n) : o[1] <= r[1])]

(* What a Cookie header says of a name: the value of the first cookie of   *)
(* exactly that name, blanks before it aside, empty when there is none.    *)
CookieMeaning(s, name) ==
  LET Start(r) == CHOOSE i \in r[1]..r[2] :
                    s[i] # Space /\ \A j \in r[1]..(i - 1) : s[j] = Space
      cookies  == {r \in Runs(s, Semi) : \E i \in r[1]..r[2] : s[i] # Space}
      Match(r) == r[2] > Start(r) /\ s[Start(r)] = name /\ s[Start(r) + 1] = Eq
      found    == {r \in cookies : Match(r)}
  IN  IF found = {} THEN <<>>
      ELSE LET r == CHOOSE r \in found : \A o \in found : r[1] <= o[1]
           IN  SubSeq(s, Start(r) + 2, r[2])

(* parse_query and cookie_value read every text as it is meant, with       *)
(* repeated, bare, empty and half escaped parts.                           *)
ReadsAsMeant ==
  ParseQuery(text) = QueryMeaning(text) /\ CookieValue(text, U) = CookieMeaning(text, U)
=============================================================================
