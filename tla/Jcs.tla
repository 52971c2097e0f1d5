--------------------------------- MODULE Jcs ---------------------------------
(***************************************************************************)
(* The restricted JCS of canonical/src/jcs.ts: from a JSON text to a value *)
(* and from a value to the one canonical text of it.                       *)
(*                                                                         *)
(* A text is a sequence of tokens.  That of a string holds its pieces, raw *)
(* characters and escapes; that of a number its sign, its digits and what  *)
(* follows them.  A character is a name, one for each class the code tells *)
(* apart, listed in the order of their UTF-8 bytes.  An error is "fault":  *)
(* its code and position are left out.                                     *)
(***************************************************************************)
EXTENDS Integers, SequencesExt

Characters ==
  <<"ctl", "tab", "quote", "slash", "__proto__", "a", "backslash", "b", "e",
    "e_acute", "acute", "unassigned", "bom", "high", "low">>
Rank(c) == CHOOSE i \in DOMAIN Characters : Characters[i] = c

(* NFC: a letter and a combining accent are one character. *)
Nfc(s) ==
  FoldLeft(LAMBDA out, c :
             IF c = "acute" /\ out # <<>> /\ out[Len(out)] = "e"
               THEN [out EXCEPT ![Len(out)] = "e_acute"] ELSE Append(out, c),
           <<>>, s)

JcsFault == [kind |-> "fault"]
JcsValue(kind, v) == [kind |-> kind, v |-> v]
IsFault(x) == x.kind = "fault"

Token(t) == [t |-> t]
StringToken(pieces) == [t |-> "string", pieces |-> pieces]
NumberToken(minus, digits, tail) == [t |-> "number", minus |-> minus, digits |-> digits, tail |-> tail]

-----------------------------------------------------------------------------
(* parseString: <<"raw", c>>, <<"escape", c>> or <<"u", c>> for \uXXXX. *)
Escapable == {"quote", "backslash", "slash", "tab"}

PieceIsSound(pieces, i) ==
  LET how == pieces[i][1]
      c == pieces[i][2]
  IN  CASE how = "escape" -> c \in Escapable
        [] how = "u" -> c \notin {"high", "low", "malformed"}
        [] how = "raw" ->
             /\ c \notin {"ctl", "tab"}
             /\ c = "high" => i < Len(pieces) /\ pieces[i + 1] = <<"raw", "low">>
             /\ c = "low" => i > 1 /\ pieces[i - 1] = <<"raw", "high">>

ParseString(pieces) ==
  IF \A i \in DOMAIN pieces : PieceIsSound(pieces, i)
    THEN JcsValue("string", [i \in DOMAIN pieces |-> pieces[i][2]]) ELSE JcsFault

(* parseNumber: what comes behind a leading zero is not part of the number, *)
(* and cannot follow one either.                                            *)
ParseNumber(tok) ==
  LET n == FoldLeft(LAMBDA sum, digit : 10 * sum + digit, 0, tok.digits)
  IN  IF \/ tok.digits = <<>> \/ tok.tail # "none"
         \/ Len(tok.digits) > 1 /\ tok.digits[1] = 0
         \/ tok.minus /\ tok.digits = <<0>>
      THEN JcsFault
      ELSE JcsValue("int", IF tok.minus THEN -n ELSE n)

(* out[key] = value of a JS object; __proto__ sets no property. *)
SetMember(members, key, value) ==
  IF key = <<"__proto__">> THEN members ELSE Append(members, <<key, value>>)

Is(ts, i, t) == i <= Len(ts) /\ ts[i].t = t

(* A parser at position i gives a value and the position behind it. *)
At_(value, next) == [value |-> value, next |-> next]
Stop == At_(JcsFault, 0)

RECURSIVE ParseValue(_, _), ParseItems(_, _, _), ParseMembers(_, _, _, _)
ParseValue(ts, i) ==
  CASE Is(ts, i, "{") -> IF Is(ts, i + 1, "}") THEN At_(JcsValue("object", <<>>), i + 2)
                         ELSE ParseMembers(ts, i + 1, <<>>, {})
    [] Is(ts, i, "[") -> IF Is(ts, i + 1, "]") THEN At_(JcsValue("array", <<>>), i + 2)
                         ELSE ParseItems(ts, i + 1, <<>>)
    [] Is(ts, i, "string") -> At_(ParseString(ts[i].pieces), i + 1)
    [] Is(ts, i, "number") -> At_(ParseNumber(ts[i]), i + 1)
    [] Is(ts, i, "true") \/ Is(ts, i, "false") -> At_(JcsValue("bool", Is(ts, i, "true")), i + 1)
    [] Is(ts, i, "null") -> At_(JcsValue("null", 0), i + 1)
    [] OTHER -> Stop

(* parseArray behind "[" or a comma *)
ParseItems(ts, i, sofar) ==
  LET item == ParseValue(ts, i)
      items == Append(sofar, item.value)
  IN  CASE IsFault(item.value) -> Stop
        [] ~IsFault(item.value) /\ Is(ts, item.next, ",") -> ParseItems(ts, item.next + 1, items)
        [] ~IsFault(item.value) /\ Is(ts, item.next, "]") ->
             At_(JcsValue("array", items), item.next + 1)
        [] OTHER -> Stop

(* parseObject behind "{" or a comma; keys are compared as they were read. *)
ParseMembers(ts, i, sofar, seen) ==
  LET key == IF Is(ts, i, "string") THEN ParseString(ts[i].pieces) ELSE JcsFault
      value == ParseValue(ts, i + 2)
      members == SetMember(sofar, key.v, value.value)
  IN  IF IsFault(key) THEN Stop
      ELSE IF key.v \in seen \/ ~Is(ts, i + 1, ":") \/ IsFault(value.value) THEN Stop
      ELSE IF Is(ts, value.next, ",")
             THEN ParseMembers(ts, value.next + 1, members, seen \cup {key.v})
      ELSE IF Is(ts, value.next, "}") THEN At_(JcsValue("object", members), value.next + 1)
      ELSE Stop

(* parse: blanks may stand between any two tokens. *)
ParseJson(text) ==
  LET ts == SelectSeq(text, LAMBDA tok : tok.t # "blank")
      parsed == ParseValue(ts, 1)
  IN  IF parsed.next = Len(ts) + 1 THEN parsed.value ELSE JcsFault

-----------------------------------------------------------------------------
(* coerceToJcsValue: "number" is a JS number that is a fraction, minus zero *)
(* or not finite; every other one is an integer.                            *)
WellFormed(s) ==
  \A i \in DOMAIN s : /\ s[i] = "high" => i < Len(s) /\ s[i + 1] = "low"
                      /\ s[i] = "low" => i > 1 /\ s[i - 1] = "high"

RECURSIVE Coerce(_)
Coerce(v) ==
  CASE v.kind = "number" -> JcsFault
    [] v.kind = "string" -> IF WellFormed(v.v) THEN v ELSE JcsFault
    [] v.kind = "array" ->
         LET items == [i \in DOMAIN v.v |-> Coerce(v.v[i])]
         IN  IF \E i \in DOMAIN items : IsFault(items[i]) THEN JcsFault ELSE JcsValue("array", items)
    [] v.kind = "object" ->
         LET members == [i \in DOMAIN v.v |-> Coerce(v.v[i][2])]
             Put_(out, i) == SetMember(out, v.v[i][1], members[i])
         IN  IF \E i \in DOMAIN members : IsFault(members[i]) THEN JcsFault
             ELSE JcsValue("object", FoldLeft(Put_, <<>>, [i \in DOMAIN v.v |-> i]))
    [] OTHER -> v

-----------------------------------------------------------------------------
(* compareUtf8Bytes: in the order of the bytes of their NFC. *)
Before(s, t) ==
  LET a == Nfc(s)
      b == Nfc(t)
      differ == {i \in DOMAIN a \cap DOMAIN b : a[i] # b[i]}
  IN  IF differ = {} THEN Len(a) < Len(b)
      ELSE Rank(a[Min(differ)]) < Rank(b[Min(differ)])

(* escapeString: the token, or a fault. *)
EscapeString(s) ==
  LET normal == Nfc(s)
      Piece(c) == CASE c \in {"quote", "backslash", "tab"} -> <<"escape", c>>
                    [] c = "ctl" -> <<"u", c>>
                    [] OTHER -> <<"raw", c>>
  IN  IF (s # <<>> /\ s[1] = "bom") \/ "unassigned" \in ToSet(s) THEN <<JcsFault>>
      ELSE <<StringToken([i \in DOMAIN normal |-> Piece(normal[i])])>>

NumberText(n) ==
  LET m == IF n < 0 THEN -n ELSE n
      digits[k \in 0..m] == IF k < 10 THEN <<k>> ELSE Append(digits[k \div 10], k % 10)
  IN  NumberToken(n < 0, digits[m], "none")

(* Put separators between the parts of an array or an object. *)
Joined(parts) ==
  FoldLeft(LAMBDA out, part : IF out = <<>> THEN part ELSE out \o <<Token(",")>> \o part, <<>>, parts)

(* Defect: the members come in the order in which they were written. *)
Sorted_AsWritten(members) == members

(* Array.prototype.sort is stable. *)
Sorted(members) ==
  LET Earlier(i, j) == \/ Before(members[i][1], members[j][1])
                       \/ ~Before(members[j][1], members[i][1]) /\ i < j
      place == SetToSortSeq(DOMAIN members, Earlier)
  IN  [k \in DOMAIN members |-> members[place[k]]]

(* serialize: the tokens, among them a fault for each string that has one. *)
RECURSIVE Serialize(_)
Serialize(v) ==
  CASE v.kind = "null" -> <<Token("null")>>
    [] v.kind = "bool" -> <<Token(IF v.v THEN "true" ELSE "false")>>
    [] v.kind = "int" -> <<NumberText(v.v)>>
    [] v.kind = "string" -> EscapeString(v.v)
    [] v.kind = "array" ->
         <<Token("[")>> \o Joined([i \in DOMAIN v.v |-> Serialize(v.v[i])]) \o <<Token("]")>>
    [] v.kind = "object" ->
         LET sorted == Sorted(v.v)
             Member(i) == EscapeString(sorted[i][1]) \o <<Token(":")>> \o Serialize(sorted[i][2])
         IN  <<Token("{")>> \o Joined([i \in DOMAIN sorted |-> Member(i)]) \o <<Token("}")>>

(* The canonical text of a value, empty if it has none. *)
Canonical(v) ==
  IF IsFault(v) \/ JcsFault \in ToSet(IF IsFault(v) THEN <<>> ELSE Serialize(v))
    THEN <<>> ELSE Serialize(v)

CanonicalizeString(text) == Canonical(ParseJson(text))
CanonicalizeValue(v) == Canonical(Coerce(v))
=============================================================================
