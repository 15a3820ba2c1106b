---------------------------- MODULE JsonBuilder ----------------------------
(***************************************************************************)
(* json_builder: what each call adds to the buffered text.  A builder is a *)
(* record of its fields; a text is a sequence of characters, by their      *)
(* names, where "nl" is a newline and "control" any character below 32     *)
(* that has no escape of its own.  A number and a literal are one symbol   *)
(* and so are the entities "amp", "lt", "gt", "quot" and the five          *)
(* characters of "u00".                                                    *)
(***************************************************************************)
EXTENDS Naturals, Sequences, SequencesExt

NewJson == [text |-> <<>>, stack |-> <<>>, mode |-> "NORMAL", need_indent |-> FALSE]

Put(b, symbols) == [b EXCEPT !.text = @ \o symbols]

Spaces(n) == [k \in 1 .. n |-> "space"]

MutNormalize(b, start_value) ==   \* bug: the value is not closed before an indent or a close
  LET comma == IF ~start_value \/ b.mode = "NORMAL" THEN b
               ELSE [Put(b, IF b.mode = "IN_VALUE" THEN <<"quote", "comma">> ELSE <<"comma">>)
                       EXCEPT !.mode = "NORMAL"]
  IN  IF ~comma.need_indent THEN comma
      ELSE [Put(comma, <<"nl">> \o Spaces(Len(comma.stack))) EXCEPT !.need_indent = FALSE]

(* normalize_mode ends a string, separates it from what follows, and puts  *)
(* in the indent that was asked for.                                       *)
Normalize(b, start_value) ==
  LET quote == IF b.mode = "IN_VALUE"
                 THEN [Put(b, <<"quote">>) EXCEPT !.mode = "AFTER_VALUE"] ELSE b
      comma == IF start_value /\ quote.mode = "AFTER_VALUE"
                 THEN [Put(quote, <<"comma">>) EXCEPT !.mode = "NORMAL"] ELSE quote
      blank == IF comma.text # <<>> /\ Last(comma.text) = "colon" THEN <<"space">>
               ELSE <<"nl">> \o Spaces(Len(comma.stack))
  IN  IF comma.need_indent THEN [Put(comma, blank) EXCEPT !.need_indent = FALSE] ELSE comma

(* encode: a control character is written without its backslash.           *)
Escapes == [quote |-> "quote", backslash |-> "backslash", backspace |-> "b", formfeed |-> "f",
            nl |-> "n", return |-> "r", tab |-> "t"]

EncodedCharacter(c) ==
  IF c \in DOMAIN Escapes THEN <<"backslash", Escapes[c]>>
  ELSE IF c = "control" THEN <<"u00">> ELSE <<c>>

Encoded(s) == FlattenSeq([k \in DOMAIN s |-> EncodedCharacter(s[k])])

(* encode_xml_escape                                                       *)
XmlEscapes == [ampersand |-> "amp", less |-> "lt", greater |-> "gt", quote |-> "quot"]

XmlEncodedCharacter(c) ==
  IF c \in DOMAIN XmlEscapes THEN <<XmlEscapes[c]>> ELSE EncodedCharacter(c)

XmlEncoded(s) == FlattenSeq([k \in DOMAIN s |-> XmlEncodedCharacter(s[k])])

JsonOpen(b, opening, closing) ==
  LET n == Normalize(b, TRUE) IN [Put(n, <<opening>>) EXCEPT !.stack = Append(@, closing)]

JsonObject(b) == JsonOpen(b, "lbrace", "rbrace")
JsonArray(b)  == JsonOpen(b, "lbracket", "rbracket")

JsonKey(b, s) == Put(Normalize(b, TRUE), <<"quote">> \o Encoded(s) \o <<"quote", "colon">>)

(* A string stays open, for a value that is appended to it.                *)
JsonString(b, encoded, append) ==
  LET start == IF append /\ b.mode = "IN_VALUE" THEN b ELSE Put(Normalize(b, TRUE), <<"quote">>)
  IN  [Put(start, encoded) EXCEPT !.mode = "IN_VALUE"]

JsonLiteral(b, symbol) == [Put(Normalize(b, TRUE), <<symbol>>) EXCEPT !.mode = "AFTER_VALUE"]

JsonIndent(b) == IF b.need_indent THEN b ELSE [Normalize(b, FALSE) EXCEPT !.need_indent = TRUE]

JsonClose(b) ==
  IF b.stack = <<>> THEN b
  ELSE LET popped == [b EXCEPT !.stack = Front(@)]
       IN  [Put(Normalize(popped, FALSE), <<Last(b.stack)>>) EXCEPT !.mode = "AFTER_VALUE"]

JsonFinish(b, indent) ==
  LET f[n \in 0 .. Len(b.stack)] ==
        IF n = 0 THEN b
        ELSE JsonClose(IF indent THEN JsonIndent(f[n - 1]) ELSE f[n - 1])
      closed == f[Len(b.stack)]
  IN  IF closed.text # <<>> /\ Last(closed.text) # "nl" THEN Put(closed, <<"nl">>) ELSE closed

(* discard_current_prefix, of both builders                                *)
Discard(b, n) == [b EXCEPT !.text = SubSeq(@, n + 1, Len(@))]
=============================================================================
