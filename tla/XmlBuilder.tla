---------------------------- MODULE XmlBuilder ----------------------------
(***************************************************************************)
(* xml_builder: what each call adds to the buffered text, a sequence of    *)
(* characters as in JsonBuilder.  A name, the declaration and an entity    *)
(* are one symbol.                                                         *)
(***************************************************************************)
EXTENDS Naturals, Sequences, SequencesExt

NewXml == [text |-> <<>>, stack |-> <<>>, mode |-> "NORMAL", need_indent |-> FALSE]

Write(b, symbols, mode) == [b EXCEPT !.text = @ \o symbols, !.mode = mode]

XmlNormalize(b) ==
  CASE b.mode = "NEED_INDENT" -> Write(b, <<"nl">> \o [k \in DOMAIN b.stack |-> "space"], "NORMAL")
    [] b.mode = "IN_ELEMENT"  -> Write(b, <<"greater">>, "NORMAL")
    [] OTHER                  -> b

(* encode: an ampersand becomes an apostrophe.                             *)
Entities == [ampersand |-> "apos", less |-> "lt", greater |-> "gt", quote |-> "quot"]

XmlEncode(s) == [k \in DOMAIN s |-> IF s[k] \in DOMAIN Entities THEN Entities[s[k]] ELSE s[k]]

XmlDeclaration(b) == Write(b, <<"declaration">>, b.mode)

XmlElement(b, name) ==
  [Write(XmlNormalize(b), <<"less", name>>, "IN_ELEMENT") EXCEPT !.stack = Append(@, name)]

XmlAttribute(b, name, value) ==
  IF b.mode # "IN_ELEMENT" THEN b
  ELSE Write(b, <<"space", name, "equals", "quote">> \o XmlEncode(value) \o <<"quote">>, b.mode)

XmlText(b, s) == LET n == XmlNormalize(b) IN Write(n, XmlEncode(s), n.mode)

XmlIndent(b) ==
  [(IF b.mode = "IN_ELEMENT" THEN XmlNormalize(b) ELSE b) EXCEPT !.mode = "NEED_INDENT"]

XmlClose(b) ==
  IF b.stack = <<>> THEN b
  ELSE LET popped == [b EXCEPT !.stack = Front(@)]
           n      == IF b.mode = "NEED_INDENT" THEN XmlNormalize(popped) ELSE popped
       IN  IF n.mode = "IN_ELEMENT" THEN Write(n, <<"slash", "greater">>, "NORMAL")
           ELSE Write(n, <<"less", "slash", Last(b.stack), "greater">>, n.mode)

XmlFinish(b, indent) ==
  LET f[n \in 0 .. Len(b.stack)] ==
        IF n = 0 THEN b
        ELSE XmlClose(IF indent THEN XmlIndent(f[n - 1]) ELSE f[n - 1])
      closed == f[Len(b.stack)]
  IN  IF closed.text # <<>> /\ Last(closed.text) # "nl" THEN Write(closed, <<"nl">>, closed.mode)
      ELSE closed
=============================================================================
