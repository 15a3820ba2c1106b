--------------------------- MODULE DocumentReader ---------------------------
(***************************************************************************)
(* What a client reads in a JSON or an XML text, written from the grammars *)
(* of the two formats and not from the builders.  Both readers give the    *)
(* calls that describe the text, whether the text may begin a document     *)
(* (ok), and what is still open in it (nest).                              *)
(*                                                                         *)
(* A call is a word that is no character ("object", "key", "element",      *)
(* ...), with the characters of its value behind it.                       *)
(***************************************************************************)
EXTENDS Naturals, Sequences, SequencesExt

Start == [ok |-> TRUE, calls |-> <<>>, nest |-> <<>>, at |-> "value"]

Bad(r) == [r EXCEPT !.ok = FALSE]
Go(r, at, calls) == [r EXCEPT !.at = at, !.calls = @ \o calls]
Pushed(r, c, at, calls) == [Go(r, at, calls) EXCEPT !.nest = Append(@, c)]
Popped(r, at, calls) == [Go(r, at, calls) EXCEPT !.nest = Front(@)]

Blank == {"nl", "space"}

(* What a string of JSON may not hold as it is.                            *)
Controls == {"nl", "tab", "backspace", "formfeed", "return", "control"}

(* What follows a backslash in a string of JSON, and what it stands for.   *)
Escaped == [quote |-> "quote", backslash |-> "backslash", slash |-> "slash", b |-> "backspace",
            f |-> "formfeed", n |-> "nl", r |-> "return", t |-> "tab", u00 |-> "control"]

(* A character of a string, which ends with a quotation mark.              *)
ReadString(r, c, escape, end) ==
  CASE c = "quote"     -> Go(r, end, <<>>)
    [] c = "backslash" -> Go(r, escape, <<>>)
    [] c \in Controls  -> Bad(r)
    [] OTHER           -> Go(r, r.at, <<c>>)

ReadEscape(r, c, text) == IF c \in DOMAIN Escaped THEN Go(r, text, <<Escaped[c]>>) ELSE Bad(r)

(* at: what the next symbol of the text may be.                            *)
ReadJson(r, c) ==
  LET in    == IF r.nest = <<>> THEN "document" ELSE Last(r.nest)
      value == r.at \in {"value", "value_or_end"}
  IN  CASE r.at = "key_text"   -> ReadString(r, c, "key_escape", "colon")
        [] r.at = "key_escape" -> ReadEscape(r, c, "key_text")
        [] r.at = "text"       -> ReadString(r, c, "escape", "next")
        [] r.at = "escape"     -> ReadEscape(r, c, "text")
        [] OTHER ->
             CASE c \in Blank -> r
               [] c = "lbrace" /\ value -> Pushed(r, "object", "key_or_end", <<"object">>)
               [] c = "lbracket" /\ value -> Pushed(r, "array", "value_or_end", <<"array">>)
               [] c = "rbrace" /\ in = "object" /\ r.at \in {"next", "key_or_end"} ->
                    Popped(r, "next", <<"object_end">>)
               [] c = "rbracket" /\ in = "array" /\ r.at \in {"next", "value_or_end"} ->
                    Popped(r, "next", <<"array_end">>)
               [] c = "comma" /\ in = "object" /\ r.at = "next" -> Go(r, "key", <<>>)
               [] c = "comma" /\ in = "array" /\ r.at = "next" -> Go(r, "value", <<>>)
               [] c = "colon" /\ r.at = "colon" -> Go(r, "value", <<>>)
               [] c = "quote" /\ value -> Go(r, "text", <<"value">>)
               [] c = "quote" /\ r.at \in {"key", "key_or_end"} -> Go(r, "key_text", <<"key">>)
               [] c \in {"1", "null"} /\ value -> Go(r, "next", <<c>>)
               [] OTHER -> Bad(r)

(* The characters that entities of XML stand for.                          *)
Entity == [amp |-> "ampersand", lt |-> "less", gt |-> "greater", quot |-> "quote",
           apos |-> "apostrophe"]

Meaning(c) == IF c \in DOMAIN Entity THEN Entity[c] ELSE c

(* A text in XML that reads as s: all that could be taken for markup is an *)
(* entity.                                                                 *)
AsXml(s) ==
  [k \in DOMAIN s |-> IF s[k] \in {"ampersand", "less", "greater", "quote"}
                        THEN CHOOSE e \in DOMAIN Entity : Entity[e] = s[k] ELSE s[k]]

ReadXml(r, c) ==
  CASE r.at = "value" ->
         CASE c = "less" -> Go(r, "name", <<>>)
           [] c \in Blank -> r
           [] c = "declaration" /\ r.calls = <<>> -> r
           [] r.nest # <<>> /\ c \notin Blank \cup {"less", "ampersand", "declaration"} ->
                Go(r, "value", <<Meaning(c)>>)
           [] OTHER -> Bad(r)
    [] r.at = "name" -> IF c = "slash" THEN Go(r, "end_name", <<>>)
                        ELSE Pushed(r, c, "tag", <<"element", c>>)
    [] r.at = "tag" /\ c = "greater" -> Go(r, "value", <<>>)
    [] r.at = "tag" /\ c = "slash" -> Go(r, "end_tag", <<>>)
    [] r.at = "tag" /\ c = "space" -> Go(r, "attribute", <<"attribute">>)
    [] r.at = "attribute" -> Go(r, "equals", <<c>>)
    [] r.at = "equals" /\ c = "equals" -> Go(r, "quote", <<>>)
    [] r.at = "quote" /\ c = "quote" -> Go(r, "attribute_text", <<>>)
    [] r.at = "attribute_text" ->
         CASE c = "quote" -> Go(r, "tag", <<"attribute_end">>)
           [] c \in {"less", "ampersand"} -> Bad(r)
           [] OTHER -> Go(r, r.at, <<Meaning(c)>>)
    [] r.at = "end_name" /\ r.nest # <<>> /\ c = Last(r.nest) -> Go(r, "end_tag", <<>>)
    [] r.at = "end_tag" /\ c = "greater" /\ r.nest # <<>> -> Popped(r, "value", <<"end">>)
    [] OTHER -> Bad(r)

Read(kind, r, c) == IF ~r.ok THEN r ELSE IF kind = "json" THEN ReadJson(r, c) ELSE ReadXml(r, c)

Reading(kind, symbols) == FoldLeft(LAMBDA r, c : Read(kind, r, c), Start, symbols)
=============================================================================
