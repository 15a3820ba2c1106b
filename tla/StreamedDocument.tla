-------------------------- MODULE StreamedDocument --------------------------
(***************************************************************************)
(* A response made by a json_response_generator or xml_response_generator: *)
(* each generate() makes a call of the builder, and the prefix of the text *)
(* that the server has copied is discarded while the document is being     *)
(* written.  A "plain" generator is any other.                             *)
(***************************************************************************)
EXTENDS GeneratorStream, JsonBuilder, XmlBuilder, DocumentReader

CONSTANTS
  Kinds,      \* of the generators: "json", "xml", "plain"
  Values,     \* the texts of keys, values and attributes
  MaxCalls    \* bound: the calls of a builder

(* A symbol of a value is one character: no call, and nothing that stands  *)
(* for several characters.                                                 *)
Words == {"object", "array", "object_end", "array_end", "key", "value",
          "element", "attribute", "attribute_end", "end",
          "u00", "amp", "lt", "gt", "quot", "apos", "declaration"}

ASSUME DocumentAssumption ==
  /\ Kinds \subseteq {"json", "xml", "plain"}
  /\ Values \subseteq Seq(STRING \ Words)

VARIABLES
  kind,
  builder,    \* the fields of the builder
  gone,       \* the prefixes it has discarded
  doc         \* what the service has written, as it sees it

docVars == <<kind, builder, gone, doc>>
streamVars == <<vars, docVars>>

(* nest: what is open; keyed: a key waits for its value, or attributes may *)
(* follow; string: a value may be appended to; n: the number of calls.     *)
DocInit ==
  /\ Init
  /\ kind \in Kinds
  /\ builder = NewJson   \* NewXml looks the same
  /\ doc = [calls |-> <<>>, nest |-> <<>>, keyed |-> FALSE, string |-> FALSE, n |-> 0]
  /\ gone = <<>>
  /\ kind # "plain" => generator.len = 0

(* One generate(), in which the service writes the document d.             *)
Written(b, d) ==
  /\ doc.n < MaxCalls
  /\ builder' = b
  /\ doc' = [d EXCEPT !.n = @ + 1]
  /\ Generate
  /\ generator'.len = Len(b.text)
  /\ UNCHANGED <<kind, gone>>

In(c) == doc.nest # <<>> /\ Last(doc.nest) = c
Called(symbols) == [doc EXCEPT !.calls = @ \o symbols, !.keyed = FALSE, !.string = FALSE]

-----------------------------------------------------------------------------
(* The calls of a service that writes a JSON object or array.              *)
ValueExpected == kind = "json" /\ (doc.keyed \/ In("array"))

WriteContainer ==
  /\ kind = "json" /\ (ValueExpected \/ doc.calls = <<>>)
  /\ \/ Written(JsonObject(builder), [Called(<<"object">>) EXCEPT !.nest = Append(@, "object")])
     \/ Written(JsonArray(builder), [Called(<<"array">>) EXCEPT !.nest = Append(@, "array")])

WriteKey ==
  /\ kind = "json" /\ In("object") /\ ~doc.keyed
  /\ \E s \in Values :
       Written(JsonKey(builder, s), [Called(<<"key">> \o s) EXCEPT !.keyed = TRUE])

WriteString ==
  /\ \E s \in Values, append \in BOOLEAN :
       /\ ValueExpected \/ (append /\ doc.string)
       /\ Written(JsonString(builder, Encoded(s), append),
                  [Called((IF append /\ doc.string THEN <<>> ELSE <<"value">>) \o s)
                     EXCEPT !.string = TRUE])

WriteEscaped ==
  /\ \E s \in Values, append \in BOOLEAN :
       /\ ValueExpected \/ (append /\ doc.string)
       /\ Written(JsonString(builder, XmlEncoded(s), append),
                  [Called((IF append /\ doc.string THEN <<>> ELSE <<"value">>) \o AsXml(s))
                     EXCEPT !.string = TRUE])

WriteLiteral ==
  /\ ValueExpected
  /\ \E c \in {"1", "null"} : Written(JsonLiteral(builder, c), Called(<<c>>))

Closing(c) == IF kind = "xml" THEN "end" ELSE IF c = "object" THEN "object_end" ELSE "array_end"

WriteClose ==
  /\ doc.nest # <<>> /\ (kind = "json" => ~doc.keyed)
  /\ Written(IF kind = "json" THEN JsonClose(builder) ELSE XmlClose(builder),
             [Called(<<Closing(Last(doc.nest))>>) EXCEPT !.nest = Front(@)])

WriteIndent ==
  /\ kind \in {"json", "xml"} /\ doc.calls # <<>>
  /\ Written(IF kind = "json" THEN JsonIndent(builder) ELSE XmlIndent(builder),
             [doc EXCEPT !.string = FALSE, !.keyed = @ /\ kind = "json"])

(* finish() closes all that is open, and generate() returns false.         *)
WriteFinish ==
  /\ kind \in {"json", "xml"} /\ doc.calls # <<>> /\ (kind = "json" => ~doc.keyed)
  /\ \E indent \in BOOLEAN :
       Written(IF kind = "json" THEN JsonFinish(builder, indent) ELSE XmlFinish(builder, indent),
               [Called(Reverse([k \in DOMAIN doc.nest |-> Closing(doc.nest[k])]))
                  EXCEPT !.nest = <<>>])
  /\ generator_end'

(* The calls of a service that writes an XML document.  XML has no control *)
(* characters; blanks do not count in it, since indentation adds some.     *)
InXml(s) == \A k \in DOMAIN s : s[k] \notin Blank \cup Controls

WriteElement ==
  /\ kind = "xml" /\ (doc.nest # <<>> \/ doc.calls = <<>>)
  /\ \E name \in {"e", "f"}, declaration \in BOOLEAN :
       /\ declaration => doc.calls = <<>>
       /\ Written(XmlElement(IF declaration THEN XmlDeclaration(builder) ELSE builder, name),
                  [Called(<<"element", name>>) EXCEPT !.keyed = TRUE, !.nest = Append(@, name)])

WriteAttribute ==
  /\ kind = "xml" /\ doc.keyed
  /\ \E s \in Values :
       InXml(s) /\ Written(XmlAttribute(builder, "a", s),
               [Called(<<"attribute", "a">> \o s \o <<"attribute_end">>) EXCEPT !.keyed = TRUE])

WriteText ==
  /\ kind = "xml" /\ doc.nest # <<>>
  /\ \E s \in Values : InXml(s) /\ Written(XmlText(builder, s), Called(s))

(* A generate() of another generator, or one that writes nothing and may   *)
(* end the response.                                                       *)
WritePlain ==
  /\ Generate
  /\ kind # "plain" => generator'.len = generator.len
  /\ UNCHANGED docVars

-----------------------------------------------------------------------------
(* consume() of the generators discards what has been copied.              *)
CopyDocument ==
  /\ Copy
  /\ LET n == generator'.base - generator.base
     IN  /\ builder' = Discard(builder, n)
         /\ gone' = gone \o (IF kind = "plain" THEN <<>> ELSE SubSeq(builder.text, 1, n))
  /\ UNCHANGED <<kind, doc>>

Serve == (Callback \/ EndOfStream \/ Send \/ Abort) /\ UNCHANGED docVars

DocDone == Done /\ UNCHANGED docVars

DocNext ==
  \/ WriteContainer \/ WriteKey \/ WriteString \/ WriteEscaped \/ WriteLiteral
  \/ WriteClose \/ WriteIndent \/ WriteFinish
  \/ WriteElement \/ WriteAttribute \/ WriteText \/ WritePlain
  \/ CopyDocument \/ Serve \/ DocDone

(* The thread runs and the client reads.                                   *)
DocSpec ==
  DocInit /\ [][DocNext]_streamVars
    /\ WF_streamVars(CopyDocument \/ (Serve /\ pc' # "aborted"))

-----------------------------------------------------------------------------
(* The characters that a builder does not write so that they read back.    *)
Spoiled == IF kind = "json" THEN {"control"} ELSE {"ampersand"}

AtRest == {"next", "value"}   \* behind a value of JSON, outside the tags of XML

(* Whatever prefixes are discarded while the document is written, all its  *)
(* text is well-formed and has open what the service has opened; read as   *)
(* JSON or as XML it gives the calls that were made, with each character   *)
(* of each value in its place, but for the ones the builders spoil; and    *)
(* when all is closed, the document is whole.                              *)
ReadsAsWritten ==
  kind # "plain" =>
    LET reading == Reading(kind, gone \o builder.text)
    IN  /\ reading.ok /\ reading.nest = doc.nest
        /\ Len(reading.calls) = Len(doc.calls)
        /\ \A k \in DOMAIN doc.calls :
              doc.calls[k] \notin Spoiled => reading.calls[k] = doc.calls[k]
        /\ doc.calls # <<>> /\ doc.nest = <<>> => reading.at \in AtRest

(* The value that is added is the one the document has, whatever is in it. *)
(* The code breaks this: a control character in JSON has lost the          *)
(* backslash of its escape, an ampersand in XML is read as an apostrophe.  *)
ValuesKept ==
  kind # "plain" => Reading(kind, gone \o builder.text).calls = doc.calls
=============================================================================
