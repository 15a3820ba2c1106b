--------------------------- MODULE MCFormRequest ---------------------------
(* The forms: lists of names and values, encoded as a browser does it.     *)
EXTENDS FormRequest

MCBoundary == <<"b">>
MCLongerBoundary == <<"b", "b">>
MCDisposition == ("A" :> <<"a">>) @@ ("B" :> <<"k">>)
Long(n) == [k \in 1 .. n |-> "x"]
Mixed(boundary) == [kind |-> "mixed", boundary |-> boundary]
MCContentType ==
  ("M" :> Mixed(<<"c">>)) @@ ("L" :> Mixed(<<"c", "c">>)) @@ ("H" :> Mixed(Long(8)))
    @@ ("N" :> Mixed(Null)) @@ ("P" :> [kind |-> "other", boundary |-> Null])
MCTransfer == ("T" :> "binary") @@ ("E" :> "base64")

Crlf == <<"r", "n">>
NoParams == [k \in {} |-> <<>>]
Get == (<<"a">> :> <<"g">>)

(* The last of the values given under a name is the one that counts.       *)
Last2(pairs, get) ==
  LET names == {pairs[k][1] : k \in DOMAIN pairs}
      last(n) == pairs[Max({k \in DOMAIN pairs : pairs[k][1] = n})][2]
  IN  [n \in names \cup DOMAIN get |-> IF n \in names THEN last(n) ELSE get[n]]

Escaped(s) ==
  FlattenSeq([k \in DOMAIN s |-> CASE s[k] = "D" -> <<"%", "4", "4">>
                                   [] s[k] = " " -> <<"+">>
                                   [] OTHER -> <<s[k]>>])

UrlText(pairs) ==
  FlattenSeq([k \in DOMAIN pairs |-> (IF k = 1 THEN <<>> ELSE <<"&">>)
                \o Escaped(pairs[k][1]) \o <<"=">> \o Escaped(pairs[k][2])])

UrlForm(pairs, get) ==
  [encoding |-> "urlencoded", text |-> UrlText(pairs), get |-> get, params |-> Last2(pairs, get)]

Keys == {<<"a">>, <<"D">>}
UrlValues == {<<>>, <<"x">>, <<"D">>, <<"x", "D", "D">>, <<"D", " ", "D">>}
UrlForms == {UrlForm(<<<<k, v>>>>, Get) : k \in Keys, v \in UrlValues}
              \cup {UrlForm(<<<<k, v>>, <<l, w>>>>, NoParams) : k \in Keys, v \in UrlValues,
                      l \in Keys, w \in {<<"D">>, <<"4">>, <<>>}}

(* A part is a header and a value.                                         *)
Delimiter == <<"-", "-">> \o Boundary
Part(p) == Crlf \o <<p[1]>> \o Crlf \o Crlf \o p[2] \o Crlf \o Delimiter
MultipartForm(before, parts, get) ==
  [encoding |-> "multipart",
   text |-> before \o Delimiter \o FlattenSeq([k \in DOMAIN parts |-> Part(parts[k])])
              \o <<"-", "-">> \o Crlf,
   get |-> get,
   params |-> Last2([k \in DOMAIN parts |-> <<MCDisposition[parts[k][1]], parts[k][2]>>], get)]

PartValues == {<<>>, <<"x", "r">>, <<"r", "n", "-", "-", "x">>, <<"r", "r", "n">>}
MultipartForms ==
  {MultipartForm(<<>>, <<<<"A", v>>>>, Get) : v \in PartValues}
    \cup {MultipartForm(<<"-", "x">>, <<<<"B", v>>, <<h, w>>>>, Get) :
            v \in PartValues, h \in {"A", "B"}, w \in {<<>>, <<"x", "r", "n", "-", "-">>}}

(* Files of one field, in a part of their own encoding.                    *)
NestedDelimiter(type) == <<"-", "-">> \o MCContentType[type].boundary
NestedPart(type, transfer, value) ==
  Crlf \o <<transfer>> \o Crlf \o Crlf \o value \o Crlf \o NestedDelimiter(type)
NestedText(type, transfer, values) ==
  Delimiter \o Crlf \o <<"A">> \o Crlf \o <<type>> \o Crlf \o Crlf \o NestedDelimiter(type)
    \o FlattenSeq([k \in DOMAIN values |-> NestedPart(type, transfer, values[k])])
    \o <<"-", "-">> \o Crlf \o Delimiter
NestedForm(type, transfer, values) ==
  [encoding |-> "multipart", text |-> NestedText(type, transfer, values) \o <<"-", "-">> \o Crlf,
   get |-> NoParams, params |-> (<<"a">> :> Last(values))]

(* The nested boundary may be longer than the form's, and than the buffer. *)
NestedForms ==
  {NestedForm("M", t, v) : t \in {"T", "E"}, v \in {<< <<"x">> >>, << <<"x", "x">>, <<"x", "r">> >>}}
    \cup {NestedForm(type, "T", << <<"x">> >>) : type \in {"L", "H"}}

(* The nested boundary is shorter than the form's.                         *)
MCNestedShorter == {NestedForm("M", "T", << <<"x">> >>)}

(* Of two types that a part is given, the first one holds.                 *)
TypedForms ==
  {[encoding |-> "multipart",
    text |-> Delimiter \o Crlf \o <<"P">> \o Crlf \o <<"M">> \o Part(<<"A", <<"x">>>>)
               \o <<"-", "-">> \o Crlf,
    get |-> NoParams, params |-> (<<"a">> :> <<"x">>)]}

Plain == {[encoding |-> "none", text |-> Long(n), get |-> NoParams, params |-> NoParams] : n \in {3, 58, 60}}
TooLong == {UrlForm(<<<<<<"a">>, Long(57)>>>>, Get)}

(* A line that the buffer cannot hold, more data after the end, bad text.  *)
Malformed ==
  {[encoding |-> "multipart", text |-> t, get |-> NoParams, params |-> NoParams] :
     t \in { Delimiter \o Crlf \o Long(12), Delimiter \o <<"-", "-", "r", "n", "x", "x">>,
             Delimiter \o <<"-", "x">> \o Crlf, Delimiter \o Crlf \o <<"A">> \o <<"r", "r">>,
             Delimiter \o Crlf \o <<"M">> \o Crlf \o Crlf \o <<"x", "x", "x">>,
             NestedText("N", "T", << <<"x">> >>)}}

OtherEnds ==
  {[encoding |-> "urlencoded", text |-> t, get |-> NoParams, params |-> (<<"a">> :> <<"x">>)] :
     t \in {<<"a", "=", "x">> \o Crlf \o <<"x">>, Long(10) \o <<"=", "x">>}}

MCForms == UrlForms \cup MultipartForms \cup NestedForms \cup TypedForms
             \cup Plain \cup TooLong \cup Malformed \cup OtherEnds

(* A field after the files of another one.                                 *)
MCNestedThenField ==
  {[encoding |-> "multipart",
    text |-> NestedText("M", "T", << <<"x">> >>) \o Part(<<"B", <<"x", "x">>>>) \o <<"-", "-">> \o Crlf,
    get |-> NoParams, params |-> (<<"a">> :> <<"x">>) @@ (<<"k">> :> <<"x", "x">>)]}
=============================================================================
