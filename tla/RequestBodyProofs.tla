------------------------ MODULE RequestBodyProofs ------------------------
(***************************************************************************)
(* The body limit, for every limit and every way a body is cut into        *)
(* pieces.  Counted is inductive together with the type invariant; it      *)
(* needs the limit not to be the largest unsigned, for which the counter   *)
(* starts at 0 and refuses every body.  For a form also: the buffers of    *)
(* the post processor keep their bounds and its loops make progress.       *)
(***************************************************************************)
EXTENDS FormRequest, WellFoundedInduction, SequenceTheorems, TLAPS

LEMMA WidthMod == \A k \in Int : k % W \in 0 .. W - 1
  BY RequestBodyAssumption DEF RequestBodyAssumption

LEMMA NoWrap == \A k \in 0 .. W - 1 : k % W = k /\ (k + W) % W = k
  BY RequestBodyAssumption DEF RequestBodyAssumption

(* A body that never went over the counter was kept whole.                 *)
KeptWhole == ~Limited /\ outcome # "closed" => kept = received

BodyInv == TypeOK /\ Counted /\ KeptWhole /\ kept <= received
             /\ (outcome # "closed" /\ Limited /\ MaxBody # W - 1 =>
                   /\ outcome = "REQUEST_ENTITY_TOO_LARGE" => remaining = 0
                   /\ outcome = "service" => remaining # 0)
             /\ (~Limited => outcome # "REQUEST_ENTITY_TOO_LARGE")

LEMMA BodyInit == Init => BodyInv
<1> SUFFICES ASSUME Init PROVE BodyInv
  OBVIOUS
<1>1. FirstRemaining \in 0 .. W - 1
  BY WidthMod, RequestBodyAssumption DEF FirstRemaining, RequestBodyAssumption
<1>2. MaxBody # W - 1 => FirstRemaining = MaxBody + 1
  BY NoWrap, RequestBodyAssumption DEF FirstRemaining, RequestBodyAssumption
<1> QED BY <1>1, <1>2, RequestBodyAssumption
        DEF Init, BodyInv, TypeOK, Counted, KeptWhole, Forms, Limited, RequestBodyAssumption

(* What one piece of the body does to the counter.                         *)
LEMMA BodyReceive ==
  ASSUME BodyInv, NEW n \in 1 .. MaxTotal, Receive(n)
  PROVE  BodyInv'
<1>1. /\ outcome = "open" /\ received \in Nat /\ kept \in Nat /\ n \in Nat
      /\ received' = received + n /\ received' \in 0 .. MaxTotal
      /\ remaining \in 0 .. W - 1 /\ W \in Nat /\ MaxBody \in Nat
  BY RequestBodyAssumption DEF Receive, BodyInv, TypeOK, RequestBodyAssumption
<1>2. CASE (~Limited \/ Fits(n)) /\ Keep(n)
  <2>1. Limited => remaining' = remaining - n /\ remaining' \in 1 .. W - 1
    <3> SUFFICES ASSUME Limited PROVE remaining' = remaining - n /\ remaining' \in 1 .. W - 1
      OBVIOUS
    <3>1. remaining - n \in 1 .. W - 1
      BY <1>1, <1>2 DEF Fits
    <3>2. remaining + W - n = (remaining - n) + W
      BY <1>1
    <3> QED BY <1>2, <3>1, <3>2, NoWrap DEF Keep
  <2>2. ~Limited => remaining' = remaining
    BY <1>2 DEF Keep
  <2>3. kept' = kept + n /\ outcome' = "open" /\ form' \in Forms
    BY <1>1, <1>2 DEF Keep, BodyInv, TypeOK, Forms
  <2>4. kept' \in 0 .. MaxTotal /\ kept' <= received'
    BY <1>1, <2>3, RequestBodyAssumption DEF BodyInv, RequestBodyAssumption
  <2>5. Limited /\ MaxBody # W - 1 => /\ remaining # 0 /\ received = kept
                                      /\ remaining = MaxBody + 1 - received
    BY <1>1, <1>2 DEF BodyInv, Counted, Fits
  <2>6. TypeOK'
    BY <1>1, <2>1, <2>2, <2>3, <2>4 DEF TypeOK
  <2> QED BY <1>1, <2>1, <2>2, <2>3, <2>4, <2>5, <2>6
          DEF BodyInv, Counted, KeptWhole, Limited
<1>3. CASE Drop
  BY <1>1, <1>3 DEF Drop, BodyInv, TypeOK, Counted, KeptWhole, Limited
<1>4. CASE Limited /\ ~Fits(n) /\ Refuse
  <2>1. /\ remaining' = 0 /\ outcome' = "open" /\ kept' = kept /\ form' = form
        /\ 0 \in 0 .. W - 1
    BY <1>1, <1>4, RequestBodyAssumption DEF Refuse, RequestBodyAssumption
  <2>2. MaxBody # W - 1 => received' > MaxBody /\ kept <= MaxBody
    BY <1>1, <1>4 DEF Fits, BodyInv, Counted
  <2> QED BY <1>1, <1>4, <2>1, <2>2 DEF BodyInv, TypeOK, Counted, KeptWhole, Limited
<1> QED BY <1>2, <1>3, <1>4 DEF Receive

LEMMA BodyStep ==
  ASSUME BodyInv, [Next]_vars
  PROVE  BodyInv'
<1>1. CASE \E n \in 1 .. MaxTotal : Receive(n)
  BY <1>1, BodyReceive
<1>2. CASE Handle
  <2>1. /\ outcome = "open" /\ UNCHANGED <<form, remaining, received, kept>>
        /\ outcome' \in {"METHOD_NOT_ALLOWED", "UNSUPPORTED_MEDIA_TYPE",
                         "REQUEST_ENTITY_TOO_LARGE", "service"}
        /\ outcome' = "REQUEST_ENTITY_TOO_LARGE" => Limited /\ remaining = 0
        /\ outcome' = "service" => ~(Limited /\ remaining = 0)
    BY <1>2 DEF Handle
  <2> QED BY <2>1 DEF BodyInv, TypeOK, Counted, KeptWhole, Limited
<1>3. CASE Done \/ UNCHANGED vars
  BY <1>3 DEF Done, vars, BodyInv, TypeOK, Counted, KeptWhole, Limited
<1> QED BY <1>1, <1>2, <1>3 DEF Next

(* The counter is exact until it refuses a piece, and stays 0 from then on.*)
THEOREM BodyCounted == Spec => [](TypeOK /\ Counted)
<1>1. BodyInv => TypeOK /\ Counted
  BY DEF BodyInv
<1> QED BY <1>1, BodyInit, BodyStep, PTL DEF Spec

(* The service is given the whole body, and only a body within the limit.  *)
THEOREM BodyServedWhole == ASSUME MaxBody # W - 1 PROVE Spec => []ServedWhole
<1>1. BodyInv => ServedWhole
  BY RequestBodyAssumption
     DEF BodyInv, TypeOK, Counted, KeptWhole, ServedWhole, Fitting, Limited,
         RequestBodyAssumption
<1> QED BY <1>1, BodyInit, BodyStep, PTL DEF Spec

(* Only a body over the limit is refused as too large.                     *)
THEOREM BodyRefused == ASSUME MaxBody # W - 1 PROVE Spec => []RefusedTooLarge
<1>1. BodyInv => RefusedTooLarge
  BY RequestBodyAssumption
     DEF BodyInv, TypeOK, Counted, RefusedTooLarge, Fitting, Limited, RequestBodyAssumption
<1> QED BY <1>1, BodyInit, BodyStep, PTL DEF Spec

-----------------------------------------------------------------------------
(***************************************************************************)
(* With the post processor at work, every piece of a body is still counted *)
(* once, so that what holds of RequestBody holds of FormRequest.           *)
(***************************************************************************)
(* A piece is being processed whenever the post processor runs or has just *)
(* returned, unless it runs because it is being deleted.                   *)
PieceKept == post_processor /\ call # "idle" => piece \in Nat \ {0}

LEMMA StepRuns == PostStep => call = "runs"
<1>1. ReadKey \/ ReadValue \/ ExpectNewLine \/ UrlEncodedDone \/ UrlEncodedEnds => call = "runs"
  BY DEF ReadKey, ReadValue, ExpectNewLine, UrlEncodedDone, UrlEncodedEnds, UrlEncoded
<1>2. SkipRN \/ MultipartEnds => call = "runs"
  BY DEF SkipRN, MultipartEnds, Multipart
<1>3. FirstBoundary \/ ProcessEntryHeaders \/ NestedEntryHeaders \/ PerformCheckMultipart
        => call = "runs"
  BY DEF FirstBoundary, ProcessEntryHeaders, NestedEntryHeaders, PerformCheckMultipart,
         State, Multipart
<1>4. NextBoundary \/ NestedInit => call = "runs"
  BY DEF NextBoundary, NestedInit, FindBoundary, State, Multipart
<1>5. ProcessValueToBoundary \/ NestedValueToBoundary \/ MultipartDone => call = "runs"
  BY DEF ProcessValueToBoundary, NestedValueToBoundary, MultipartDone, State, Multipart
<1>6. PerformCleanup \/ NestedPerformMarking \/ NestedPerformCleanup => call = "runs"
  BY DEF PerformCleanup, NestedPerformMarking, NestedPerformCleanup, State, Multipart
<1> QED BY <1>1, <1>2, <1>3, <1>4, <1>5, <1>6 DEF PostStep

LEMMA PieceStep ==
  ASSUME PieceKept, [FormNext]_formVars
  PROVE  PieceKept'
<1>1. CASE \E n \in Pieces : ProcessForm(n)
  BY <1>1 DEF ProcessForm, Pieces, PieceKept
<1>2. CASE Processed
  BY <1>2 DEF Processed, PieceKept
<1>3. CASE \E n \in Pieces : ReceiveOther(n)
  BY <1>3 DEF ReceiveOther, postVars, PieceKept
<1>4. CASE Delete \/ HandleForm
  BY <1>4 DEF Delete, HandleForm, PieceKept
<1>5. CASE Run
  BY <1>5, StepRuns DEF Run, form_vars, PieceKept
<1>6. CASE Served \/ UNCHANGED formVars
  BY <1>6 DEF Served, formVars, postVars, form_vars, PieceKept
<1> QED BY <1>1, <1>2, <1>3, <1>4, <1>5, <1>6 DEF FormNext

(* Only a piece of the body that is received changes the counters.         *)
LEMMA FormStep ==
  ASSUME BodyInv, PieceKept, [FormNext]_formVars
  PROVE  [Next]_vars
<1>1. ASSUME NEW n \in Nat \ {0}, Receive(n) PROVE Next
  <2>1. received \in Nat /\ received + n <= MaxTotal
    BY <1>1 DEF Receive, BodyInv, TypeOK
  <2>2. n \in 1 .. MaxTotal
    BY <2>1, RequestBodyAssumption DEF RequestBodyAssumption
  <2> QED BY <1>1, <2>2 DEF Next
<1>2. CASE \E n \in Pieces : ProcessForm(n)
  BY <1>2 DEF ProcessForm
<1>3. CASE Processed
  <2>1. Receive(piece) /\ piece \in Nat \ {0}
    BY <1>3 DEF Processed, PieceKept
  <2> QED BY <1>1, <2>1
<1>4. CASE \E n \in Pieces : ReceiveOther(n)
  <2>1. PICK n \in Pieces : Receive(n)
    BY <1>4 DEF ReceiveOther
  <2>2. n \in Nat \ {0}
    BY DEF Pieces
  <2> QED BY <1>1, <2>1, <2>2
<1>5. CASE HandleForm
  BY <1>5 DEF HandleForm, Next
<1>6. CASE Delete \/ Run \/ Served \/ UNCHANGED formVars
  BY <1>6 DEF Delete, Run, Served, formVars
<1> QED BY <1>2, <1>3, <1>4, <1>5, <1>6 DEF FormNext

LEMMA FormInvariant == FormSpec => [](BodyInv /\ PieceKept)
<1>1. FormInit => BodyInv /\ PieceKept
  BY BodyInit DEF FormInit, PostInit, PieceKept
<1>2. BodyInv /\ PieceKept /\ [FormNext]_formVars => BodyInv' /\ PieceKept'
  BY FormStep, BodyStep, PieceStep
<1> QED BY <1>1, <1>2, PTL DEF FormSpec

(* A request whose body goes through the post processor is counted,        *)
(* refused and handled as RequestBody describes it, however the body was   *)
(* cut into pieces and whatever the post processor makes of them.          *)
THEOREM FormCountsBody == FormSpec => ImplementsBody
<1>1. FormInit => Init
  BY DEF FormInit
<1>2. BodyInv /\ PieceKept /\ [FormNext]_formVars => [Next]_vars
  BY FormStep
<1> QED BY <1>1, <1>2, FormInvariant, PTL DEF FormSpec, ImplementsBody, Spec

(* A service is given a form only when the post processor was given all of *)
(* it, and it was within the limit.                                        *)
THEOREM FormServedWhole == ASSUME MaxBody # W - 1 PROVE FormSpec => []ServedWhole
BY FormCountsBody, BodyServedWhole, PTL DEF ImplementsBody

(* A form is refused as too large only when it is over the limit.          *)
THEOREM FormRefused == ASSUME MaxBody # W - 1 PROVE FormSpec => []RefusedTooLarge
BY FormCountsBody, BodyRefused, PTL DEF ImplementsBody

-----------------------------------------------------------------------------
(***************************************************************************)
(* The post processor: for every form, cut in any way, its buffers keep    *)
(* their bounds, and every turn of its loops makes progress.               *)
(***************************************************************************)
(* The symbols of the texts; that "-" and "n" are in STRING is more than   *)
(* the provers know.                                                       *)
Symbols == STRING \cup {"-", "n"}

LEMMA TextsSent == \A s \in Seq(STRING) : s \in Seq(Symbols)
  BY SeqMonotonic DEF Symbols

LEMMA TextsMade ==
  /\ <<"n">> \in Seq(Symbols) /\ <<"-", "-">> \in Seq(Symbols)
  /\ <<>> \in Seq(Symbols) /\ Len(<<>>) = 0
  BY DEF Symbols

LEMMA BoundariesAre ==
  /\ Boundary \in Seq(Symbols)
  /\ \A h \in DOMAIN ContentType : ContentType[h].boundary \in Seq(Symbols)
  BY TextsSent, PostProcessorAssumption

(* Among natural numbers one is the least, and among integers with a bound *)
(* one is the largest.                                                     *)
LEMMA LeastThere ==
  ASSUME NEW S \in SUBSET Nat, S # {}
  PROVE  Least(S) \in S /\ \A k \in S : Least(S) <= k
<1>1. PICK k \in S : \A l \in S : ~(<<l, k>> \in OpToRel(<, Nat))
  BY NatLessThanWellFounded, WFMin
<1>2. ASSUME NEW l \in S, ~(k <= l)  PROVE FALSE
  <2>1. l < k /\ l \in Nat /\ k \in Nat  BY <1>2
  <2>2. <<l, k>> \in OpToRel(<, Nat)  BY <2>1 DEF OpToRel
  <2>3. QED  BY <1>1, <2>2
<1>3. QED  BY <1>2 DEF Least

LEMMA LargestThere ==
  ASSUME NEW S \in SUBSET Int, NEW n \in Int, S # {}, \A k \in S : k <= n
  PROVE  Max(S) \in S /\ \A k \in S : k <= Max(S)
<1> DEFINE T == {t \in Nat : n - t \in S}
<1>1. T \in SUBSET Nat
  OBVIOUS
<1>2. T # {}
  <2>1. PICK k \in S : TRUE  OBVIOUS
  <2>2. n - k \in Nat /\ n - (n - k) = k  OBVIOUS
  <2>3. n - k \in T  BY <2>2
  <2>4. QED  BY <2>3
<1>3. Least(T) \in T /\ \A t \in T : Least(T) <= t
  BY <1>1, <1>2, LeastThere
<1>4. \A l \in S : l <= n - Least(T)
  <2>1. SUFFICES ASSUME NEW l \in S  PROVE l <= n - Least(T)  OBVIOUS
  <2>2. n - l \in Nat /\ n - (n - l) = l  OBVIOUS
  <2>3. n - l \in T  BY <2>2
  <2>4. Least(T) <= n - l /\ Least(T) \in Nat  BY <1>3, <2>3
  <2>5. QED  BY <2>4
<1>5. n - Least(T) \in S  BY <1>3
<1>. HIDE DEF T
<1>6. \E x \in S : \A y \in S : x >= y
  <2>1. Least(T) \in Nat  BY <1>1, <1>3
  <2>2. \A y \in S : n - Least(T) >= y  BY <1>4, <2>1
  <2>3. QED  BY <1>5, <2>2
<1>7. Max(S) \in S /\ \A y \in S : Max(S) >= y  BY <1>6 DEF Max
<1>8. QED  BY <1>7

LEMMA SmallerOfTwo ==
  ASSUME NEW a \in Int, NEW b \in Int
  PROVE  Min({a, b}) = IF a <= b THEN a ELSE b
<1>1. \A x, y \in {a, b} : x \in Int /\ y \in Int  OBVIOUS
<1>2. \E x \in {a, b} : \A y \in {a, b} : x <= y  OBVIOUS
<1>3. Min({a, b}) \in {a, b} /\ \A y \in {a, b} : Min({a, b}) <= y  BY <1>2 DEF Min
<1>4. QED  BY <1>1, <1>3

(* Taking symbols off the front.                                          *)
LEMMA TakeRest ==
  ASSUME NEW s \in Seq(Symbols), NEW n \in Nat
  PROVE  /\ Take(s, n) \in Seq(Symbols) \/ n > Len(s)
         /\ n <= Len(s) => Len(Take(s, n)) = n
         /\ Rest(s, n) \in Seq(Symbols)
         /\ Len(Rest(s, n)) = IF n <= Len(s) THEN Len(s) - n ELSE 0
<1>1. n <= Len(s) => Take(s, n) \in Seq(Symbols) /\ Len(Take(s, n)) = n
  <2>1. SUFFICES ASSUME n <= Len(s)
                 PROVE  Take(s, n) \in Seq(Symbols) /\ Len(Take(s, n)) = n
    OBVIOUS
  <2>2. \A i \in 1 .. n : s[i] \in Symbols  BY <2>1
  <2>3. QED  BY <2>2, SubSeqProperties DEF Take
<1>2. Rest(s, n) \in Seq(Symbols) /\ Len(Rest(s, n)) = IF n <= Len(s) THEN Len(s) - n ELSE 0
  <2>1. \A i \in (n + 1) .. Len(s) : s[i] \in Symbols  OBVIOUS
  <2>2. /\ SubSeq(s, n + 1, Len(s)) \in Seq(Symbols)
        /\ Len(SubSeq(s, n + 1, Len(s))) = IF n + 1 <= Len(s) THEN Len(s) - (n + 1) + 1 ELSE 0
    BY <2>1, SubSeqProperties
  <2>3. QED  BY <2>2 DEF Rest
<1>3. QED  BY <1>1, <1>2

LEMMA BeforeInside ==
  ASSUME NEW s \in Seq(Symbols), NEW symbols
  PROVE  /\ Before(s, symbols) \in 0 .. Len(s)
         /\ Before(s, symbols) < Len(s) => s[Before(s, symbols) + 1] \in symbols
         /\ s # <<>> /\ s[1] \notin symbols => Before(s, symbols) > 0
<1> DEFINE at == {k \in DOMAIN s : s[k] \in symbols}
<1>1. DOMAIN s = 1 .. Len(s) /\ Len(s) \in Nat  OBVIOUS
<1>2. CASE at = {}  BY <1>1, <1>2 DEF Before
<1>3. CASE at # {}
  <2>1. at \in SUBSET Nat  BY <1>1
  <2>2. Least(at) \in at  BY <1>3, <2>1, LeastThere
  <2>3. Before(s, symbols) = Least(at) - 1  BY <1>3 DEF Before
  <2>. HIDE DEF at
  <2>4. Least(at) \in 1 .. Len(s) /\ s[Least(at)] \in symbols  BY <2>2, <1>1 DEF at
  <2>5. QED  BY <1>1, <2>3, <2>4
<1>4. QED  BY <1>2, <1>3

-----------------------------------------------------------------------------
PostFields == {"state", "buf", "xbuf", "key", "value_offset", "skip_rn", "dash_state", "must_ikvi",
               "have", "name", "type", "transfer", "nested"}

(* What a turn of a loop writes to pp besides the buffer.                  *)
Fields(q) ==
  /\ q = [f \in PostFields |-> q[f]]
  /\ q.xbuf \in Seq(Symbols) /\ Len(q.xbuf) <= 2
  /\ q.type.boundary \in Seq(Symbols) /\ q.nested \in Seq(Symbols)

Buffered ==
  /\ Fields(pp)
  /\ pp.buf \in Seq(Symbols) /\ Len(pp.buf) <= buffer_size
  /\ post_data \in Seq(Symbols) /\ changed \in BOOLEAN

(* How far a call has got: what it has still to consume, then how near the *)
(* state is to one that consumes or waits, then what is outside the buffer.*)
Left == IF encoding = "urlencoded" THEN Len(post_data) ELSE Len(post_data) + Len(pp.buf)

Rank(state) ==
  CASE state \in {"PerformCleanup", "Nested_PerformMarking", "Nested_PerformCleanup"} -> 4
    [] state \in {"ProcessEntryHeaders", "Nested_ProcessEntryHeaders"} -> 3
    [] state = "PerformCheckMultipart" -> 2
    [] state = "ProcessValue" -> 1
    [] OTHER -> 0

Descends ==
  \/ Left' < Left
  \/ /\ Left' = Left
     /\ \/ Rank(pp'.state) < Rank(pp.state)
        \/ /\ Rank(pp'.state) = Rank(pp.state)
           /\ \/ Len(post_data') < Len(post_data)
              \/ Len(post_data') = Len(post_data) /\ changed /\ ~changed'

Turn == Buffered' /\ (call' = "runs" => Descends)

LEMMA Moving ==
  ASSUME Buffered
  PROVE  /\ Moved \in 0 .. Len(post_data)
         /\ Moved < Len(post_data) => Len(pp.buf) + Moved = buffer_size
         /\ Buf \in Seq(Symbols) /\ Len(Buf) = Len(pp.buf) + Moved /\ Len(Buf) <= buffer_size
         /\ Rest(post_data, Moved) \in Seq(Symbols)
         /\ Len(Rest(post_data, Moved)) = Len(post_data) - Moved
<1> DEFINE room == buffer_size - Len(pp.buf)
<1>1. buffer_size \in Nat /\ Len(pp.buf) \in Nat /\ Len(post_data) \in Nat /\ room \in Nat
  BY PostProcessorAssumption DEF Buffered
<1>2. Moved = Min({room, Len(post_data)})
  BY DEF Moved
<1>3. Moved = IF room <= Len(post_data) THEN room ELSE Len(post_data)
  <2>. HIDE DEF room
  <2>1. room \in Int /\ Len(post_data) \in Int  BY <1>1
  <2>2. QED  BY <1>2, <2>1, SmallerOfTwo
<1>4. Moved \in 0 .. Len(post_data) /\ (Moved < Len(post_data) => Len(pp.buf) + Moved = buffer_size)
      /\ Len(pp.buf) + Moved <= buffer_size
  <2>1. Len(pp.buf) <= buffer_size  BY DEF Buffered
  <2>2. Moved = IF buffer_size - Len(pp.buf) <= Len(post_data)
                  THEN buffer_size - Len(pp.buf) ELSE Len(post_data)
    BY <1>3
  <2> DEFINE b == Len(pp.buf)
             d == Len(post_data)
             m == Moved
  <2>3. /\ b \in Nat /\ d \in Nat /\ buffer_size \in Nat /\ b <= buffer_size
        /\ m = IF buffer_size - b <= d THEN buffer_size - b ELSE d
    BY <1>1, <2>1, <2>2
  <2>4. SUFFICES m \in 0 .. d /\ (m < d => b + m = buffer_size) /\ b + m <= buffer_size
    OBVIOUS
  <2>. HIDE DEF room, b, d, m
  <2>5. QED  BY <2>3
<1>5. Take(post_data, Moved) \in Seq(Symbols) /\ Len(Take(post_data, Moved)) = Moved
  <2>1. Moved \in Nat /\ Moved <= Len(post_data)  BY <1>1, <1>4
  <2>2. QED  BY <2>1, TakeRest DEF Buffered
<1>6. Buf \in Seq(Symbols) /\ Len(Buf) = Len(pp.buf) + Moved
  BY <1>5, ConcatProperties DEF Buf, Buffered
<1>7. /\ Rest(post_data, Moved) \in Seq(Symbols)
      /\ Len(Rest(post_data, Moved)) = Len(post_data) - Moved
  <2>1. Moved \in Nat /\ Moved <= Len(post_data)  BY <1>1, <1>4
  <2>2. QED  BY <2>1, TakeRest DEF Buffered
<1>8. QED  BY <1>4, <1>6, <1>7

(* The place where a value ends is in the buffer.                          *)
LEMMA EndInside ==
  ASSUME Buffered, NEW boundary
  PROVE  ValueEnd(boundary) \in 0 .. Len(Buf)
<1> DEFINE ends == {k \in Dashes : ~Checkable(k) \/ Matches(boundary, k)}
           others == {0, Len(Buf) - 4} \cup {k + 4 : k \in Dashes}
<1>1. Len(Buf) \in Nat
  BY Moving
<1>2. Dashes \subseteq 0 .. Len(Buf) - 5
  BY DEF Dashes
<1>. HIDE DEF ValueEnd
<1>3. CASE ends # {}
  <2>1. ends \subseteq 0 .. Len(Buf) - 5  BY <1>2
  <2>2. ValueEnd(boundary) = Least(ends)  BY <1>3 DEF ValueEnd
  <2>. HIDE DEF ends
  <2>3. ends \in SUBSET Nat  BY <2>1, <1>1
  <2>4. Least(ends) \in ends  BY <1>3, <2>3, LeastThere
  <2>5. Least(ends) \in 0 .. Len(Buf) - 5  BY <2>1, <2>4
  <2>6. QED  BY <1>1, <2>2, <2>5
<1>4. CASE ends = {}
  <2>1. ValueEnd(boundary) = Max(others)  BY <1>4 DEF ValueEnd
  <2>2. \A k \in others : k \in Int /\ k <= Len(Buf)
    <3>1. SUFFICES ASSUME NEW k \in Dashes  PROVE k + 4 \in Int /\ k + 4 <= Len(Buf)
      BY <1>1
    <3>2. k \in 0 .. Len(Buf) - 5  BY <1>2
    <3>3. QED  BY <1>1, <3>2
  <2>3. 0 \in others  OBVIOUS
  <2>. HIDE DEF others
  <2>4. others \in SUBSET Int /\ others # {}  BY <2>2, <2>3
  <2>5. Max(others) \in others
    <3>1. Len(Buf) \in Int /\ \A k \in others : k <= Len(Buf)  BY <1>1, <2>2
    <3>2. QED  BY <2>4, <3>1, LargestThere
  <2>6. Max(others) >= 0
    <3>1. Len(Buf) \in Int /\ \A k \in others : k <= Len(Buf)  BY <1>1, <2>2
    <3>2. \A k \in others : k <= Max(others)  BY <2>4, <3>1, LargestThere
    <3>3. QED  BY <2>3, <3>2
  <2>7. QED  BY <1>1, <2>1, <2>2, <2>5, <2>6
<1>5. QED  BY <1>3, <1>4

-----------------------------------------------------------------------------
(* How an iteration can end.                                               *)
LEMMA FailTurn ==
  ASSUME Buffered, Fail
  PROVE  Turn
<1>1. Fields(pp') /\ pp'.buf = pp.buf
  BY DEF Fail, Buffered, Fields, PostFields
<1>2. post_data' = <<>> /\ changed' = FALSE /\ call' = "no"
  BY DEF Fail, Return
<1>3. QED  BY <1>1, <1>2, TextsMade DEF Turn, Buffered

LEMMA WaitTurn ==
  ASSUME Buffered, NEW q, Fields(q), Wait(q)
  PROVE  Turn
<1>1. CASE Moved < Len(post_data)
  BY <1>1, FailTurn DEF Wait
<1>2. CASE ~(Moved < Len(post_data))
  <2>1. pp' = [q EXCEPT !.buf = Buf] /\ post_data' = <<>> /\ changed' = FALSE /\ call' = "yes"
    BY <1>2 DEF Wait, Return
  <2>2. Fields(pp') /\ pp'.buf = Buf
    BY <2>1 DEF Fields, PostFields
  <2>3. Buf \in Seq(Symbols) /\ Len(Buf) <= buffer_size
    BY Moving
  <2>4. QED  BY <2>1, <2>2, <2>3, TextsMade DEF Turn, Buffered
<1>3. QED  BY <1>1, <1>2

LEMMA RankNumber == \A state : Rank(state) \in 0 .. 4
  BY DEF Rank

LEMMA ConsumeTurn ==
  ASSUME Buffered, Multipart, NEW q, Fields(q), NEW n \in 0 .. Len(Buf), NEW again \in BOOLEAN,
         Consume(q, n, again),
         \/ n > 0
         \/ again /\ Rank(q.state) < Rank(pp.state)
         \/ ~again /\ q.state = pp.state
  PROVE  Turn
<1>1. /\ pp' = [q EXCEPT !.buf = Rest(Buf, n)] /\ post_data' = Rest(post_data, Moved)
      /\ changed' = (again \/ n > 0) /\ call' = call
  BY DEF Consume
<1>2. Len(Buf) \in Nat /\ n \in Nat /\ Len(pp.buf) \in Nat /\ Len(post_data) \in Nat
  BY Moving DEF Buffered
<1>3. Rest(Buf, n) \in Seq(Symbols) /\ Len(Rest(Buf, n)) = Len(Buf) - n
  <2>1. Buf \in Seq(Symbols) /\ n <= Len(Buf)  BY <1>2, Moving
  <2>2. QED  BY <1>2, <2>1, TakeRest
<1>4. Fields(pp') /\ pp'.buf = Rest(Buf, n) /\ pp'.state = q.state
  BY <1>1 DEF Fields, PostFields
<1>5. Buffered'
  <2>1. /\ Rest(post_data, Moved) \in Seq(Symbols) /\ changed' \in BOOLEAN
        /\ Len(Buf) <= buffer_size /\ buffer_size \in Nat
    BY <1>1, Moving, PostProcessorAssumption
  <2>2. Len(pp'.buf) <= buffer_size
    BY <1>2, <1>3, <1>4, <2>1
  <2>3. QED  BY <1>1, <1>3, <1>4, <2>1, <2>2 DEF Buffered
<1>6. encoding = "multipart" /\ encoding' = encoding
  BY DEF Multipart
<1>7. Left' = Left - n
  <2>1. Left = Len(post_data) + Len(pp.buf) /\ Left' = Len(post_data') + Len(pp'.buf)
    BY <1>6 DEF Left
  <2>2. /\ Len(post_data') = Len(post_data) - Moved /\ Len(pp'.buf) = Len(Buf) - n
        /\ Len(Buf) = Len(pp.buf) + Moved /\ Moved \in 0 .. Len(post_data)
    BY <1>1, <1>3, <1>4, Moving
  <2> DEFINE m == Moved
  <2>3. m \in Nat  BY <1>2, <2>2
  <2>. HIDE DEF m
  <2>4. Len(post_data') = Len(post_data) - m /\ Len(Buf) = Len(pp.buf) + m
    BY <2>2 DEF m
  <2>5. QED  BY <1>2, <2>1, <2>2, <2>3, <2>4
<1>8. Left \in Nat
  BY <1>2, <1>6 DEF Left
<1>9. CASE n > 0
  <2>1. Left' < Left  BY <1>7, <1>8, <1>9, <1>2
  <2>2. QED  BY <1>5, <2>1 DEF Turn, Descends
<1>10. CASE n = 0 /\ again /\ Rank(q.state) < Rank(pp.state)
  BY <1>4, <1>5, <1>7, <1>8, <1>10 DEF Turn, Descends
<1>11. CASE n = 0 /\ ~again /\ q.state = pp.state
  <2>1. Len(post_data') = Len(post_data) - Moved /\ ~changed'
    BY <1>1, <1>11, Moving
  <2>2. Moved = 0 => changed
    BY DEF Multipart
  <2>3. \/ Len(post_data') < Len(post_data)
        \/ Len(post_data') = Len(post_data) /\ changed /\ ~changed'
    BY <1>2, <2>1, <2>2, Moving
  <2>4. Rank(pp'.state) = Rank(pp.state)  BY <1>4, <1>11
  <2>5. QED  BY <1>5, <1>7, <1>8, <1>11, <2>3, <2>4 DEF Turn, Descends
<1>12. QED  BY <1>2, <1>9, <1>10, <1>11

(* There is something in the buffer of an iteration.                       *)
LEMMA SomethingThere ==
  ASSUME Buffered, Multipart
  PROVE  Len(Buf) > 0 /\ Buf # <<>>
<1>1. buffer_size > 0 /\ buffer_size \in Nat
  BY PostProcessorAssumption
<1>2. Len(pp.buf) \in Nat /\ Len(post_data) \in Nat
  BY DEF Buffered
<1>3. post_data # <<>> => Len(post_data) > 0
  BY <1>2, EmptySeq DEF Buffered
<1>4. pp.buf # <<>> => Len(pp.buf) > 0
  BY <1>2, EmptySeq DEF Buffered
<1>5. Len(Buf) > 0
  BY <1>1, <1>2, <1>3, <1>4, Moving DEF Multipart
<1>6. QED  BY <1>5, EmptySeq

LEMMA BoundaryInside ==
  ASSUME Buffered, NEW boundary \in Seq(Symbols), AtBoundary(boundary)
  PROVE  2 + Len(boundary) \in 1 .. Len(Buf)
<1>1. <<"-", "-">> \in Seq(Symbols) /\ Len(<<"-", "-">>) = 2
  BY TextsMade
<1>2. Len(<<"-", "-">> \o boundary) = 2 + Len(boundary) /\ Len(boundary) \in Nat
  BY <1>1, ConcatProperties
<1>3. 1 + Len(<<"-", "-">> \o boundary) - 1 <= Len(Buf)
  BY DEF AtBoundary, StartsAt
<1>4. QED  BY <1>2, <1>3, Moving

LEMMA FoundTurn ==
  ASSUME Buffered, Multipart, NEW boundary \in Seq(Symbols), AtBoundary(boundary),
         NEW next, NEW dash, Found(boundary, next, dash)
  PROVE  Turn
<1> DEFINE q == [pp EXCEPT !.skip_rn = "Dash", !.state = next, !.dash_state = dash]
<1>1. Consume(q, 2 + Len(boundary), FALSE)
  BY DEF Found
<1>2. Fields(q)
  BY DEF Buffered, Fields, PostFields
<1> DEFINE n == 2 + Len(boundary)
<1>3. n \in 0 .. Len(Buf) /\ n > 0
  <2>1. n \in 1 .. Len(Buf)  BY BoundaryInside
  <2>2. Len(Buf) \in Nat  BY Moving
  <2>3. QED  BY <2>1, <2>2
<1>. HIDE DEF q, n
<1>4. Consume(q, n, FALSE)  BY <1>1 DEF n
<1>5. QED  BY <1>2, <1>3, <1>4, ConsumeTurn

-----------------------------------------------------------------------------
(* The loop of a multipart form.                                           *)
LEMMA SkipRNTurn ==
  ASSUME Buffered, SkipRN
  PROVE  Turn
<1>1. Multipart
  BY DEF SkipRN
<1>2. Len(Buf) > 0 /\ Len(Buf) \in Nat
  BY <1>1, SomethingThere, Moving
<1>3. ASSUME NEW skip, NEW n \in 1 .. Len(Buf), Consume([pp EXCEPT !.skip_rn = skip], n, FALSE)
      PROVE  Turn
  <2>1. Fields([pp EXCEPT !.skip_rn = skip])
    BY DEF Buffered, Fields, PostFields
  <2>2. n \in 0 .. Len(Buf) /\ n > 0  OBVIOUS
  <2>3. QED  BY <1>1, <1>3, <2>1, <2>2, ConsumeTurn
<1>4. ASSUME Consume([pp EXCEPT !.skip_rn = "Full", !.state = pp.dash_state], 1, FALSE)
      PROVE  Turn
  <2> DEFINE q == [pp EXCEPT !.skip_rn = "Full", !.state = pp.dash_state]
             n == 1
  <2>1. Fields(q)
    BY DEF Buffered, Fields, PostFields
  <2>2. n \in 0 .. Len(Buf) /\ n > 0  BY <1>2
  <2>3. Consume(q, n, FALSE)  BY <1>4
  <2>. HIDE DEF q, n
  <2>4. QED  BY <1>1, <2>1, <2>2, <2>3, ConsumeTurn
<1>5. StartsAt(Buf, 1, <<"r", "n">>) => 2 \in 1 .. Len(Buf)
  BY <1>2 DEF StartsAt
<1>6. 1 \in 1 .. Len(Buf)
  BY <1>2
<1>7. \/ Fail
      \/ Consume([pp EXCEPT !.skip_rn = "Full", !.state = pp.dash_state], 1, FALSE)
      \/ \E skip \in {"Dash2", "Inactive", "OptN"} : Consume([pp EXCEPT !.skip_rn = skip], 1, FALSE)
      \/ /\ StartsAt(Buf, 1, <<"r", "n">>)
         /\ Consume([pp EXCEPT !.skip_rn = "Inactive"], 2, FALSE)
  BY Zenon DEF SkipRN
<1>8. QED  BY <1>3, <1>4, <1>5, <1>6, <1>7, FailTurn

LEMMA FirstBoundaryTurn ==
  ASSUME Buffered, FirstBoundary
  PROVE  Turn
<1>1. Multipart
  BY DEF FirstBoundary, State
<1>2. Len(Buf) > 0 /\ Len(Buf) \in Nat /\ Buf \in Seq(Symbols) /\ Buf # <<>>
  BY <1>1, SomethingThere, Moving
<1>3. Fields(pp)
  BY DEF Buffered
<1>4. CASE AtBoundary(Boundary)
  BY <1>1, <1>4, FoundTurn, BoundariesAre DEF FirstBoundary
<1>5. CASE ~AtBoundary(Boundary) /\ TooShort(Boundary)
  <2>1. Consume(pp, 0, FALSE)  BY <1>5 DEF FirstBoundary
  <2>2. 0 \in 0 .. Len(Buf)  BY <1>2
  <2>3. QED  BY <1>1, <1>3, <2>1, <2>2, ConsumeTurn
<1>6. CASE ~AtBoundary(Boundary) /\ ~TooShort(Boundary)
  <2> DEFINE n == IF Buf[1] = "-" THEN 1 ELSE Before(Buf, {"-"})
  <2>1. Consume(pp, n, FALSE)  BY <1>6 DEF FirstBoundary
  <2>2. n \in 0 .. Len(Buf)
    BY <1>2, BeforeInside
  <2>. HIDE DEF n
  <2>3. QED  BY <1>1, <1>3, <2>1, <2>2, ConsumeTurn
<1>7. QED  BY <1>4, <1>5, <1>6

LEMMA FindBoundaryTurn ==
  ASSUME Buffered, NEW state, NEW boundary \in Seq(Symbols), NEW next, NEW dash,
         FindBoundary(state, boundary, next, dash)
  PROVE  Turn
<1>1. Multipart /\ Fields(pp)
  BY DEF FindBoundary, State, Buffered
<1>2. \/ AtBoundary(boundary) /\ Found(boundary, next, dash)
      \/ Wait(pp)
      \/ Fail
  BY DEF FindBoundary
<1>3. QED  BY <1>1, <1>2, FoundTurn, WaitTurn, FailTurn

LEMMA GivenBoundary ==
  ASSUME Buffered, NEW line \in Seq(Symbols), NEW field, field.boundary \in Seq(Symbols)
  PROVE  Given(field, ContentType, line, NoType).boundary \in Seq(Symbols)
<1> DEFINE h == {k \in DOMAIN line : line[k] \in DOMAIN ContentType}
<1>1. h \in SUBSET Nat
  BY LenProperties
<1>2. CASE field # NoType \/ h = {}
  BY <1>2 DEF Given
<1>3. CASE field = NoType /\ h # {}
  <2>1. Given(field, ContentType, line, NoType) = ContentType[line[Least(h)]]
    BY <1>3 DEF Given
  <2>2. Least(h) \in h
    BY <1>1, <1>3, LeastThere
  <2>3. QED  BY <2>1, <2>2, BoundariesAre
<1>4. QED  BY <1>2, <1>3

LEMMA HeadersTurn ==
  ASSUME Buffered, Multipart, NEW q, Fields(q), NEW next, Headers(q, next),
         q.state = pp.state, Rank(next) < Rank(pp.state)
  PROVE  Turn
<1> DEFINE newline == Before(Buf, {"r", "n"})
           line == Take(Buf, newline)
<1>1. newline \in 0 .. Len(Buf) /\ Len(Buf) \in Nat /\ Buf \in Seq(Symbols)
  BY Moving, BeforeInside
<1>2. line \in Seq(Symbols)
  <2>1. newline \in Nat /\ newline <= Len(Buf)  BY <1>1
  <2>. HIDE DEF newline
  <2>2. QED  BY <1>1, <2>1, TakeRest
<1> DEFINE empty == [q EXCEPT !.skip_rn = "Full", !.state = next]
           read  == [q EXCEPT
                       !.skip_rn = IF Buf[newline + 1] = "r" THEN "OptN" ELSE @,
                       !.name     = Given(@, Disposition, line, Null),
                       !.type     = Given(@, ContentType, line, NoType),
                       !.transfer = Given(@, TransferEncoding, line, "none")]
<1>3. CASE newline = buffer_size
  <2>1. buffer_size # 0  BY PostProcessorAssumption
  <2>2. QED  BY <1>3, <2>1, FailTurn DEF Headers
<1>4. CASE newline # buffer_size /\ newline = Len(Buf)
  BY <1>4, WaitTurn DEF Headers
<1>5. CASE newline # Len(Buf) /\ newline # buffer_size /\ newline = 0
  <2>1. Consume(empty, 0, TRUE)
    BY <1>5 DEF Headers
  <2>2. Fields(empty) /\ empty.state = next
    BY DEF Fields, PostFields
  <2>. HIDE DEF empty
  <2>3. 0 \in 0 .. Len(Buf)  BY <1>1
  <2>4. QED  BY <2>1, <2>2, <2>3, ConsumeTurn
<1>6. CASE newline # Len(Buf) /\ newline # buffer_size /\ newline # 0
  <2>1. Consume(read, newline + 1, TRUE)
    BY <1>6 DEF Headers
  <2>2. Given(q.type, ContentType, line, NoType).boundary \in Seq(Symbols)
    BY <1>2, GivenBoundary DEF Fields
  <2>3. Fields(read)
    <3>. HIDE DEF line, newline
    <3>1. QED  BY <2>2 DEF Fields, PostFields
  <2>4. newline + 1 \in 0 .. Len(Buf) /\ newline + 1 > 0
    BY <1>1, <1>6
  <2>. HIDE DEF read, newline, line
  <2>5. QED  BY <2>1, <2>3, <2>4, ConsumeTurn
<1>7. QED  BY <1>3, <1>4, <1>5, <1>6

LEMMA ValueTurn ==
  ASSUME Buffered, Multipart, NEW boundary, NEW next, NEW dash, Value(boundary, next, dash)
  PROVE  Turn
<1> DEFINE newline == ValueEnd(boundary)
           q == [pp EXCEPT !.must_ikvi = FALSE, !.value_offset = @ + newline]
           after == [q EXCEPT !.skip_rn = "Dash", !.state = next, !.dash_state = dash]
<1>1. newline \in 0 .. Len(Buf) /\ Len(Buf) \in Nat
  BY EndInside, Moving
<1>2. Fields(q) /\ q.state = pp.state /\ Fields(after)
  BY DEF Buffered, Fields, PostFields
<1>3. \/ Fail
      \/ Checkable(newline) /\ Consume(after, newline + 4 + Len(Boundary), FALSE)
      \/ Consume(q, newline, FALSE)
  BY DEF Value
<1>. HIDE DEF newline, q, after
<1>4. ASSUME Checkable(newline), Consume(after, newline + 4 + Len(Boundary), FALSE)
      PROVE  Turn
  <2>1. Len(Boundary) \in Nat
    BY PostProcessorAssumption
  <2>2. newline + 4 + Len(Boundary) \in 0 .. Len(Buf) /\ newline + 4 + Len(Boundary) > 0
    BY <1>1, <1>4, <2>1 DEF Checkable
  <2>3. QED  BY <1>2, <1>4, <2>2, ConsumeTurn
<1>5. ASSUME Consume(q, newline, FALSE)
      PROVE  Turn
  BY <1>1, <1>2, <1>5, ConsumeTurn
<1>6. QED  BY <1>3, <1>4, <1>5, FailTurn

LEMMA MarkTurn ==
  ASSUME Buffered,
         PerformCheckMultipart \/ PerformCleanup \/ NestedPerformMarking \/ NestedPerformCleanup
  PROVE  Turn
<1>1. ASSUME Multipart, NEW q, Fields(q), Rank(q.state) < Rank(pp.state), Consume(q, 0, TRUE)
      PROVE  Turn
  <2>1. 0 \in 0 .. Len(Buf)  BY Moving
  <2>2. QED  BY <1>1, <2>1, ConsumeTurn
<1>2. CASE PerformCheckMultipart
  <2> DEFINE plain  == [pp EXCEPT !.state = "ProcessValueToBoundary", !.value_offset = 0]
             nested == [pp EXCEPT !.nested = pp.type.boundary, !.type = NoType,
                                  !.state = "Nested_Init"]
  <2>1. Multipart /\ pp.state = "PerformCheckMultipart"
    BY <1>2 DEF PerformCheckMultipart, State
  <2>2. Consume(plain, 0, TRUE) \/ Consume(nested, 0, TRUE) \/ Fail
    BY <1>2, Zenon DEF PerformCheckMultipart
  <2>3. Fields(plain) /\ plain.state = "ProcessValueToBoundary"
    BY DEF Buffered, Fields, PostFields
  <2>4. Fields(nested) /\ nested.state = "Nested_Init"
    <3>1. NoType.boundary \in Seq(Symbols)  BY TextsMade DEF NoType, Null
    <3>2. QED  BY <3>1 DEF Buffered, Fields, PostFields
  <2>. HIDE DEF plain, nested
  <2>5. Rank(plain.state) < Rank(pp.state) /\ Rank(nested.state) < Rank(pp.state)
    BY <2>1, <2>3, <2>4 DEF Rank
  <2>6. QED  BY <1>1, <2>1, <2>2, <2>3, <2>4, <2>5, FailTurn
<1>3. CASE PerformCleanup
  <2> DEFINE q == [FreeUnmarked(pp, {}) EXCEPT !.nested = Null, !.state = "ProcessEntryHeaders"]
  <2>1. Multipart /\ pp.state = "PerformCleanup" /\ Consume(q, 0, TRUE)
    BY <1>3 DEF PerformCleanup, State
  <2>2. Fields(q) /\ q.state = "ProcessEntryHeaders"
    BY TextsMade DEF Buffered, Fields, PostFields, Null, NoType, FreeUnmarked
  <2>. HIDE DEF q
  <2>3. Rank(q.state) < Rank(pp.state)  BY <2>1, <2>2 DEF Rank
  <2>4. QED  BY <1>1, <2>1, <2>2, <2>3
<1>4. CASE NestedPerformMarking
  <2> DEFINE have == {field \in {"name", "transfer"} :
                        IF field = "name" THEN pp.name # Null ELSE pp.transfer # "none"}
             q == [pp EXCEPT !.have = have, !.state = "Nested_ProcessEntryHeaders"]
  <2>1. Multipart /\ pp.state = "Nested_PerformMarking" /\ Consume(q, 0, TRUE)
    BY <1>4 DEF NestedPerformMarking, State
  <2>2. Fields(q) /\ q.state = "Nested_ProcessEntryHeaders"
    <3>. HIDE DEF have
    <3>1. QED  BY DEF Buffered, Fields, PostFields
  <2>. HIDE DEF q
  <2>3. Rank(q.state) < Rank(pp.state)  BY <2>1, <2>2 DEF Rank
  <2>4. QED  BY <1>1, <2>1, <2>2, <2>3
<1>5. CASE NestedPerformCleanup
  <2> DEFINE q == [FreeUnmarked(pp, pp.have) EXCEPT !.state = "Nested_ProcessEntryHeaders"]
  <2>1. Multipart /\ pp.state = "Nested_PerformCleanup" /\ Consume(q, 0, TRUE)
    BY <1>5 DEF NestedPerformCleanup, State
  <2>2. Fields(q) /\ q.state = "Nested_ProcessEntryHeaders"
    BY TextsMade DEF Buffered, Fields, PostFields, Null, NoType, FreeUnmarked
  <2>. HIDE DEF q
  <2>3. Rank(q.state) < Rank(pp.state)  BY <2>1, <2>2 DEF Rank
  <2>4. QED  BY <1>1, <2>1, <2>2, <2>3
<1>6. QED  BY <1>2, <1>3, <1>4, <1>5

-----------------------------------------------------------------------------
(* The loop of a form in the encoding of URLs.                             *)
LEMMA IncompleteShort ==
  ASSUME NEW s \in Seq(Symbols)
  PROVE  Incomplete(s) \in 0 .. 2 /\ Incomplete(s) <= Len(s)
  BY DEF Incomplete

LEMMA ReadKeyTurn ==
  ASSUME Buffered, ReadKey
  PROVE  Turn
<1> DEFINE equals == Before(post_data, {"="})
           key == pp.buf \o Take(post_data, equals)
<1>1. /\ encoding = "urlencoded" /\ encoding' = encoding /\ post_data # <<>>
      /\ post_data \in Seq(Symbols) /\ Len(post_data) \in Nat /\ Len(post_data) > 0
  BY EmptySeq DEF ReadKey, UrlEncoded, Buffered
<1>2. equals \in 0 .. Len(post_data)
  BY <1>1, BeforeInside
<1>. HIDE DEF equals
<1>3. Take(post_data, equals) \in Seq(Symbols)
  BY <1>1, <1>2, TakeRest
<1>4. key \in Seq(Symbols)
  BY <1>3, ConcatProperties DEF Buffered
<1>5. /\ Rest(post_data, equals + 1) \in Seq(Symbols)
      /\ Len(Rest(post_data, equals + 1)) < Len(post_data)
  <2> DEFINE n == equals + 1
  <2>1. n \in Nat /\ n > 0  BY <1>1, <1>2
  <2>. HIDE DEF n
  <2>2. /\ Rest(post_data, n) \in Seq(Symbols)
        /\ Len(Rest(post_data, n)) = IF n <= Len(post_data) THEN Len(post_data) - n ELSE 0
    BY <1>1, <2>1, TakeRest
  <2>3. Len(Rest(post_data, n)) < Len(post_data)  BY <1>1, <2>1, <2>2
  <2>4. QED  BY <2>2, <2>3 DEF n
<1>6. CASE ~FitsBuffer(key)
  BY <1>6, FailTurn DEF ReadKey, equals
<1>7. CASE FitsBuffer(key)
  <2>1. /\ post_data' = Rest(post_data, equals + 1) /\ changed' = changed
        /\ pp' = IF equals = Len(post_data) THEN [pp EXCEPT !.buf = key]
                 ELSE [pp EXCEPT !.buf = <<>>, !.key = Unescape(key),
                                 !.state = "ProcessValue", !.value_offset = 0]
    BY <1>7 DEF ReadKey, equals
  <2>2. Fields(pp') /\ pp'.buf \in {key, <<>>}
    <3>. HIDE DEF key
    <3>1. QED  BY <2>1 DEF Buffered, Fields, PostFields
  <2>3. Len(pp'.buf) <= buffer_size /\ pp'.buf \in Seq(Symbols)
    <3>1. Len(key) <= buffer_size  BY <1>7 DEF FitsBuffer
    <3>2. buffer_size \in Nat  BY PostProcessorAssumption
    <3>. HIDE DEF key
    <3>3. CASE pp'.buf = key  BY <1>4, <3>1, <3>3
    <3>4. CASE pp'.buf = <<>>
      <4>1. Len(<<>>) <= buffer_size  BY <3>2, TextsMade
      <4>2. QED  BY <3>4, <4>1, TextsMade
    <3>5. QED  BY <2>2, <3>3, <3>4
  <2>4. Buffered'
    BY <1>5, <2>1, <2>2, <2>3 DEF Buffered
  <2>5. Left' < Left
    BY <1>1, <1>5, <2>1 DEF Left
  <2>6. QED  BY <2>4, <2>5 DEF Turn, Descends
<1>8. QED  BY <1>6, <1>7

LEMMA ReadValueTurn ==
  ASSUME Buffered, ReadValue
  PROVE  Turn
<1> DEFINE before == Before(post_data, Separators)
           amper == Min({XBUF_SIZE, before})
           delta == Min({amper, XBUF_SIZE - Len(pp.xbuf)})
           txt   == pp.xbuf \o Take(post_data, delta)
           xoff  == Len(txt) - Incomplete(txt)
           rest  == Rest(post_data, delta)
           value == Unescape(Take(txt, xoff))
           ended == rest # <<>> /\ rest[1] \in Separators
           after == IF ~ended THEN "ProcessValue"
                    ELSE IF rest[1] = "&" THEN "Init" ELSE "ExpectNewLine"
           q     == [pp EXCEPT !.xbuf = Rest(txt, xoff)]
<1>1. /\ encoding = "urlencoded" /\ encoding' = encoding /\ post_data # <<>>
      /\ post_data \in Seq(Symbols) /\ Len(post_data) \in Nat /\ Len(post_data) > 0
      /\ pp.state = "ProcessValue"
  BY EmptySeq DEF ReadValue, UrlEncoded, Buffered
<1>2. XBUF_SIZE \in Nat /\ XBUF_SIZE >= 3
  BY PostProcessorAssumption
<1>3. pp.xbuf \in Seq(Symbols) /\ Len(pp.xbuf) \in Nat /\ Len(pp.xbuf) <= 2
  BY DEF Buffered, Fields
<1>4. \/ /\ xoff = 0 /\ rest = <<>>
         /\ pp' = q /\ post_data' = <<>> /\ changed' = changed
      \/ /\ pp' = [q EXCEPT !.state = after, !.value_offset = @ + Len(value), !.must_ikvi = FALSE]
         /\ post_data' = (IF after = "Init" THEN Rest(rest, 1) ELSE rest) /\ changed' = changed
  BY Zenon DEF ReadValue
<1>. HIDE DEF value
<1>5. /\ before \in 0 .. Len(post_data)
      /\ before = 0 => post_data[1] \in Separators
  BY <1>1, BeforeInside
<1>. HIDE DEF before
<1>6. amper \in 0 .. Len(post_data) /\ (amper = 0 => before = 0)
  BY <1>1, <1>2, <1>5, SmallerOfTwo
<1>. HIDE DEF amper
<1>7. delta \in 0 .. Len(post_data) /\ (delta = 0 => amper = 0)
  <2> DEFINE room == XBUF_SIZE - Len(pp.xbuf)
  <2>1. room \in Nat /\ room > 0 /\ amper \in Nat  BY <1>1, <1>2, <1>3, <1>6
  <2>. HIDE DEF room
  <2>2. delta = IF amper <= room THEN amper ELSE room
    BY <2>1, SmallerOfTwo DEF room
  <2>3. QED  BY <1>1, <1>6, <2>1, <2>2
<1>. HIDE DEF delta
<1>8. Take(post_data, delta) \in Seq(Symbols)
  BY <1>1, <1>7, TakeRest
<1>9. rest \in Seq(Symbols) /\ Len(rest) = Len(post_data) - delta
  BY <1>1, <1>7, TakeRest
<1>10. delta = 0 => rest = post_data
  BY <1>1 DEF Rest
<1>. HIDE DEF rest
<1>11. txt \in Seq(Symbols)
  BY <1>3, <1>8, ConcatProperties
<1>. HIDE DEF txt
<1>12. xoff \in Nat /\ Len(txt) \in Nat /\ xoff <= Len(txt) /\ Len(txt) - xoff <= 2
  BY <1>11, IncompleteShort
<1>. HIDE DEF xoff
<1>13. Rest(txt, xoff) \in Seq(Symbols) /\ Len(Rest(txt, xoff)) <= 2
  BY <1>11, <1>12, TakeRest
<1>14. Rest(rest, 1) \in Seq(Symbols) /\ (rest # <<>> => Len(Rest(rest, 1)) < Len(rest))
       /\ Len(Rest(rest, 1)) \in Nat /\ Len(rest) \in Nat
  <2>1. /\ Rest(rest, 1) \in Seq(Symbols)
        /\ Len(Rest(rest, 1)) = IF 1 <= Len(rest) THEN Len(rest) - 1 ELSE 0
    BY <1>9, TakeRest
  <2>2. Len(rest) \in Nat /\ (rest # <<>> => Len(rest) > 0)  BY <1>9, EmptySeq
  <2>3. QED  BY <2>1, <2>2
<1>15. Fields(pp') /\ pp'.buf = pp.buf /\ pp'.state \in {pp.state, after}
  BY <1>4, <1>13 DEF Buffered, Fields, PostFields
<1>16. post_data' \in Seq(Symbols) /\ changed' = changed
  BY <1>4, <1>9, <1>14
<1>17. Buffered'
  BY <1>15, <1>16 DEF Buffered
<1>18. Left = Len(post_data) /\ Left' = Len(post_data')
  BY <1>1 DEF Left
<1>19. CASE post_data' = <<>>
  <2>1. Left' < Left  BY <1>1, <1>18, <1>19
  <2>2. QED  BY <1>17, <2>1 DEF Turn, Descends
<1>20. CASE /\ pp' = [q EXCEPT !.state = after, !.value_offset = @ + Len(value),
                               !.must_ikvi = FALSE]
            /\ post_data' = (IF after = "Init" THEN Rest(rest, 1) ELSE rest)
  <2>1. CASE delta > 0
    <3>1. Len(post_data') < Len(post_data)
      <4>1. CASE after = "Init"
        <5>1. rest # <<>>  BY <4>1
        <5>2. post_data' = Rest(rest, 1)  BY <1>20, <4>1
        <5>3. QED  BY <1>1, <1>7, <1>9, <1>14, <2>1, <5>1, <5>2
      <4>2. CASE after # "Init"
        <5>1. post_data' = rest  BY <1>20, <4>2
        <5>2. QED  BY <1>1, <1>7, <1>9, <2>1, <5>1
      <4>3. QED  BY <4>1, <4>2
    <3>2. QED  BY <1>17, <1>18, <3>1 DEF Turn, Descends
  <2>2. CASE delta = 0
    <3>1. rest = post_data /\ ended
      BY <1>1, <1>5, <1>6, <1>7, <1>10, <2>2
    <3>2. CASE after = "Init"
      <4>1. post_data' = Rest(rest, 1)  BY <1>20, <3>2
      <4>2. Len(post_data') < Len(post_data)  BY <1>1, <1>14, <3>1, <4>1
      <4>3. QED  BY <1>17, <1>18, <4>2 DEF Turn, Descends
    <3>3. CASE after = "ExpectNewLine"
      <4>1. post_data' = post_data  BY <1>20, <3>1, <3>3
      <4>2. pp'.state = "ExpectNewLine"
        BY <1>20, <3>3 DEF Buffered, Fields, PostFields
      <4>3. Rank(pp'.state) < Rank(pp.state)
        BY <1>1, <4>2 DEF Rank
      <4>4. QED  BY <1>17, <1>18, <4>1, <4>3 DEF Turn, Descends
    <3>4. QED  BY <3>1, <3>2, <3>3
  <2>3. QED  BY <1>7, <2>1, <2>2
<1>21. QED  BY <1>4, <1>19, <1>20

LEMMA ExpectNewLineTurn ==
  ASSUME Buffered, ExpectNewLine
  PROVE  Turn
<1>1. post_data' = <<>> /\ changed' = FALSE /\ call' \in {"yes", "no"}
  BY DEF ExpectNewLine, Return
<1>2. pp' = [pp EXCEPT !.state = "Done"] \/ pp' = pp
  BY DEF ExpectNewLine
<1>3. Fields(pp') /\ pp'.buf = pp.buf
  BY <1>2 DEF Buffered, Fields, PostFields
<1>4. QED  BY <1>1, <1>3, TextsMade DEF Turn, Buffered

LEMMA EndsTurn ==
  ASSUME Buffered, UrlEncodedEnds \/ MultipartEnds
  PROVE  Turn
  BY DEF UrlEncodedEnds, MultipartEnds, Return, Turn, Buffered

(* A turn of either loop.                                                  *)
LEMMA PostStepTurn ==
  ASSUME Buffered, PostStep
  PROVE  Turn
<1>1. Boundary \in Seq(Symbols) /\ pp.nested \in Seq(Symbols) /\ Fields(pp)
  BY BoundariesAre DEF Buffered, Fields
<1>2. CASE ReadKey \/ ReadValue \/ ExpectNewLine \/ UrlEncodedEnds \/ MultipartEnds
  BY <1>2, ReadKeyTurn, ReadValueTurn, ExpectNewLineTurn, EndsTurn
<1>3. CASE UrlEncodedDone \/ MultipartDone
  BY <1>3, FailTurn DEF UrlEncodedDone, MultipartDone
<1>4. CASE SkipRN \/ FirstBoundary
  BY <1>4, SkipRNTurn, FirstBoundaryTurn
<1>5. CASE NextBoundary \/ NestedInit
  BY <1>1, <1>5, FindBoundaryTurn DEF NextBoundary, NestedInit
<1>6. CASE ProcessEntryHeaders
  <2> DEFINE q == [pp EXCEPT !.must_ikvi = TRUE]
  <2>1. Multipart /\ pp.state = "ProcessEntryHeaders" /\ Headers(q, "PerformCheckMultipart")
    BY <1>6 DEF ProcessEntryHeaders, State
  <2>2. Fields(q) /\ q.state = pp.state
    BY <1>1 DEF Fields, PostFields
  <2>. HIDE DEF q
  <2>3. Rank("PerformCheckMultipart") < Rank(pp.state)  BY <2>1 DEF Rank
  <2>4. QED  BY <2>1, <2>2, <2>3, HeadersTurn
<1>7. CASE NestedEntryHeaders
  <2> DEFINE q == [pp EXCEPT !.value_offset = 0]
  <2>1. /\ Multipart /\ pp.state = "Nested_ProcessEntryHeaders"
        /\ Headers(q, "Nested_ProcessValueToBoundary")
    BY <1>7 DEF NestedEntryHeaders, State
  <2>2. Fields(q) /\ q.state = pp.state
    BY <1>1 DEF Fields, PostFields
  <2>. HIDE DEF q
  <2>3. Rank("Nested_ProcessValueToBoundary") < Rank(pp.state)  BY <2>1 DEF Rank
  <2>4. QED  BY <2>1, <2>2, <2>3, HeadersTurn
<1>8. CASE PerformCheckMultipart \/ PerformCleanup \/ NestedPerformMarking \/ NestedPerformCleanup
  BY <1>8, MarkTurn
<1>9. CASE ProcessValueToBoundary \/ NestedValueToBoundary
  BY <1>9, ValueTurn DEF ProcessValueToBoundary, NestedValueToBoundary, State
<1>10. QED
  BY <1>2, <1>3, <1>4, <1>5, <1>6, <1>7, <1>8, <1>9 DEF PostStep

-----------------------------------------------------------------------------
FormBuffered == Buffered /\ text \in Seq(Symbols)

LEMMA FormStepBuffered ==
  ASSUME FormBuffered, [FormNext]_formVars
  PROVE  FormBuffered' /\ (call = "runs" /\ call' = "runs" /\ ~UNCHANGED formVars => Descends)
<1>1. CASE UNCHANGED formVars
  BY <1>1 DEF formVars, postVars, form_vars, FormBuffered, Buffered
<1>2. ASSUME NEW n \in Pieces
      PROVE  /\ Take(text, n) \in Seq(Symbols)
             /\ Rest(text, n) \in Seq(Symbols)
  <2>1. n \in Nat /\ n <= Len(text)  BY DEF Pieces, FormBuffered
  <2>2. QED  BY <2>1, TakeRest DEF FormBuffered
<1>3. CASE \E n \in Pieces : ProcessForm(n)
  <2>1. PICK n \in Pieces : ProcessForm(n)  BY <1>3
  <2>2. /\ post_data' = Take(text, n) /\ text' = Rest(text, n) /\ pp' = pp /\ changed' = TRUE
        /\ call = "idle"
    BY <2>1 DEF ProcessForm, Process
  <2>3. QED  BY <1>2, <2>2 DEF FormBuffered, Buffered
<1>4. CASE \E n \in Pieces : ReceiveOther(n)
  <2>1. PICK n \in Pieces : ReceiveOther(n)  BY <1>4
  <2>2. UNCHANGED <<pp, post_data, changed>> /\ text' = Rest(text, n) /\ call = "idle"
    BY <2>1 DEF ReceiveOther, postVars
  <2>3. QED  BY <1>2, <2>2 DEF FormBuffered, Buffered
<1>5. CASE Processed
  BY <1>5 DEF Processed, FormBuffered, Buffered
<1>6. CASE Delete
  <2>1. /\ text' = text /\ pp' = pp /\ call = "idle"
        /\ post_data' \in {<<"n">>, post_data} /\ changed' \in {TRUE, changed}
    BY <1>6 DEF Delete, Destroy, Process
  <2>2. <<"n">> \in Seq(Symbols)  BY TextsMade
  <2>3. QED  BY <2>1, <2>2 DEF FormBuffered, Buffered
<1>7. CASE HandleForm
  <2>1. UNCHANGED <<pp, post_data, changed, text, call>> /\ call # "runs"
    BY <1>7 DEF HandleForm, postVars
  <2>2. QED  BY <2>1 DEF FormBuffered, Buffered
<1>8. CASE Served
  <2>1. UNCHANGED formVars  BY <1>8 DEF Served
  <2>2. QED  BY <1>1, <2>1
<1>9. CASE Run
  <2>1. PostStep /\ text' = text  BY <1>9 DEF Run, form_vars
  <2>2. Turn  BY <2>1, PostStepTurn DEF FormBuffered
  <2>3. QED  BY <2>1, <2>2 DEF Turn, FormBuffered
<1>10. QED
  BY <1>1, <1>3, <1>4, <1>5, <1>6, <1>7, <1>8, <1>9 DEF FormNext

LEMMA InitBuffered == FormInit => FormBuffered
<1>1. SUFFICES ASSUME FormInit  PROVE FormBuffered
  OBVIOUS
<1>2. /\ pp = [state |-> "Init", buf |-> <<>>, xbuf |-> <<>>, key |-> <<>>, value_offset |-> 0,
               skip_rn |-> "Inactive", dash_state |-> "Error", must_ikvi |-> FALSE,
               have |-> {}, name |-> Null, type |-> NoType, transfer |-> "none", nested |-> Null]
      /\ post_data = <<>> /\ changed = FALSE /\ text = sent.text /\ sent \in SentForms
  BY <1>1 DEF FormInit, PostInit
<1>3. Fields(pp) /\ pp.buf = <<>>
  <2>1. NoType.boundary = <<>> /\ Null = <<>>
    BY DEF NoType, Null
  <2>2. /\ pp = [f \in PostFields |-> pp[f]] /\ pp.buf = <<>> /\ pp.xbuf = <<>>
        /\ pp.type = NoType /\ pp.nested = Null
    BY <1>2 DEF PostFields
  <2>3. pp.xbuf \in Seq(Symbols) /\ Len(pp.xbuf) <= 2
    <3>1. pp.xbuf = <<>>  BY <2>2
    <3>2. pp.xbuf \in Seq(Symbols)  BY <3>1, TextsMade
    <3>3. Len(pp.xbuf) = 0  BY <3>1, TextsMade
    <3>4. QED  BY <3>2, <3>3
  <2>4. pp.type.boundary \in Seq(Symbols) /\ pp.nested \in Seq(Symbols)
    BY <2>1, <2>2, TextsMade
  <2>5. QED  BY <2>2, <2>3, <2>4 DEF Fields
<1>4. buffer_size \in Nat /\ Len(pp.buf) <= buffer_size
  BY <1>3, PostProcessorAssumption, TextsMade
<1>5. text \in Seq(Symbols)
  BY <1>2, SentAssumption, TextsSent
<1>6. QED  BY <1>2, <1>3, <1>4, <1>5, TextsMade DEF FormBuffered, Buffered

LEMMA AlwaysBuffered == FormSpec => []FormBuffered
<1>1. FormBuffered /\ [FormNext]_formVars => FormBuffered'
  BY FormStepBuffered
<1> QED BY <1>1, InitBuffered, PTL DEF FormSpec

(***************************************************************************)
(* Whatever is sent, and however it is cut into pieces, a key or a part    *)
(* never exceeds the buffer that was allocated for it, and never more than *)
(* two symbols of a value wait in xbuf for the rest of their escape.       *)
(***************************************************************************)
THEOREM BuffersBounded == FormSpec => [](Len(pp.buf) <= buffer_size /\ Len(pp.xbuf) <= 2)
<1>1. FormBuffered => Len(pp.buf) <= buffer_size /\ Len(pp.xbuf) <= 2
  BY DEF FormBuffered, Buffered, Fields
<1> QED BY <1>1, AlwaysBuffered, PTL

(* The measure of a call, in which every turn of its loops goes down, and  *)
(* in which nothing goes down for ever.                                    *)
Quad(a, b, c, d) == [i \in 1 .. 4 |-> CASE i = 1 -> a [] i = 2 -> b [] i = 3 -> c [] i = 4 -> d]
Measure == Quad(Left, Rank(pp.state), Len(post_data), IF changed THEN 1 ELSE 0)
Lower == LexProductOrdering(OpToRel(<, Nat), Nat, 4)

LEMMA LowerWellFounded == IsWellFoundedOn(Lower, [1 .. 4 -> Nat])
  BY NatLessThanWellFounded, WFLexProductOrdering DEF Lower

LEMMA QuadLower ==
  ASSUME NEW a \in Nat, NEW b \in Nat, NEW c \in Nat, NEW d \in Nat,
         NEW a2 \in Nat, NEW b2 \in Nat, NEW c2 \in Nat, NEW d2 \in Nat,
         \/ a2 < a
         \/ a2 = a /\ b2 < b
         \/ a2 = a /\ b2 = b /\ c2 < c
         \/ a2 = a /\ b2 = b /\ c2 = c /\ d2 < d
  PROVE  <<Quad(a2, b2, c2, d2), Quad(a, b, c, d)>> \in Lower
<1> DEFINE m == Quad(a, b, c, d)
           n == Quad(a2, b2, c2, d2)
<1>1. /\ m \in [1 .. 4 -> Nat] /\ n \in [1 .. 4 -> Nat]
      /\ m[1] = a /\ m[2] = b /\ m[3] = c /\ m[4] = d
      /\ n[1] = a2 /\ n[2] = b2 /\ n[3] = c2 /\ n[4] = d2
  BY DEF Quad
<1>. HIDE DEF m, n
<1>2. \E j \in 1 .. 4 : (\A i \in 1 .. j - 1 : n[i] = m[i]) /\ n[j] < m[j]
  <2>1. CASE a2 < a
    <3>1. (\A i \in 1 .. 1 - 1 : n[i] = m[i]) /\ n[1] < m[1]  BY <1>1, <2>1
    <3>2. QED  BY <3>1
  <2>2. CASE a2 = a /\ b2 < b
    <3>1. (\A i \in 1 .. 2 - 1 : n[i] = m[i]) /\ n[2] < m[2]  BY <1>1, <2>2
    <3>2. QED  BY <3>1
  <2>3. CASE a2 = a /\ b2 = b /\ c2 < c
    <3>1. (\A i \in 1 .. 3 - 1 : n[i] = m[i]) /\ n[3] < m[3]  BY <1>1, <2>3
    <3>2. QED  BY <3>1
  <2>4. CASE a2 = a /\ b2 = b /\ c2 = c /\ d2 < d
    <3>1. (\A i \in 1 .. 4 - 1 : n[i] = m[i]) /\ n[4] < m[4]  BY <1>1, <2>4
    <3>2. QED  BY <3>1
  <2>5. QED  BY <2>1, <2>2, <2>3, <2>4
<1>3. PICK j \in 1 .. 4 : (\A i \in 1 .. j - 1 : n[i] = m[i]) /\ n[j] < m[j]
  BY <1>2
<1>4. <<n[j], m[j]>> \in OpToRel(<, Nat)
  BY <1>1, <1>3 DEF OpToRel
<1>5. <<n, m>> \in Lower
  BY <1>1, <1>3, <1>4 DEF Lower, LexProductOrdering
<1>6. QED  BY <1>5 DEF m, n

(* Every turn of the loops of MHD_post_process makes progress, so that     *)
(* every call of it returns: an iteration after which it goes on is lower  *)
(* in an order in which nothing goes down for ever.                        *)
THEOREM TurnsProgress ==
  /\ IsWellFoundedOn(Lower, [1 .. 4 -> Nat])
  /\ FormSpec => [][call = "runs" /\ call' = "runs" => <<Measure', Measure>> \in Lower]_formVars
<1>1. ASSUME FormBuffered, FormBuffered', [FormNext]_formVars, ~UNCHANGED formVars,
             call = "runs", call' = "runs"
      PROVE  <<Measure', Measure>> \in Lower
  <2>1. Descends
    BY <1>1, FormStepBuffered
  <2>2. Left \in Nat /\ Len(post_data) \in Nat /\ changed \in BOOLEAN
    BY <1>1 DEF FormBuffered, Left, Buffered
  <2>3. Left' \in Nat /\ Len(post_data') \in Nat /\ changed' \in BOOLEAN
    BY <1>1 DEF FormBuffered, Left, Buffered
  <2>4. Rank(pp.state) \in Nat /\ Rank(pp'.state) \in Nat
    BY RankNumber
  <2> DEFINE d == IF changed THEN 1 ELSE 0
             d2 == IF changed' THEN 1 ELSE 0
  <2>5. d \in Nat /\ d2 \in Nat /\ (changed /\ ~changed' => d2 < d)
    OBVIOUS
  <2>6. Measure = Quad(Left, Rank(pp.state), Len(post_data), d)
    BY DEF Measure
  <2>7. Measure' = Quad(Left', Rank(pp'.state), Len(post_data'), d2)
    BY DEF Measure
  <2> DEFINE a == Left
             b == Rank(pp.state)
             c == Len(post_data)
             a2 == Left'
             b2 == Rank(pp'.state)
             c2 == Len(post_data')
  <2>8. \/ a2 < a
        \/ a2 = a /\ b2 < b
        \/ a2 = a /\ b2 = b /\ c2 < c
        \/ a2 = a /\ b2 = b /\ c2 = c /\ d2 < d
    <3>. HIDE DEF d, d2
    <3>1. QED  BY <2>1, <2>5 DEF Descends
  <2>9. Measure = Quad(a, b, c, d) /\ Measure' = Quad(a2, b2, c2, d2)
    BY <2>6, <2>7
  <2>10. /\ a \in Nat /\ b \in Nat /\ c \in Nat /\ d \in Nat
         /\ a2 \in Nat /\ b2 \in Nat /\ c2 \in Nat /\ d2 \in Nat
    BY <2>2, <2>3, <2>4, <2>5
  <2>. HIDE DEF a, b, c, d, a2, b2, c2, d2
  <2>11. <<Quad(a2, b2, c2, d2), Quad(a, b, c, d)>> \in Lower
    BY <2>8, <2>10, QuadLower
  <2>12. QED  BY <2>9, <2>11
<1>2. FormBuffered /\ FormBuffered' /\ [FormNext]_formVars
        => [call = "runs" /\ call' = "runs" => <<Measure', Measure>> \in Lower]_formVars
  BY <1>1
<1>3. FormSpec => [][call = "runs" /\ call' = "runs" => <<Measure', Measure>> \in Lower]_formVars
  BY <1>2, AlwaysBuffered, PTL DEF FormSpec
<1>4. QED  BY <1>3, LowerWellFounded
=============================================================================
