------------------------- MODULE GeneratorProofs -------------------------
(***************************************************************************)
(* Generated responses, for every minimum, buffer size and generator:      *)
(* bytes are sent in order, the generator is called as its documentation   *)
(* says, and with a minimum that is not zero the response is complete.     *)
(* Documents of the JSON and XML generators, for every set of values and   *)
(* every sequence of calls: the text reads as the calls that wrote it.     *)
(***************************************************************************)
EXTENDS StreamedDocument, WellFoundedInduction, SequenceTheorems, TLAPS

StreamInv == TypeOK /\ Placed

Numbers ==
  /\ generator.base \in Nat /\ generator.len \in Nat /\ generator_offset \in Nat
  /\ data.start \in Nat /\ data.size \in Nat /\ data.from \in Nat /\ data.size <= BufferSize
  /\ response_write_position \in Nat /\ Minimum \in Nat /\ Minimum <= BufferSize
  /\ BufferSize \in Nat \ {0}

LEMMA NumbersOK == TypeOK => Numbers
  BY GeneratorAssumption DEF GeneratorAssumption, TypeOK, Numbers, Minimum

LEMMA NumbersNext == TypeOK' => Numbers' /\ Minimum' = Minimum
  BY GeneratorAssumption DEF GeneratorAssumption, TypeOK, Numbers, Minimum

LEMMA StreamInit == Init => StreamInv
<1> SUFFICES ASSUME Init PROVE StreamInv
  OBVIOUS
<1>1. PICK n \in 0 .. MaxPrefill : generator = [base |-> 0, len |-> n, finished |-> FALSE]
  BY DEF Init
<1>2. n \in Nat /\ BufferSize \in Nat
  BY <1>1, GeneratorAssumption DEF GeneratorAssumption
<1>3. generator \in [base: Nat, len: Nat, finished: BOOLEAN]
  BY <1>1, <1>2
<1>4. data \in [start: Nat, size: 0 .. BufferSize, from: Nat]
  BY <1>2 DEF Init
<1>5. TypeOK
  BY <1>3, <1>4 DEF Init, TypeOK
<1>6. /\ generator.base = 0 /\ generator.len = n /\ generator_offset = 0
      /\ data.start = 0 /\ data.size = 0 /\ data.from = 0
      /\ response_write_position = 0 /\ pc = "send"
  BY <1>1 DEF Init
<1>7. generator_end = generator.finished
  BY <1>1 DEF Init
<1>8. Placed
  BY <1>2, <1>6, <1>7 DEF Placed
<1> QED BY <1>5, <1>8 DEF StreamInv

(* One generate(): the data grow at their end.                             *)
LEMMA GenerateInv ==
  ASSUME StreamInv, Generate
  PROVE  /\ StreamInv' /\ generator.finished = FALSE /\ generator_offset = 0
         /\ generator'.base = generator.base
         /\ \E n \in Pieces : generator'.len = generator.len + n
<1>1. PICK n \in Pieces, more \in BOOLEAN :
        /\ generator' = [generator EXCEPT !.len = @ + n, !.finished = ~more]
        /\ generator_end' = ~more
  BY DEF Generate
<1>2. n \in Nat /\ Numbers
  BY NumbersOK, GeneratorAssumption DEF GeneratorAssumption, StreamInv
<1>3. /\ generator'.len = generator.len + n /\ generator'.base = generator.base
      /\ generator'.finished = ~more /\ generator' \in [base: Nat, len: Nat, finished: BOOLEAN]
  <2>1. generator.len + n \in Nat /\ (~more) \in BOOLEAN
    BY <1>2 DEF Numbers
  <2>2. generator' = [generator EXCEPT !.len = generator.len + n, !.finished = ~more]
    BY <1>1
  <2> QED BY <2>1, <2>2 DEF StreamInv, TypeOK
<1>4. generator.finished = FALSE /\ generator_offset = 0
  BY <1>2 DEF Generate, WantsMore, StreamInv, Placed, TypeOK, Unsent, Numbers
<1>5. UNCHANGED <<pc, generator_offset, data, response_write_position>>
  BY DEF Generate
<1>6. TypeOK'
  BY <1>1, <1>3, <1>5 DEF StreamInv, TypeOK
<1>7. Placed'
  BY <1>1, <1>2, <1>3, <1>4, <1>5 DEF StreamInv, Placed, Ready, Numbers
<1> QED BY <1>3, <1>4, <1>6, <1>7 DEF StreamInv

(* A copy into the buffer of the response, and what is dropped after it.   *)
LEMMA CopyInv ==
  ASSUME StreamInv, Copy
  PROVE  /\ StreamInv' /\ Made' = Made /\ generator'.finished = generator.finished
         /\ generator'.len <= generator.len
         /\ generator'.base # generator.base
              => 2 * (generator'.base - generator.base) >= generator.len
<1>1. Numbers
  BY NumbersOK DEF StreamInv
<1>2. /\ Unsent = generator.len - generator_offset /\ Unsent \in Nat \ {0}
      /\ Copied \in Nat \ {0} /\ Copied <= Unsent /\ Copied <= BufferSize
      /\ Copied = Unsent \/ Copied = BufferSize
  BY <1>1 DEF Copy, Unsent, Copied, Numbers
<1>3. /\ data'.start = response_write_position /\ data'.size = Copied
      /\ data'.from = generator.base + generator_offset
      /\ data' \in [start: Nat, size: 0 .. BufferSize, from: Nat]
      /\ UNCHANGED <<generator_end, response_write_position>> /\ pc' = "send"
  BY <1>1, <1>2 DEF Copy, Numbers
<1>4. response_write_position = generator.base + generator_offset
  BY <1>1 DEF Copy, StreamInv, Placed, Ready, Numbers
<1>5. CASE DropCopied(Copied)
  <2>1. /\ generator' = [generator EXCEPT !.base = @ + (generator_offset + Copied),
                                          !.len = @ - (generator_offset + Copied)]
        /\ generator_offset' = 0
    BY <1>5 DEF Copy, Consume
  <2>2. /\ generator'.base = generator.base + generator_offset + Copied
        /\ generator'.len = generator.len - generator_offset - Copied
        /\ generator'.finished = generator.finished
        /\ generator' \in [base: Nat, len: Nat, finished: BOOLEAN]
    <3> DEFINE b == generator.base + (generator_offset + Copied)
               l == generator.len - (generator_offset + Copied)
    <3>1. /\ b \in Nat /\ l \in Nat /\ b = generator.base + generator_offset + Copied
          /\ l = generator.len - generator_offset - Copied
      BY <1>1, <1>2 DEF Numbers
    <3>2. generator' = [generator EXCEPT !.base = b, !.len = l]
      BY <2>1
    <3> HIDE DEF b, l
    <3> QED BY <3>1, <3>2 DEF StreamInv, TypeOK
  <2>3. 2 * (generator_offset + Copied) >= generator.len
    BY <1>1, <1>2, <1>5 DEF DropCopied, Numbers
  <2>4. TypeOK'
    BY <1>3, <2>1, <2>2 DEF StreamInv, TypeOK
  <2>5. Placed'
    BY <1>1, <1>2, <1>3, <1>4, <2>1, <2>2 DEF StreamInv, Placed, Numbers
  <2>6. Made' = Made /\ generator'.len <= generator.len
    BY <1>1, <1>2, <2>2 DEF Made, Numbers
  <2>7. 2 * (generator'.base - generator.base) >= generator.len
    BY <1>1, <1>2, <2>2, <2>3 DEF Numbers
  <2> QED BY <2>2, <2>4, <2>5, <2>6, <2>7 DEF StreamInv
<1>6. CASE ~DropCopied(Copied)
  <2>1. generator_offset' = generator_offset + Copied /\ UNCHANGED generator
    BY <1>6 DEF Copy
  <2>2. generator_offset' \in Nat /\ Unsent' = Unsent - Copied /\ Minimum' = Minimum
    BY <1>1, <1>2, <2>1 DEF Unsent, Minimum, Numbers
  <2>3. TypeOK'
    BY <1>3, <2>1, <2>2 DEF StreamInv, TypeOK
  <2>4. generator_offset' <= generator'.len
    BY <1>1, <1>2, <2>1 DEF Numbers
  <2>5. Placed'
    BY <1>1, <1>2, <1>3, <1>4, <1>6, <2>1, <2>2, <2>4
       DEF StreamInv, Placed, DropCopied, Numbers
  <2> QED BY <1>1, <2>1, <2>3, <2>5 DEF StreamInv, Made, Numbers
<1> QED BY <1>5, <1>6

LEMMA SendInv ==
  ASSUME StreamInv, Send
  PROVE  /\ StreamInv' /\ UNCHANGED <<pc, generator>>
         /\ response_write_position' \in response_write_position + 1 .. Made
<1>1. Numbers /\ UNCHANGED <<pc, generator, generator_end, generator_offset, data>>
  BY NumbersOK DEF StreamInv, Send
<1>2. PICK n \in 1 .. data.start + data.size - response_write_position :
        response_write_position' = response_write_position + n
  BY DEF Send
<1>3. /\ response_write_position' \in Nat
      /\ response_write_position' >= response_write_position + 1
      /\ response_write_position' <= data.start + data.size
  BY <1>1, <1>2 DEF Numbers
<1>4. data.start + data.size <= Made
  BY <1>1 DEF StreamInv, Placed, Made, Numbers
<1>5. TypeOK'
  BY <1>1, <1>3 DEF StreamInv, TypeOK
<1>6. Placed'
  BY <1>1, <1>3 DEF StreamInv, Placed, Unsent, Minimum, Send, Numbers
<1>7. Made \in Nat
  BY <1>1 DEF Made, Numbers
<1> QED BY <1>1, <1>3, <1>4, <1>5, <1>6, <1>7 DEF StreamInv, Numbers

LEMMA StreamStep ==
  ASSUME StreamInv, [Next]_vars
  PROVE  StreamInv'
<1>1. CASE Callback
  BY <1>1 DEF Callback, StreamInv, TypeOK, Placed, Unsent, Minimum, Ready
<1>2. CASE EndOfStream
  BY <1>2 DEF EndOfStream, StreamInv, TypeOK, Placed, Unsent, Minimum
<1>3. CASE Abort
  BY <1>3 DEF Abort, StreamInv, TypeOK, Placed, Unsent, Minimum
<1>4. CASE Done \/ UNCHANGED vars
  BY <1>4 DEF Done, vars, StreamInv, TypeOK, Placed, Unsent, Minimum, Ready
<1> QED BY <1>1, <1>2, <1>3, <1>4, GenerateInv, CopyInv, SendInv DEF Next

(* The type invariant and Placed hold in every state.                      *)
THEOREM StreamCorrect == Spec => []StreamInv
  BY StreamInit, StreamStep, PTL DEF Spec

(* Bytes are sent once each and in order.                                  *)
THEOREM SentInOrder == Spec => []InOrder
<1>1. StreamInv => InOrder
  BY NumbersOK DEF StreamInv, Placed, InOrder, Numbers
<1> QED BY <1>1, StreamCorrect, PTL

(* generate() is never called after it has returned false.                 *)
THEOREM GenerateEnds == Spec => NeverAfterEnd
<1>1. ASSUME StreamInv, [Next]_vars, generator.finished
      PROVE  Made' = Made
  <2>1. CASE Generate
    BY <1>1, <2>1, GenerateInv
  <2>2. CASE Copy
    BY <1>1, <2>2, CopyInv
  <2>3. CASE Callback \/ EndOfStream \/ Send \/ Abort \/ Done \/ UNCHANGED vars
    BY <2>3 DEF Callback, EndOfStream, Send, Abort, Done, vars, Made
  <2> QED BY <1>1, <2>1, <2>2, <2>3 DEF Next
<1> QED BY <1>1, StreamCorrect, PTL DEF Spec, NeverAfterEnd

(* consume() drops at least half of the generator's data.                  *)
THEOREM ConsumeLinear == Spec => ConsumesHalf
<1>1. ASSUME StreamInv, [Next]_vars, generator'.base # generator.base
      PROVE  2 * (generator'.base - generator.base) >= generator.len
  <2>1. CASE Generate
    BY <1>1, <2>1, GenerateInv
  <2>2. CASE Copy
    BY <1>1, <2>2, CopyInv
  <2>3. CASE Callback \/ EndOfStream \/ Send \/ Abort \/ Done \/ UNCHANGED vars
    BY <1>1, <2>3 DEF Callback, EndOfStream, Send, Abort, Done, vars
  <2> QED BY <1>1, <2>1, <2>2, <2>3 DEF Next
<1> QED BY <1>1, StreamCorrect, PTL DEF Spec, ConsumesHalf

(* With a minimum that is not zero a response is complete only when the    *)
(* generator has come to its end and every byte has been sent.             *)
THEOREM StreamComplete == ASSUME MinGenerated # 0 PROVE Spec => []CompleteAtEnd
<1>1. Init => CompleteAtEnd
  BY DEF Init, CompleteAtEnd
<1>2. ASSUME StreamInv, CompleteAtEnd, [Next]_vars
      PROVE  CompleteAtEnd'
  <2>1. CASE EndOfStream
    <3>1. Numbers
      BY <1>2, NumbersOK DEF StreamInv
    <3>2. Minimum > 0 /\ Unsent = 0
      BY <1>2, <2>1, <3>1, GeneratorAssumption
         DEF EndOfStream, StreamInv, Placed, Minimum, Unsent, Numbers, GeneratorAssumption
    <3>3. generator_end
      BY <2>1, <3>2 DEF EndOfStream, WantsMore
    <3>4. response_write_position = Made
      <4>1. ~Ready /\ data.start <= response_write_position
            /\ response_write_position <= data.start + data.size
            /\ generator.base + generator_offset = data.start + data.size
        BY <1>2, <2>1 DEF EndOfStream, StreamInv, Placed
      <4>2. response_write_position = generator.base + generator_offset
        BY <3>1, <4>1 DEF Ready, Numbers
      <4>3. generator_offset = generator.len
        BY <3>1, <3>2 DEF Unsent, Numbers
      <4> QED BY <4>2, <4>3 DEF Made
    <3> QED BY <1>2, <2>1, <3>3, <3>4
            DEF EndOfStream, StreamInv, Placed, CompleteAtEnd, Made
  <2>2. CASE Callback \/ Generate \/ Copy \/ Send \/ Abort
    BY <2>2 DEF Callback, Generate, Copy, Send, Abort, CompleteAtEnd
  <2>3. CASE Done \/ UNCHANGED vars
    BY <1>2, <2>3 DEF Done, vars, CompleteAtEnd, Made
  <2> QED BY <1>2, <2>1, <2>2, <2>3 DEF Next
<1> QED BY <1>1, <1>2, StreamCorrect, PTL DEF Spec

(* The data a generator holds are bounded whatever the size of its output. *)
THEOREM GeneratorBounded == Spec => []HeldIsBounded
<1>1. Init => HeldIsBounded
  BY GeneratorAssumption DEF Init, HeldIsBounded, GeneratorAssumption
<1>2. ASSUME StreamInv, HeldIsBounded, [Next]_vars
      PROVE  HeldIsBounded'
  <2>1. Numbers /\ Numbers' /\ Minimum' = Minimum
    BY <1>2, NumbersOK, NumbersNext, StreamStep DEF StreamInv
  <2>2. CASE Generate
    <3>1. PICK n \in Pieces : generator'.len = generator.len + n
      BY <1>2, <2>2, GenerateInv
    <3>2. generator.len < Minimum
      <4>1. generator_offset = 0
        BY <1>2, <2>2, GenerateInv
      <4>2. generator.len - generator_offset < Minimum
        BY <2>2 DEF Generate, WantsMore, Unsent
      <4> QED BY <2>1, <4>1, <4>2 DEF Numbers
    <3>3. n \in Nat
      BY <3>1, GeneratorAssumption DEF GeneratorAssumption
    <3>4. generator'.len < Minimum + n
      BY <2>1, <3>1, <3>2, <3>3 DEF Numbers
    <3> QED BY <2>1, <3>1, <3>4 DEF HeldIsBounded
  <2>3. CASE Copy
    <3>1. generator'.len <= generator.len
      BY <1>2, <2>3, CopyInv
    <3>2. \A n \in Pieces : n \in Nat
      BY GeneratorAssumption DEF GeneratorAssumption
    <3>3. MaxPrefill \in Nat
      BY GeneratorAssumption DEF GeneratorAssumption
    <3> QED BY <1>2, <2>1, <3>1, <3>2, <3>3 DEF HeldIsBounded, Numbers
  <2>4. CASE Callback \/ EndOfStream \/ Send \/ Abort \/ Done \/ UNCHANGED vars
    <3>1. UNCHANGED generator
      BY <2>4 DEF Callback, EndOfStream, Send, Abort, Done, vars
    <3> QED BY <1>2, <2>1, <3>1 DEF HeldIsBounded
  <2> QED BY <1>2, <2>2, <2>3, <2>4 DEF Next
<1> QED BY <1>1, <1>2, StreamCorrect, PTL DEF Spec

(* The callback and the write handler together implement OutputStream.     *)
THEOREM StreamImplemented == ASSUME MinGenerated # 0 PROVE Spec => ImplementsStream
<1>1. Init => Stream!Init
  <2> SUFFICES ASSUME Init PROVE Stream!Init
    OBVIOUS
  <2>1. PICK n \in 0 .. MaxPrefill : generator = [base |-> 0, len |-> n, finished |-> FALSE]
    BY DEF Init
  <2>2. n \in Nat
    BY <2>1, GeneratorAssumption DEF GeneratorAssumption
  <2> QED BY <2>1, <2>2 DEF Init, Stream!Init, Made
<1>2. ASSUME StreamInv, StreamInv', CompleteAtEnd', [Next]_vars
      PROVE  [Stream!Next]_(Stream!vars)
  <2>1. Numbers /\ Numbers' /\ Made \in Nat /\ Made' \in Nat
    BY <1>2, NumbersOK, NumbersNext DEF StreamInv, Made, Numbers
  <2>2. CASE Generate
    <3>1. /\ pc = "callback" /\ UNCHANGED <<pc, response_write_position>>
          /\ generator.finished = FALSE /\ Made' >= Made /\ generator'.finished \in BOOLEAN
      <4>1. PICK n \in Pieces : generator'.len = generator.len + n
        BY <1>2, <2>2, GenerateInv
      <4>2. n \in Nat
        BY <4>1, GeneratorAssumption DEF GeneratorAssumption
      <4>3. generator'.base = generator.base /\ generator.finished = FALSE
        BY <1>2, <2>2, GenerateInv
      <4>4. generator'.finished \in BOOLEAN
        BY <1>2 DEF StreamInv, TypeOK
      <4> QED BY <2>1, <2>2, <4>1, <4>2, <4>3, <4>4 DEF Generate, Made, Numbers
    <3> QED BY <2>1, <3>1 DEF Stream!Next, Stream!Make
  <2>3. CASE Send
    <3>1. /\ response_write_position' \in response_write_position + 1 .. Made
          /\ UNCHANGED <<pc, generator>> /\ pc = "send"
      BY <1>2, <2>3, SendInv DEF Send
    <3> QED BY <3>1 DEF Stream!Next, Stream!Send, Made
  <2>4. CASE EndOfStream
    <3>1. /\ pc = "callback" /\ pc' = "completed"
          /\ UNCHANGED <<generator, response_write_position>>
      BY <2>4 DEF EndOfStream
    <3>2. generator.finished /\ response_write_position = Made
      BY <1>2, <3>1 DEF CompleteAtEnd, Made
    <3>3. (pc = "completed") = FALSE /\ (pc' = "completed") = TRUE
      BY <3>1
    <3> QED BY <3>1, <3>2, <3>3 DEF Stream!Next, Stream!Close, Made
  <2>5. CASE Copy
    <3>1. /\ Made' = Made /\ generator'.finished = generator.finished
          /\ UNCHANGED response_write_position
          /\ (pc = "completed") = FALSE /\ (pc' = "completed") = FALSE
      BY <1>2, <2>5, CopyInv DEF Copy
    <3> QED BY <3>1 DEF Stream!vars
  <2>6. CASE Callback \/ Abort \/ Done \/ UNCHANGED vars
    <3>1. /\ UNCHANGED <<generator, response_write_position>>
          /\ (pc' = "completed") = (pc = "completed")
      BY <2>6 DEF Callback, Abort, Done, vars
    <3> QED BY <3>1 DEF Stream!vars, Made
  <2> QED BY <1>2, <2>2, <2>3, <2>4, <2>5, <2>6 DEF Next
<1> QED BY <1>1, <1>2, StreamCorrect, StreamComplete, PTL DEF Spec, ImplementsStream, Stream!Spec

-----------------------------------------------------------------------------
(***************************************************************************)
(* A JSON or XML document is generated as any other output is: each call   *)
(* of a builder is one generate(), and what consume() discards of the text *)
(* is what has been copied.                                                *)
(***************************************************************************)
LEMMA DocumentStep ==
  ASSUME [DocNext]_streamVars
  PROVE  [Next]_vars
<1>1. ASSUME NEW b, NEW d, Written(b, d) PROVE Next
  BY <1>1 DEF Written, Next
<1>2. CASE WriteContainer \/ WriteKey \/ WriteString \/ WriteEscaped \/ WriteLiteral
  BY <1>1, <1>2 DEF WriteContainer, WriteKey, WriteString, WriteEscaped, WriteLiteral
<1>3. CASE WriteClose \/ WriteIndent \/ WriteFinish
  BY <1>1, <1>3 DEF WriteClose, WriteIndent, WriteFinish
<1>4. CASE WriteElement \/ WriteAttribute \/ WriteText
  BY <1>1, <1>4 DEF WriteElement, WriteAttribute, WriteText
<1>5. CASE WritePlain \/ CopyDocument \/ Serve \/ DocDone
  BY <1>5 DEF WritePlain, CopyDocument, Serve, DocDone, Next
<1>6. CASE UNCHANGED streamVars
  BY <1>6 DEF streamVars
<1> QED BY <1>2, <1>3, <1>4, <1>5, <1>6 DEF DocNext

LEMMA DocumentStream == DocSpec => Spec
<1>1. DocInit => Init
  BY DEF DocInit
<1> QED BY <1>1, DocumentStep, PTL DEF DocSpec, Spec

(* The text of a document is sent in order, each byte of it once, while    *)
(* its prefixes are discarded.                                             *)
THEOREM DocumentInOrder == DocSpec => []InOrder
BY DocumentStream, SentInOrder, PTL

(* consume() of a document's generator drops at least half of its text.    *)
THEOREM DocumentLinear == DocSpec => ConsumesHalf
BY DocumentStream, ConsumeLinear, PTL

(* A document is for the client the stream that OutputStream describes.    *)
THEOREM DocumentImplemented == ASSUME MinGenerated # 0 PROVE DocSpec => ImplementsStream
BY DocumentStream, StreamImplemented, PTL

-----------------------------------------------------------------------------
(* How a document is read: a fold, one symbol of the text after the other. *)

(* Induction, for a set of numbers in the place of a predicate.            *)
LEMMA Inductive ==
  ASSUME NEW G, 0 \in G, \A n \in Nat : n \in G => n + 1 \in G
  PROVE  Nat \subseteq G
<1> DEFINE B == Nat \ G
<1>1. SUFFICES ASSUME B # {} PROVE FALSE
  OBVIOUS
<1>2. PICK k \in B : \A l \in B : ~(<<l, k>> \in OpToRel(<, Nat))
  <2>1. B \in SUBSET Nat
    OBVIOUS
  <2> QED BY <1>1, <2>1, NatLessThanWellFounded, WFMin
<1>3. k # 0 /\ k - 1 \in Nat /\ k - 1 < k /\ (k - 1) + 1 = k
  OBVIOUS
<1>4. k - 1 \notin B
  BY <1>2, <1>3 DEF OpToRel
<1> QED BY <1>3, <1>4

-----------------------------------------------------------------------------
(* The reader as a fold: FoldLeft is the value, for all the indices, of a  *)
(* function on sets of indices that takes the largest one off.             *)
Turn(K, g, s, x) == IF x = {} THEN Start ELSE Read(K, g[x \ {Max(x)}], s[Max(x)])

LEMMA ReadingIs ==
  ASSUME NEW K, NEW s
  PROVE  Reading(K, s) = (CHOOSE g : g = [x \in SUBSET DOMAIN s |-> Turn(K, g, s, x)])[DOMAIN s]
  BY DEF Reading, FoldLeft, MapThenFoldSet, Turn

LEMMA MaxWith ==
  ASSUME NEW n \in Nat, NEW x \in SUBSET (1 .. (n + 1)), n + 1 \in x
  PROVE  Max(x) = n + 1
<1>1. \A y \in x : n + 1 >= y
  OBVIOUS
<1>2. Max(x) \in x /\ \A y \in x : Max(x) >= y
  BY <1>1 DEF Max
<1>3. Max(x) \in 1 .. (n + 1) /\ Max(x) >= n + 1
  BY <1>2
<1> QED BY <1>3

LEMMA TurnsThere ==
  ASSUME NEW K, NEW s, NEW n \in Nat
  PROVE  \E g : g = [x \in SUBSET (1 .. n) |-> Turn(K, g, s, x)]
<1> DEFINE G == {m \in Nat : \E g : g = [x \in SUBSET (1 .. m) |-> Turn(K, g, s, x)]}
<1>1. 0 \in G
  <2> DEFINE g == [x \in SUBSET (1 .. 0) |-> Start]
  <2>1. \A x \in SUBSET (1 .. 0) : x = {}
    OBVIOUS
  <2>2. g = [x \in SUBSET (1 .. 0) |-> Turn(K, g, s, x)]
    BY <2>1 DEF Turn
  <2> QED BY <2>2
<1>2. ASSUME NEW m \in Nat, m \in G PROVE m + 1 \in G
  <2>1. PICK g : g = [x \in SUBSET (1 .. m) |-> Turn(K, g, s, x)]
    BY <1>2
  <2> DEFINE h == [x \in SUBSET (1 .. (m + 1)) |->
                     IF m + 1 \in x THEN Read(K, g[x \ {m + 1}], s[m + 1]) ELSE g[x]]
  <2>2. ASSUME NEW x \in SUBSET (1 .. (m + 1)) PROVE h[x] = Turn(K, h, s, x)
    <3>1. CASE m + 1 \in x
      <4>1. Max(x) = m + 1 /\ x # {}
        BY <3>1, MaxWith
      <4>2. x \ {m + 1} \in SUBSET (1 .. (m + 1)) /\ m + 1 \notin x \ {m + 1}
        OBVIOUS
      <4>3. h[x \ {m + 1}] = g[x \ {m + 1}]
        BY <4>2
      <4> QED BY <3>1, <4>1, <4>3 DEF Turn
    <3>2. CASE m + 1 \notin x
      <4>1. x \in SUBSET (1 .. m)
        <5>1. \A y \in x : y \in 1 .. m
          <6>1. \A y \in x : y \in 1 .. (m + 1) /\ y # m + 1
            BY <3>2
          <6> QED BY <6>1
        <5> QED BY <5>1
      <4>2. h[x] = g[x] /\ g[x] = Turn(K, g, s, x)
        BY <2>1, <3>2, <4>1
      <4>3. x \ {Max(x)} \in SUBSET (1 .. (m + 1)) /\ m + 1 \notin x \ {Max(x)}
        BY <3>2
      <4>4. h[x \ {Max(x)}] = g[x \ {Max(x)}]
        BY <4>3
      <4> QED BY <4>2, <4>4 DEF Turn
    <3> QED BY <3>1, <3>2
  <2>3. h = [x \in SUBSET (1 .. (m + 1)) |-> Turn(K, h, s, x)]
    <3> HIDE DEF h
    <3>1. h = [x \in SUBSET (1 .. (m + 1)) |-> h[x]]
      BY DEF h
    <3> QED BY <2>2, <3>1
  <2>4. m + 1 \in Nat
    OBVIOUS
  <2> QED BY <2>3, <2>4
<1> HIDE DEF G
<1>3. n \in G
  BY <1>1, <1>2, Inductive
<1> QED BY <1>3 DEF G

(* What has been read of a text after n symbols of it.                     *)
LEMMA ReadingBySteps ==
  ASSUME NEW K, NEW S, NEW s \in Seq(S)
  PROVE  \E r : /\ r[0] = Start /\ Reading(K, s) = r[Len(s)]
                /\ \A n \in 1 .. Len(s) : r[n] = Read(K, r[n - 1], s[n])
<1>1. DOMAIN s = 1 .. Len(s) /\ Len(s) \in Nat
  BY LenProperties
<1> DEFINE g == CHOOSE h : h = [x \in SUBSET (1 .. Len(s)) |-> Turn(K, h, s, x)]
           r == [n \in 0 .. Len(s) |-> g[1 .. n]]
<1>2. g = [x \in SUBSET (1 .. Len(s)) |-> Turn(K, g, s, x)]
  BY <1>1, TurnsThere
<1>3. Reading(K, s) = g[1 .. Len(s)]
  BY <1>1, ReadingIs
<1> HIDE DEF g
<1>4. r[0] = Start
  <2>1. 1 .. 0 = {} /\ 0 \in 0 .. Len(s)
    BY <1>1
  <2>2. g[{}] = Start
    BY <1>2 DEF Turn
  <2> QED BY <2>1, <2>2
<1>5. ASSUME NEW n \in 1 .. Len(s) PROVE r[n] = Read(K, r[n - 1], s[n])
  <2>1. n - 1 \in Nat /\ (n - 1) + 1 = n /\ n \in 0 .. Len(s) /\ n - 1 \in 0 .. Len(s)
    BY <1>1
  <2>2. 1 .. n \in SUBSET (1 .. Len(s)) /\ n \in 1 .. n /\ 1 .. n # {}
    <3>1. n \in Nat /\ 1 <= n /\ n <= Len(s)
      BY <1>1
    <3>2. \A i \in 1 .. n : i \in 1 .. Len(s)
      BY <1>1, <3>1
    <3>3. n \in 1 .. n
      BY <3>1
    <3> QED BY <3>2, <3>3
  <2>3. Max(1 .. n) = n
    <3> DEFINE m == n - 1
    <3>1. m \in Nat /\ m + 1 = n
      BY <2>1
    <3> HIDE DEF m
    <3>2. 1 .. n \in SUBSET (1 .. (m + 1)) /\ m + 1 \in 1 .. n
      BY <2>2, <3>1
    <3>3. Max(1 .. n) = m + 1
      BY <3>1, <3>2, MaxWith
    <3> QED BY <3>1, <3>3
  <2>4. (1 .. n) \ {n} = 1 .. (n - 1)
    BY <2>1
  <2>5. g[1 .. n] = Turn(K, g, s, 1 .. n)
    BY <1>2, <2>2
  <2>6. g[1 .. n] = Read(K, g[1 .. (n - 1)], s[n])
    BY <2>2, <2>3, <2>4, <2>5 DEF Turn
  <2> QED BY <2>1, <2>6
<1>6. Reading(K, s) = r[Len(s)]
  BY <1>1, <1>3
<1> HIDE DEF r
<1> QED BY <1>4, <1>5, <1>6

(* The two cases of the fold.                                              *)
LEMMA ReadingNothing ==
  ASSUME NEW K
  PROVE  Reading(K, <<>>) = Start
<1>1. <<>> \in Seq({}) /\ Len(<<>>) = 0
  BY EmptySeq
<1>2. PICK r : r[0] = Start /\ Reading(K, <<>>) = r[Len(<<>>)]
  BY <1>1, ReadingBySteps
<1> QED BY <1>1, <1>2

LEMMA ReadingOneMore ==
  ASSUME NEW K, NEW S, NEW s \in Seq(S), NEW c \in S
  PROVE  Reading(K, s \o <<c>>) = Read(K, Reading(K, s), c)
<1> DEFINE t == s \o <<c>>
<1>1. /\ t \in Seq(S) /\ Len(t) = Len(s) + 1 /\ Len(s) \in Nat
      /\ \A n \in 1 .. Len(s) : t[n] = s[n]
      /\ t[Len(s) + 1] = c
  <2>1. <<c>> \in Seq(S) /\ Len(<<c>>) = 1 /\ <<c>>[1] = c /\ Len(s) \in Nat
    BY LenProperties
  <2>2. /\ t \in Seq(S) /\ Len(t) = Len(s) + 1
        /\ \A n \in 1 .. Len(s) + 1 : t[n] = IF n <= Len(s) THEN s[n] ELSE <<c>>[n - Len(s)]
    BY <2>1, ConcatProperties
  <2>3. (Len(s) + 1) - Len(s) = 1
    BY <2>1
  <2> QED BY <2>1, <2>2, <2>3
<1> HIDE DEF t
<1>2. PICK r : /\ r[0] = Start /\ Reading(K, s) = r[Len(s)]
               /\ \A n \in 1 .. Len(s) : r[n] = Read(K, r[n - 1], s[n])
  BY ReadingBySteps
<1>3. PICK q : /\ q[0] = Start /\ Reading(K, t) = q[Len(t)]
               /\ \A n \in 1 .. Len(t) : q[n] = Read(K, q[n - 1], t[n])
  BY <1>1, ReadingBySteps
<1> DEFINE G == {n \in Nat : n <= Len(s) => r[n] = q[n]}
<1>4. 0 \in G
  BY <1>2, <1>3
<1>5. ASSUME NEW n \in Nat, n \in G PROVE n + 1 \in G
  <2>1. CASE n + 1 <= Len(s)
    <3>1. /\ n + 1 \in 1 .. Len(s) /\ n + 1 \in 1 .. Len(t) /\ (n + 1) - 1 = n /\ r[n] = q[n]
      BY <1>1, <1>5, <2>1
    <3>2. r[n + 1] = Read(K, r[n], s[n + 1]) /\ q[n + 1] = Read(K, q[n], t[n + 1])
      BY <1>2, <1>3, <3>1
    <3>3. r[n + 1] = q[n + 1]
      BY <1>1, <3>1, <3>2
    <3> QED BY <3>3
  <2> QED BY <2>1
<1> HIDE DEF G
<1>6. Len(s) \in G
  BY <1>1, <1>4, <1>5, Inductive
<1>7. r[Len(s)] = q[Len(s)]
  BY <1>1, <1>6 DEF G
<1>8. q[Len(t)] = Read(K, q[Len(s)], c)
  <2>1. Len(t) \in 1 .. Len(t) /\ Len(t) - 1 = Len(s)
    BY <1>1
  <2> QED BY <1>1, <1>3, <2>1
<1> QED BY <1>2, <1>3, <1>7, <1>8 DEF t

-----------------------------------------------------------------------------
(* Texts, and the sequences they are made of.                              *)

Literals ==
  {"object", "array", "object_end", "array_end", "key", "value", "element", "attribute",
   "attribute_end", "end", "declaration", "u00", "amp", "lt", "gt", "quot", "apos",
   "quote", "backslash", "slash", "nl", "tab", "backspace", "formfeed", "return", "control",
   "space", "comma", "colon", "less", "greater", "equals", "ampersand", "apostrophe",
   "lbrace", "rbrace", "lbracket", "rbracket", "b", "f", "n", "r", "t", "e", "a", "1", "null"}

Symbols == STRING \cup Literals

(* A reader that has found the text good so far.                           *)
R(calls, nest, at) == [ok |-> TRUE, calls |-> calls, nest |-> nest, at |-> at]

LEMMA OneMore ==
  ASSUME NEW K, NEW s \in Seq(Symbols), NEW c \in Symbols
  PROVE  /\ s \o <<c>> \in Seq(Symbols)
         /\ Reading(K, s \o <<c>>) = Read(K, Reading(K, s), c)
<1>1. <<c>> \in Seq(Symbols)
  OBVIOUS
<1> QED BY <1>1, ReadingOneMore, ConcatProperties

LEMMA Longer ==
  ASSUME NEW s \in Seq(Symbols), NEW t \in Seq(Symbols)
  PROVE  s \o t \in Seq(Symbols)
  BY ConcatProperties

LEMMA Joined ==
  ASSUME NEW s \in Seq(Symbols), NEW t \in Seq(Symbols), NEW u \in Seq(Symbols)
  PROVE  (s \o t) \o u = s \o (t \o u)
  BY ConcatAssociative

(* The first n symbols of a sequence, with one more.                       *)
LEMMA FirstOneMore ==
  ASSUME NEW S, NEW v \in Seq(S), NEW n \in Nat, n < Len(v)
  PROVE  /\ n + 1 \in 1 .. Len(v) /\ v[n + 1] \in S
         /\ SubSeq(v, 1, n) \in Seq(S) /\ SubSeq(v, 1, n + 1) \in Seq(S)
         /\ SubSeq(v, 1, n + 1) = SubSeq(v, 1, n) \o <<v[n + 1]>>
<1>1. Len(v) \in Nat /\ \A i \in 1 .. Len(v) : v[i] \in S
  BY LenProperties
<1> DEFINE m == n + 1
<1>2. m \in 1 .. Len(v) /\ 1 \in 1 .. Len(v) /\ m - 1 = n /\ m \in Nat
  BY <1>1
<1>3. \A i \in 1 .. m : v[i] \in S
  BY <1>1, <1>2
<1>4. \A i \in 1 .. n : v[i] \in S
  BY <1>1, <1>2
<1> HIDE DEF m
<1>5. SubSeq(v, 1, n) \in Seq(S)
  BY <1>4, SubSeqProperties, 1 \in Int, n \in Int
<1>6. SubSeq(v, 1, m) \in Seq(S)
  BY <1>2, <1>3, SubSeqProperties, 1 \in Int, m \in Int
<1>7. SubSeq(v, 1, m) = SubSeq(v, 1, m - 1) \o <<v[m]>>
  <2>1. m \in 1 .. Len(v)
    BY <1>2
  <2> QED BY <1>2, SubSeqRecursiveSecond
<1>8. SubSeq(v, 1, m) = SubSeq(v, 1, n) \o <<v[m]>>
  BY <1>2, <1>7
<1>9. v[m] \in S
  BY <1>1, <1>2
<1> QED BY <1>2, <1>5, <1>6, <1>8, <1>9 DEF m

LEMMA FirstNone == ASSUME NEW v PROVE SubSeq(v, 1, 0) = <<>>
  BY SubSeqEmpty, 1 \in Int, 0 \in Int, 0 < 1

(* A text e that is made of the pieces d[1], d[2], ... is read piece by    *)
(* piece, when each piece gives one symbol of v.                           *)
ByPieces(K, N, A, v, d, e) ==
  /\ e[0] = <<>>
  /\ \A n \in 1 .. Len(v) : d[n] \in Seq(Symbols) /\ e[n] = e[n - 1] \o d[n]
  /\ \A n \in 1 .. Len(v) : \A u \in Seq(Symbols), D \in Seq(Symbols) :
       Reading(K, u) = R(D, N, A) => Reading(K, u \o d[n]) = R(D \o <<v[n]>>, N, A)

LEMMA PiecesRead ==
  ASSUME NEW K, NEW C \in Seq(Symbols), NEW N, NEW A,
         NEW s \in Seq(Symbols), Reading(K, s) = R(C, N, A),
         NEW v \in Seq(Symbols), NEW d, NEW e, ByPieces(K, N, A, v, d, e)
  PROVE  /\ e[Len(v)] \in Seq(Symbols) /\ s \o e[Len(v)] \in Seq(Symbols)
         /\ C \o v \in Seq(Symbols)
         /\ Reading(K, s \o e[Len(v)]) = R(C \o v, N, A)
<1>0. /\ e[0] = <<>>
      /\ \A n \in 1 .. Len(v) : d[n] \in Seq(Symbols) /\ e[n] = e[n - 1] \o d[n]
      /\ \A n \in 1 .. Len(v) : \A u \in Seq(Symbols), D \in Seq(Symbols) :
           Reading(K, u) = R(D, N, A) => Reading(K, u \o d[n]) = R(D \o <<v[n]>>, N, A)
  BY DEF ByPieces
<1> DEFINE G == {n \in Nat : n <= Len(v) =>
                   /\ e[n] \in Seq(Symbols)
                   /\ Reading(K, s \o e[n]) = R(C \o SubSeq(v, 1, n), N, A)}
<1>1. Len(v) \in Nat
  BY LenProperties
<1>2. 0 \in G
  <2>1. <<>> \in Seq(Symbols) /\ s \o <<>> = s /\ C \o <<>> = C
    BY EmptySeq, ConcatEmptySeq
  <2> QED BY <1>0, <2>1, FirstNone
<1>3. ASSUME NEW n \in Nat, n \in G PROVE n + 1 \in G
  <2>1. SUFFICES ASSUME n + 1 <= Len(v)
                 PROVE  /\ e[n + 1] \in Seq(Symbols)
                        /\ Reading(K, s \o e[n + 1]) = R(C \o SubSeq(v, 1, n + 1), N, A)
    OBVIOUS
  <2>2. n < Len(v) /\ e[n] \in Seq(Symbols)
        /\ Reading(K, s \o e[n]) = R(C \o SubSeq(v, 1, n), N, A)
    BY <1>1, <1>3, <2>1
  <2>3. /\ n + 1 \in 1 .. Len(v) /\ SubSeq(v, 1, n) \in Seq(Symbols)
        /\ SubSeq(v, 1, n + 1) = SubSeq(v, 1, n) \o <<v[n + 1]>> /\ v[n + 1] \in Symbols
    BY <2>2, FirstOneMore
  <2>4. d[n + 1] \in Seq(Symbols) /\ e[n + 1] = e[n] \o d[n + 1]
    <3>1. (n + 1) - 1 = n
      OBVIOUS
    <3> QED BY <1>0, <2>3, <3>1
  <2>5. s \o e[n] \in Seq(Symbols) /\ C \o SubSeq(v, 1, n) \in Seq(Symbols)
    BY <2>2, <2>3, Longer
  <2>6. Reading(K, (s \o e[n]) \o d[n + 1]) = R((C \o SubSeq(v, 1, n)) \o <<v[n + 1]>>, N, A)
    BY <1>0, <2>2, <2>3, <2>5
  <2>7. (s \o e[n]) \o d[n + 1] = s \o e[n + 1]
    <3>1. (s \o e[n]) \o d[n + 1] = s \o (e[n] \o d[n + 1])
      BY <2>2, <2>4, Joined
    <3> QED BY <2>4, <3>1
  <2>8. (C \o SubSeq(v, 1, n)) \o <<v[n + 1]>> = C \o SubSeq(v, 1, n + 1)
    <3>1. <<v[n + 1]>> \in Seq(Symbols)
      BY <2>3
    <3>2. (C \o SubSeq(v, 1, n)) \o <<v[n + 1]>> = C \o (SubSeq(v, 1, n) \o <<v[n + 1]>>)
      BY <2>3, <3>1, Joined
    <3> QED BY <2>3, <3>2
  <2>9. e[n + 1] \in Seq(Symbols)
    BY <2>2, <2>4, Longer
  <2> QED BY <2>6, <2>7, <2>8, <2>9
<1> HIDE DEF G
<1>4. Len(v) \in G
  BY <1>1, <1>2, <1>3, Inductive
<1>5. SubSeq(v, 1, Len(v)) = v
  BY SubSeqFull
<1>6. e[Len(v)] \in Seq(Symbols) /\ Reading(K, s \o e[Len(v)]) = R(C \o SubSeq(v, 1, Len(v)), N, A)
  BY <1>1, <1>4 DEF G
<1>7. s \o e[Len(v)] \in Seq(Symbols)
  BY <1>6, Longer
<1> QED BY <1>5, <1>6, <1>7, Longer

(* FlattenSeq puts the pieces of a sequence one after the other.           *)
LEMMA FlattenIs ==
  ASSUME NEW d
  PROVE  Len(d) # 0 => FlattenSeq(d) =
           (CHOOSE f : f = [i \in 1 .. Len(d) |-> IF i = 1 THEN d[i] ELSE f[i - 1] \o d[i]])[Len(d)]
  BY DEF FlattenSeq

LEMMA FlattenThere ==
  ASSUME NEW d, NEW n \in Nat
  PROVE  \E f : f = [i \in 1 .. n |-> IF i = 1 THEN d[i] ELSE f[i - 1] \o d[i]]
<1> DEFINE G == {m \in Nat : \E f : f = [i \in 1 .. m |-> IF i = 1 THEN d[i] ELSE f[i - 1] \o d[i]]}
<1>1. 0 \in G
  <2> DEFINE f == [i \in 1 .. 0 |-> d[i]]
  <2>1. f = [i \in 1 .. 0 |-> IF i = 1 THEN d[i] ELSE f[i - 1] \o d[i]]
    OBVIOUS
  <2> QED BY <2>1
<1>2. ASSUME NEW m \in Nat, m \in G PROVE m + 1 \in G
  <2>1. PICK f : f = [i \in 1 .. m |-> IF i = 1 THEN d[i] ELSE f[i - 1] \o d[i]]
    BY <1>2
  <2> DEFINE h == [i \in 1 .. (m + 1) |-> IF i = 1 THEN d[i]
                                          ELSE IF i = m + 1 THEN f[m] \o d[i] ELSE f[i]]
  <2>2. ASSUME NEW i \in 1 .. (m + 1)
        PROVE  h[i] = IF i = 1 THEN d[i] ELSE h[i - 1] \o d[i]
    <3>1. CASE i = 1
      BY <3>1
    <3>2. CASE i # 1
      <4>1. i - 1 \in 1 .. m /\ i - 1 \in 1 .. (m + 1) /\ i - 1 # m + 1
        BY <3>2
      <4>2. h[i - 1] = f[i - 1]
        <5>1. CASE i - 1 = 1
          <6>1. 1 \in 1 .. m /\ 1 \in 1 .. (m + 1)
            BY <4>1, <5>1
          <6>2. f[1] = d[1] /\ h[1] = d[1]
            BY <2>1, <6>1
          <6> QED BY <5>1, <6>2
        <5>2. CASE i - 1 # 1
          BY <4>1, <5>2
        <5> QED BY <5>1, <5>2
      <4>3. h[i] = f[i - 1] \o d[i]
        <5>1. CASE i = m + 1
          <6>1. i - 1 = m
            BY <5>1
          <6> QED BY <3>2, <5>1, <6>1
        <5>2. CASE i # m + 1
          <6>1. i \in 1 .. m
            BY <5>2
          <6>2. f[i] = f[i - 1] \o d[i]
            BY <2>1, <3>2, <6>1
          <6> QED BY <3>2, <5>2, <6>2
        <5> QED BY <5>1, <5>2
      <4> HIDE DEF h
      <4> QED BY <3>2, <4>2, <4>3
    <3> QED BY <3>1, <3>2
  <2>3. h = [i \in 1 .. (m + 1) |-> h[i]]
    OBVIOUS
  <2> HIDE DEF h
  <2>4. h = [i \in 1 .. (m + 1) |-> IF i = 1 THEN d[i] ELSE h[i - 1] \o d[i]]
    BY <2>2, <2>3
  <2>5. m + 1 \in Nat
    OBVIOUS
  <2> QED BY <2>4, <2>5
<1> HIDE DEF G
<1>3. n \in G
  BY <1>1, <1>2, Inductive
<1> QED BY <1>3 DEF G

LEMMA Flattened ==
  ASSUME NEW d \in Seq(Seq(Symbols))
  PROVE  \E e : /\ e[0] = <<>> /\ FlattenSeq(d) = e[Len(d)]
                /\ \A n \in 1 .. Len(d) : e[n] = e[n - 1] \o d[n]
<1>1. Len(d) \in Nat /\ \A n \in 1 .. Len(d) : d[n] \in Seq(Symbols)
  BY LenProperties
<1>2. CASE Len(d) = 0
  <2> DEFINE e == [n \in {0} |-> <<>>]
  <2>1. d = <<>>
    BY <1>2, EmptySeq
  <2>2. FlattenSeq(d) = e[0]
    BY <1>2, <2>1 DEF FlattenSeq
  <2>3. e[0] = <<>> /\ FlattenSeq(d) = e[Len(d)] /\ 1 .. Len(d) = {}
    BY <1>2, <2>2
  <2> QED BY <2>3
<1>3. CASE Len(d) # 0
  <2> DEFINE f == CHOOSE g : g = [i \in 1 .. Len(d) |-> IF i = 1 THEN d[i] ELSE g[i - 1] \o d[i]]
             e == [n \in 0 .. Len(d) |-> IF n = 0 THEN <<>> ELSE f[n]]
  <2>1. f = [i \in 1 .. Len(d) |-> IF i = 1 THEN d[i] ELSE f[i - 1] \o d[i]]
    BY <1>1, FlattenThere
  <2>2. FlattenSeq(d) = f[Len(d)]
    BY <1>3, FlattenIs
  <2> HIDE DEF f
  <2>3. e[0] = <<>> /\ FlattenSeq(d) = e[Len(d)]
    <3>1. 0 \in 0 .. Len(d) /\ Len(d) \in 0 .. Len(d)
      BY <1>1
    <3> QED BY <1>3, <2>2, <3>1
  <2>4. ASSUME NEW n \in 1 .. Len(d) PROVE e[n] = e[n - 1] \o d[n]
    <3>1. n \in 0 .. Len(d) /\ n - 1 \in 0 .. Len(d) /\ n # 0
      BY <1>1
    <3>2. CASE n = 1
      <4>1. f[1] = d[1] /\ d[1] \in Seq(Symbols)
        BY <1>1, <2>1, <3>2
      <4>2. <<>> \o d[1] = d[1]
        BY <4>1, ConcatEmptySeq
      <4>3. e[n] = d[1] /\ e[n - 1] = <<>>
        BY <3>1, <3>2, <4>1
      <4> HIDE DEF e
      <4> QED BY <3>2, <4>2, <4>3
    <3>3. CASE n # 1
      <4>1. f[n] = f[n - 1] \o d[n]
        BY <2>1, <3>3
      <4>2. n - 1 # 0
        BY <3>3
      <4>3. e[n] = f[n] /\ e[n - 1] = f[n - 1]
        BY <3>1, <4>2
      <4> HIDE DEF e
      <4> QED BY <4>1, <4>3
    <3> QED BY <3>2, <3>3
  <2> HIDE DEF e
  <2> QED BY <2>3, <2>4
<1> QED BY <1>2, <1>3

-----------------------------------------------------------------------------
(* The steps of the two readers.                                           *)

Parts == {"ok", "calls", "nest", "at"}

LEMMA RIs ==
  ASSUME NEW C, NEW N, NEW A
  PROVE  R(C, N, A) = [f \in Parts |-> R(C, N, A)[f]]
  BY DEF R, Parts

(* What Go, Pushed and Popped make of such a reader.                       *)
LEMMA Gone ==
  ASSUME NEW C, NEW N, NEW A, NEW at, NEW s
  PROVE  Go(R(C, N, A), at, s) = R(C \o s, N, at)
<1> DEFINE q == R(C, N, A)
           t == R(C \o s, N, at)
           T == C \o s
<1>1. q = [f \in Parts |-> q[f]] /\ t = [f \in Parts |-> t[f]]
  BY RIs
<1>2. q.ok = TRUE /\ q.nest = N /\ q.calls = C
  BY DEF R
<1>3. t.ok = TRUE /\ t.nest = N /\ t.calls = T /\ t.at = at
  BY DEF R
<1>4. Go(q, at, s) = [q EXCEPT !.at = at, !.calls = T]
  BY <1>2 DEF Go
<1> HIDE DEF q, t, T
<1>5. [q EXCEPT !.at = at, !.calls = T] = t
  BY <1>1, <1>2, <1>3 DEF Parts
<1> QED BY <1>4, <1>5 DEF q, t, T

LEMMA GoneQuietly ==
  ASSUME NEW C \in Seq(Symbols), NEW N, NEW A, NEW at
  PROVE  Go(R(C, N, A), at, <<>>) = R(C, N, at)
<1>1. C \o <<>> = C
  BY ConcatEmptySeq
<1>2. \A s : Go(R(C, N, A), at, s) = R(C \o s, N, at)
  <2> SUFFICES ASSUME NEW s PROVE Go(R(C, N, A), at, s) = R(C \o s, N, at)
    OBVIOUS
  <2> QED BY ONLY Gone
<1>3. Go(R(C, N, A), at, <<>>) = R(C \o <<>>, N, at)
  BY ONLY <1>2
<1> QED BY <1>1, <1>3

LEMMA GoneNested ==
  ASSUME NEW C, NEW N, NEW A, NEW at, NEW s, NEW c
  PROVE  /\ Pushed(R(C, N, A), c, at, s) = R(C \o s, Append(N, c), at)
         /\ Popped(R(C, N, A), at, s) = R(C \o s, Front(N), at)
<1> DEFINE q == R(C \o s, N, at)
           r == R(C, N, A)
           M(n) == [q EXCEPT !.nest = n]
<1>1. q.nest = N /\ q = [f \in Parts |-> q[f]]
  BY RIs DEF R
<1>2. q.ok = TRUE /\ q.calls = C \o s /\ q.at = at
  BY DEF R
<1>3. ASSUME NEW n PROVE M(n) = R(C \o s, n, at)
  <2> DEFINE t == R(C \o s, n, at)
             T == C \o s
  <2>1. t = [f \in Parts |-> t[f]] /\ t.ok = TRUE /\ t.nest = n /\ t.calls = T /\ t.at = at
    BY RIs DEF R
  <2>2. q.calls = T
    BY <1>2
  <2> HIDE DEF q, t, T
  <2>3. [q EXCEPT !.nest = n] = t
    BY <1>1, <1>2, <2>1, <2>2 DEF Parts
  <2> QED BY <2>3 DEF t, T
<1>4. Go(r, at, s) = q
  BY Gone
<1> HIDE DEF q, r
<1>5. Pushed(r, c, at, s) = M(Append(N, c))
  BY <1>1, <1>4 DEF Pushed
<1>6. Popped(r, at, s) = M(Front(N))
  BY <1>1, <1>4 DEF Popped
<1> HIDE DEF M
<1> QED BY <1>3, <1>5, <1>6 DEF q, r

LEMMA GonePopped ==
  ASSUME NEW C, NEW N, NEW A, NEW at, NEW s
  PROVE  Popped(R(C, N, A), at, s) = R(C \o s, Front(N), at)
<1>1. /\ Pushed(R(C, N, A), "e", at, s) = R(C \o s, Append(N, "e"), at)
      /\ Popped(R(C, N, A), at, s) = R(C \o s, Front(N), at)
  BY ONLY GoneNested
<1> QED BY ONLY <1>1

LEMMA RParts ==
  ASSUME NEW C, NEW N, NEW A
  PROVE  R(C, N, A).ok /\ R(C, N, A).calls = C /\ R(C, N, A).nest = N /\ R(C, N, A).at = A
BY DEF R

LEMMA Good ==
  ASSUME NEW r, r.ok, NEW c
  PROVE  Read("json", r, c) = ReadJson(r, c) /\ Read("xml", r, c) = ReadXml(r, c)
BY DEF Read

(* The cases of the readers.                                               *)
InString == {"quote", "backslash"} \cup Controls   \* what is not in a string of JSON as it is

LEMMA InStringIs ==
  ASSUME NEW c
  PROVE  c \notin InString => c # "quote" /\ c # "backslash" /\ c \notin Controls
BY DEF InString

LEMMA JsonTextCases ==
  ASSUME NEW r, NEW c
  PROVE  /\ r.at = "text" /\ c \notin InString => ReadJson(r, c) = Go(r, "text", <<c>>)
         /\ r.at = "text" /\ c = "backslash" => ReadJson(r, c) = Go(r, "escape", <<>>)
         /\ r.at = "text" /\ c = "quote" => ReadJson(r, c) = Go(r, "next", <<>>)
         /\ r.at = "escape" /\ c \in DOMAIN Escaped =>
                ReadJson(r, c) = Go(r, "text", <<Escaped[c]>>)
         /\ r.at = "key_text" /\ c \notin InString => ReadJson(r, c) = Go(r, "key_text", <<c>>)
         /\ r.at = "key_text" /\ c = "backslash" => ReadJson(r, c) = Go(r, "key_escape", <<>>)
         /\ r.at = "key_text" /\ c = "quote" => ReadJson(r, c) = Go(r, "colon", <<>>)
         /\ r.at = "key_escape" /\ c \in DOMAIN Escaped =>
                ReadJson(r, c) = Go(r, "key_text", <<Escaped[c]>>)
<1>1. ASSUME NEW escape, NEW end
      PROVE  /\ c \notin InString => ReadString(r, c, escape, end) = Go(r, r.at, <<c>>)
             /\ c = "backslash" => ReadString(r, c, escape, end) = Go(r, escape, <<>>)
             /\ c = "quote" => ReadString(r, c, escape, end) = Go(r, end, <<>>)
  <2>1. ASSUME c \notin InString PROVE ReadString(r, c, escape, end) = Go(r, r.at, <<c>>)
    <3>1. c # "quote" /\ c # "backslash" /\ c \notin Controls
      BY <2>1, InStringIs
    <3> QED BY <3>1 DEF ReadString
  <2>2. ASSUME c = "backslash" PROVE ReadString(r, c, escape, end) = Go(r, escape, <<>>)
    BY <2>2 DEF ReadString, Controls
  <2>3. ASSUME c = "quote" PROVE ReadString(r, c, escape, end) = Go(r, end, <<>>)
    BY <2>3 DEF ReadString, Controls
  <2> QED BY <2>1, <2>2, <2>3
<1>2. ASSUME NEW text, c \in DOMAIN Escaped
      PROVE  ReadEscape(r, c, text) = Go(r, text, <<Escaped[c]>>)
  <2> HIDE DEF Escaped
  <2> QED BY <1>2 DEF ReadEscape
<1>3. ASSUME r.at = "text" PROVE ReadJson(r, c) = ReadString(r, c, "escape", "next")
  BY <1>3 DEF ReadJson
<1>4. ASSUME r.at = "escape" PROVE ReadJson(r, c) = ReadEscape(r, c, "text")
  BY <1>4 DEF ReadJson
<1>5. ASSUME r.at = "key_text" PROVE ReadJson(r, c) = ReadString(r, c, "key_escape", "colon")
  BY <1>5 DEF ReadJson
<1>6. ASSUME r.at = "key_escape" PROVE ReadJson(r, c) = ReadEscape(r, c, "key_text")
  BY <1>6 DEF ReadJson
<1> QED BY <1>1, <1>2, <1>3, <1>4, <1>5, <1>6

LEMMA JsonEscapeCases ==
  ASSUME NEW C, NEW N, NEW c, c \in DOMAIN Escaped
  PROVE  /\ ReadJson(R(C, N, "escape"), c) = Go(R(C, N, "escape"), "text", <<Escaped[c]>>)
         /\ ReadJson(R(C, N, "key_escape"), c) =
              Go(R(C, N, "key_escape"), "key_text", <<Escaped[c]>>)
<1>1. ASSUME NEW r, r.at = "escape" PROVE ReadJson(r, c) = Go(r, "text", <<Escaped[c]>>)
  BY ONLY <1>1, c \in DOMAIN Escaped, JsonTextCases
<1>2. ASSUME NEW r, r.at = "key_escape" PROVE ReadJson(r, c) = Go(r, "key_text", <<Escaped[c]>>)
  BY ONLY <1>2, c \in DOMAIN Escaped, JsonTextCases
<1>3. R(C, N, "escape").at = "escape" /\ R(C, N, "key_escape").at = "key_escape"
  BY ONLY RParts
<1> QED BY ONLY <1>1, <1>2, <1>3

JsonTexts == {"text", "escape", "key_text", "key_escape"}

LEMMA JsonBlankCase ==
  ASSUME NEW r, NEW c \in Blank, r.at \notin JsonTexts
  PROVE  ReadJson(r, c) = r
<1>1. r.at # "text" /\ r.at # "escape" /\ r.at # "key_text" /\ r.at # "key_escape"
  BY DEF JsonTexts
<1>2. CASE c = "space"
  BY <1>1, <1>2 DEF ReadJson, Blank
<1>3. CASE c = "nl"
  BY <1>1, <1>3 DEF ReadJson, Blank
<1> QED BY <1>2, <1>3 DEF Blank

LEMMA JsonValueCases ==
  ASSUME NEW r, r.at \in {"value", "value_or_end"}
  PROVE  /\ ReadJson(r, "lbrace") = Pushed(r, "object", "key_or_end", <<"object">>)
         /\ ReadJson(r, "lbracket") = Pushed(r, "array", "value_or_end", <<"array">>)
         /\ ReadJson(r, "quote") = Go(r, "text", <<"value">>)
         /\ ReadJson(r, "1") = Go(r, "next", <<"1">>)
         /\ ReadJson(r, "null") = Go(r, "next", <<"null">>)
<1>1. ASSUME NEW a, a = r.at, a \in {"value", "value_or_end"}, NEW c
      PROVE  /\ c = "lbrace" => ReadJson(r, c) = Pushed(r, "object", "key_or_end", <<"object">>)
             /\ c = "lbracket" => ReadJson(r, c) = Pushed(r, "array", "value_or_end", <<"array">>)
             /\ c = "quote" => ReadJson(r, c) = Go(r, "text", <<"value">>)
             /\ c \in {"1", "null"} => ReadJson(r, c) = Go(r, "next", <<c>>)
  <2>1. ASSUME c = "lbrace"
        PROVE  ReadJson(r, c) = Pushed(r, "object", "key_or_end", <<"object">>)
    BY <1>1, <2>1 DEF ReadJson, Blank
  <2>2. ASSUME c = "lbracket"
        PROVE  ReadJson(r, c) = Pushed(r, "array", "value_or_end", <<"array">>)
    BY <1>1, <2>2 DEF ReadJson, Blank
  <2>3. ASSUME c = "quote" PROVE ReadJson(r, c) = Go(r, "text", <<"value">>)
    BY <1>1, <2>3 DEF ReadJson, Blank
  <2>4. ASSUME c = "1" PROVE ReadJson(r, c) = Go(r, "next", <<c>>)
    BY <1>1, <2>4 DEF ReadJson, Blank
  <2>5. ASSUME c = "null" PROVE ReadJson(r, c) = Go(r, "next", <<c>>)
    BY <1>1, <2>5 DEF ReadJson, Blank
  <2> QED BY <2>1, <2>2, <2>3, <2>4, <2>5
<1> QED BY <1>1

LEMMA JsonPunctuationCases ==
  ASSUME NEW r, r.nest # <<>>, NEW c
  PROVE  /\ c = "comma" /\ r.at = "next" /\ Last(r.nest) = "object" =>
                ReadJson(r, c) = Go(r, "key", <<>>)
         /\ c = "comma" /\ r.at = "next" /\ Last(r.nest) = "array" =>
                ReadJson(r, c) = Go(r, "value", <<>>)
         /\ c = "rbrace" /\ r.at \in {"next", "key_or_end"} /\ Last(r.nest) = "object"
              => ReadJson(r, c) = Popped(r, "next", <<"object_end">>)
         /\ c = "rbracket" /\ r.at \in {"next", "value_or_end"} /\ Last(r.nest) = "array"
              => ReadJson(r, c) = Popped(r, "next", <<"array_end">>)
         /\ c = "quote" /\ r.at \in {"key", "key_or_end"} =>
                ReadJson(r, c) = Go(r, "key_text", <<"key">>)
         /\ c = "colon" /\ r.at = "colon" => ReadJson(r, c) = Go(r, "value", <<>>)
<1> DEFINE n == Last(r.nest)
<1>1. ASSUME c = "comma", r.at = "next", n = "object" PROVE ReadJson(r, c) = Go(r, "key", <<>>)
  BY <1>1 DEF ReadJson, Blank
<1>2. ASSUME c = "comma", r.at = "next", n = "array" PROVE ReadJson(r, c) = Go(r, "value", <<>>)
  BY <1>2 DEF ReadJson, Blank
<1>3. ASSUME c = "rbrace", r.at \in {"next", "key_or_end"}, n = "object"
      PROVE  ReadJson(r, c) = Popped(r, "next", <<"object_end">>)
  <2>1. CASE r.at = "next"
    BY <1>3, <2>1 DEF ReadJson, Blank
  <2>2. CASE r.at = "key_or_end"
    BY <1>3, <2>2 DEF ReadJson, Blank
  <2> QED BY <1>3, <2>1, <2>2
<1>4. ASSUME c = "rbracket", r.at \in {"next", "value_or_end"}, n = "array"
      PROVE  ReadJson(r, c) = Popped(r, "next", <<"array_end">>)
  <2>1. CASE r.at = "next"
    BY <1>4, <2>1 DEF ReadJson, Blank
  <2>2. CASE r.at = "value_or_end"
    BY <1>4, <2>2 DEF ReadJson, Blank
  <2> QED BY <1>4, <2>1, <2>2
<1>5. ASSUME c = "quote", r.at \in {"key", "key_or_end"}
      PROVE ReadJson(r, c) = Go(r, "key_text", <<"key">>)
  <2>1. CASE r.at = "key"
    BY <1>5, <2>1 DEF ReadJson, Blank
  <2>2. CASE r.at = "key_or_end"
    BY <1>5, <2>2 DEF ReadJson, Blank
  <2> QED BY <1>5, <2>1, <2>2
<1>6. ASSUME c = "colon", r.at = "colon" PROVE ReadJson(r, c) = Go(r, "value", <<>>)
  BY <1>6 DEF ReadJson, Blank
<1> QED BY <1>1, <1>2, <1>3, <1>4, <1>5, <1>6

InTag == {"less", "ampersand", "declaration"}   \* what is not in a text of XML as it is

LEMMA XmlOutsideCases ==
  ASSUME NEW r, r.at = "value", NEW c
  PROVE  /\ c \in Blank => ReadXml(r, c) = r
         /\ c = "less" => ReadXml(r, c) = Go(r, "name", <<>>)
         /\ c = "declaration" /\ r.calls = <<>> => ReadXml(r, c) = r
         /\ c \notin Blank /\ c \notin InTag /\ r.nest # <<>> =>
              ReadXml(r, c) = Go(r, "value", <<Meaning(c)>>)
<1>1. ASSUME c \in Blank PROVE ReadXml(r, c) = r
  <2>1. c # "less"
    BY <1>1 DEF Blank
  <2> QED BY <1>1, <2>1 DEF ReadXml
<1>2. ASSUME c = "less" PROVE ReadXml(r, c) = Go(r, "name", <<>>)
  BY <1>2 DEF ReadXml, Blank
<1>3. ASSUME c = "declaration", r.calls = <<>> PROVE ReadXml(r, c) = r
  BY <1>3 DEF ReadXml, Blank
<1>4. ASSUME c \notin Blank, c \notin InTag, r.nest # <<>>
      PROVE  ReadXml(r, c) = Go(r, "value", <<Meaning(c)>>)
  <2>1. c # "less" /\ c # "declaration" /\ c \notin Blank \cup {"less", "ampersand", "declaration"}
    BY <1>4 DEF InTag
  <2> QED BY <1>4, <2>1 DEF ReadXml
<1> QED BY <1>1, <1>2, <1>3, <1>4

LEMMA XmlTagCases ==
  ASSUME NEW r, NEW c
  PROVE  /\ r.at = "name" /\ c = "slash" => ReadXml(r, c) = Go(r, "end_name", <<>>)
         /\ r.at = "name" /\ c # "slash" => ReadXml(r, c) = Pushed(r, c, "tag", <<"element", c>>)
         /\ r.at = "tag" /\ c = "greater" => ReadXml(r, c) = Go(r, "value", <<>>)
         /\ r.at = "tag" /\ c = "slash" => ReadXml(r, c) = Go(r, "end_tag", <<>>)
         /\ r.at = "end_name" /\ r.nest # <<>> /\ c = Last(r.nest)
              => ReadXml(r, c) = Go(r, "end_tag", <<>>)
         /\ r.at = "end_tag" /\ r.nest # <<>> /\ c = "greater" =>
                ReadXml(r, c) = Popped(r, "value", <<"end">>)
<1>1. ASSUME r.at = "name", c = "slash" PROVE ReadXml(r, c) = Go(r, "end_name", <<>>)
  BY <1>1 DEF ReadXml
<1>2. ASSUME r.at = "name", c # "slash" PROVE ReadXml(r, c) = Pushed(r, c, "tag", <<"element", c>>)
  BY <1>2 DEF ReadXml
<1>3. ASSUME r.at = "tag", c = "greater" PROVE ReadXml(r, c) = Go(r, "value", <<>>)
  BY <1>3 DEF ReadXml
<1>4. ASSUME r.at = "tag", c = "slash" PROVE ReadXml(r, c) = Go(r, "end_tag", <<>>)
  BY <1>4 DEF ReadXml
<1>5. ASSUME r.at = "end_name", r.nest # <<>>, c = Last(r.nest)
      PROVE  ReadXml(r, c) = Go(r, "end_tag", <<>>)
  BY <1>5 DEF ReadXml
<1>6. ASSUME r.at = "end_tag", r.nest # <<>>, c = "greater"
      PROVE  ReadXml(r, c) = Popped(r, "value", <<"end">>)
  BY <1>6 DEF ReadXml
<1> QED BY <1>1, <1>2, <1>3, <1>4, <1>5, <1>6

LEMMA XmlAttributeCases ==
  ASSUME NEW r, NEW c
  PROVE  /\ r.at = "tag" /\ c = "space" => ReadXml(r, c) = Go(r, "attribute", <<"attribute">>)
         /\ r.at = "attribute" /\ c # "equals" => ReadXml(r, c) = Go(r, "equals", <<c>>)
         /\ r.at = "equals" /\ c = "equals" => ReadXml(r, c) = Go(r, "quote", <<>>)
         /\ r.at = "quote" /\ c = "quote" => ReadXml(r, c) = Go(r, "attribute_text", <<>>)
         /\ r.at = "attribute_text" /\ c = "quote" =>
              ReadXml(r, c) = Go(r, "tag", <<"attribute_end">>)
         /\ r.at = "attribute_text" /\ c \notin {"quote", "less", "ampersand"}
              => ReadXml(r, c) = Go(r, "attribute_text", <<Meaning(c)>>)
<1>1. ASSUME r.at = "tag", c = "space" PROVE ReadXml(r, c) = Go(r, "attribute", <<"attribute">>)
  BY <1>1 DEF ReadXml
<1>2. ASSUME r.at = "attribute", c # "equals" PROVE ReadXml(r, c) = Go(r, "equals", <<c>>)
  BY <1>2 DEF ReadXml
<1>3. ASSUME r.at = "equals", c = "equals" PROVE ReadXml(r, c) = Go(r, "quote", <<>>)
  BY <1>3 DEF ReadXml
<1>4. ASSUME r.at = "quote", c = "quote" PROVE ReadXml(r, c) = Go(r, "attribute_text", <<>>)
  BY <1>4 DEF ReadXml
<1>5. ASSUME r.at = "attribute_text", c = "quote"
      PROVE  ReadXml(r, c) = Go(r, "tag", <<"attribute_end">>)
  BY <1>5 DEF ReadXml
<1>6. ASSUME r.at = "attribute_text", c \notin {"quote", "less", "ampersand"}
      PROVE  ReadXml(r, c) = Go(r, "attribute_text", <<Meaning(c)>>)
  BY <1>6 DEF ReadXml
<1> QED BY <1>1, <1>2, <1>3, <1>4, <1>5, <1>6

-----------------------------------------------------------------------------
(* What the reader makes of a text and of one symbol more.                 *)

(* A text that reads as C, with N open.                                    *)
At(K, t, C, N, A) == t \in Seq(Symbols) /\ C \in Seq(Symbols) /\ Reading(K, t) = R(C, N, A)

LEMMA AtOne ==
  ASSUME NEW K, NEW t, NEW C, NEW N, NEW A, At(K, t, C, N, A), NEW c \in Symbols,
         NEW D \in Seq(Symbols), NEW M, NEW B, Read(K, R(C, N, A), c) = R(D, M, B)
  PROVE  At(K, t \o <<c>>, D, M, B)
BY OneMore DEF At

LEMMA AtBlanks ==
  ASSUME NEW K, NEW t, NEW C, NEW N, NEW A, At(K, t, C, N, A), NEW s \in Seq(Blank),
         \A c \in Blank : Read(K, R(C, N, A), c) = R(C, N, A)
  PROVE  At(K, t \o s, C, N, A)
<1> DEFINE G == {n \in Nat : n <= Len(s) => At(K, t \o SubSeq(s, 1, n), C, N, A)}
<1>1. Len(s) \in Nat
  BY LenProperties
<1>2. 0 \in G
  <2>1. t \o <<>> = t
    BY ConcatEmptySeq DEF At
  <2> QED BY <2>1, FirstNone
<1>3. ASSUME NEW n \in Nat, n \in G PROVE n + 1 \in G
  <2>1. SUFFICES ASSUME n + 1 <= Len(s) PROVE At(K, t \o SubSeq(s, 1, n + 1), C, N, A)
    OBVIOUS
  <2>2. n < Len(s) /\ At(K, t \o SubSeq(s, 1, n), C, N, A)
    BY <1>1, <1>3, <2>1
  <2>3. /\ s[n + 1] \in Blank /\ SubSeq(s, 1, n) \in Seq(Blank)
        /\ SubSeq(s, 1, n + 1) = SubSeq(s, 1, n) \o <<s[n + 1]>>
    BY <2>2, FirstOneMore
  <2>4. \A x \in Blank : x \in Symbols
    BY DEF Blank, Symbols, Literals
  <2> DEFINE x == t \o SubSeq(s, 1, n)
             c == s[n + 1]
  <2>5. At(K, x \o <<c>>, C, N, A)
    <3>1. c \in Symbols /\ Read(K, R(C, N, A), c) = R(C, N, A) /\ C \in Seq(Symbols)
      BY <2>3, <2>4 DEF At
    <3>2. At(K, x, C, N, A)
      BY <2>2
    <3> HIDE DEF x, c
    <3> QED BY <3>1, <3>2, AtOne
  <2>6. SubSeq(s, 1, n) \in Seq(Symbols) /\ <<s[n + 1]>> \in Seq(Symbols) /\ t \in Seq(Symbols)
    BY <2>2, <2>3, <2>4, SeqMonotonic DEF At
  <2>7. (t \o SubSeq(s, 1, n)) \o <<s[n + 1]>> = t \o SubSeq(s, 1, n + 1)
    <3>1. (t \o SubSeq(s, 1, n)) \o <<s[n + 1]>> = t \o (SubSeq(s, 1, n) \o <<s[n + 1]>>)
      BY <2>6, Joined
    <3> QED BY <2>3, <3>1
  <2> QED BY <2>5, <2>7
<1> HIDE DEF G
<1>4. Len(s) \in G
  BY <1>1, <1>2, <1>3, Inductive
<1>5. At(K, t \o SubSeq(s, 1, Len(s)), C, N, A)
  BY <1>1, <1>4 DEF G
<1>6. SubSeq(s, 1, Len(s)) = s
  BY SubSeqFull
<1> QED BY <1>5, <1>6

(* A text u that the reader takes, symbol by symbol, for v.                *)
LEMMA AtMapped ==
  ASSUME NEW K, NEW t, NEW C, NEW N, NEW A, At(K, t, C, N, A),
         NEW u \in Seq(Symbols), NEW v \in Seq(Symbols), Len(u) = Len(v),
         \A n \in 1 .. Len(v) : \A D \in Seq(Symbols) :
           Read(K, R(D, N, A), u[n]) = R(D \o <<v[n]>>, N, A)
  PROVE  At(K, t \o u, C \o v, N, A)
<1> DEFINE d == [n \in 1 .. Len(v) |-> <<u[n]>>]
           e == [n \in 0 .. Len(v) |-> SubSeq(u, 1, n)]
<1>1. /\ Len(v) \in Nat /\ C \in Seq(Symbols) /\ t \in Seq(Symbols)
      /\ \A n \in 1 .. Len(v) : u[n] \in Symbols /\ v[n] \in Symbols
  BY LenProperties DEF At
<1>2. e[0] = <<>> /\ e[Len(v)] = u
  <2>1. SubSeq(u, 1, Len(v)) = u
    BY SubSeqFull
  <2>2. 0 \in 0 .. Len(v) /\ Len(v) \in 0 .. Len(v)
    BY <1>1
  <2> QED BY <2>1, <2>2, FirstNone
<1>3. ASSUME NEW n \in 1 .. Len(v) PROVE d[n] \in Seq(Symbols) /\ e[n] = e[n - 1] \o d[n]
  <2> DEFINE m == n - 1
  <2>1. m \in Nat /\ m < Len(u) /\ m + 1 = n /\ n \in 0 .. Len(v) /\ m \in 0 .. Len(v)
    BY <1>1
  <2>2. d[n] = <<u[n]>> /\ e[n] = SubSeq(u, 1, n) /\ e[m] = SubSeq(u, 1, m)
    BY <2>1
  <2> HIDE DEF m, d, e
  <2>3. SubSeq(u, 1, m + 1) = SubSeq(u, 1, m) \o <<u[m + 1]>>
    BY <2>1, FirstOneMore
  <2>4. <<u[n]>> \in Seq(Symbols)
    BY <1>1
  <2>5. e[n] = e[m] \o d[n]
    BY <2>1, <2>2, <2>3
  <2> QED BY <2>2, <2>4, <2>5 DEF m
<1>4. ASSUME NEW n \in 1 .. Len(v), NEW x \in Seq(Symbols), NEW D \in Seq(Symbols),
             Reading(K, x) = R(D, N, A)
      PROVE  Reading(K, x \o d[n]) = R(D \o <<v[n]>>, N, A)
  <2>1. u[n] \in Symbols /\ d[n] = <<u[n]>>
    BY <1>1
  <2> HIDE DEF d
  <2>2. Reading(K, x \o <<u[n]>>) = Read(K, R(D, N, A), u[n])
    BY <1>4, <2>1, OneMore
  <2> QED BY <2>1, <2>2
<1> HIDE DEF d, e
<1>5. Reading(K, t) = R(C, N, A)
  BY DEF At
<1>6. /\ t \o e[Len(v)] \in Seq(Symbols) /\ C \o v \in Seq(Symbols)
      /\ Reading(K, t \o e[Len(v)]) = R(C \o v, N, A)
  <2>1. \A n \in 1 .. Len(v) : d[n] \in Seq(Symbols) /\ e[n] = e[n - 1] \o d[n]
    BY <1>3
  <2>2. \A n \in 1 .. Len(v) : \A x \in Seq(Symbols), D \in Seq(Symbols) :
          Reading(K, x) = R(D, N, A) => Reading(K, x \o d[n]) = R(D \o <<v[n]>>, N, A)
    BY <1>4
  <2>3. ByPieces(K, N, A, v, d, e)
    BY <1>2, <2>1, <2>2 DEF ByPieces
  <2> QED BY <1>1, <1>5, <2>3, PiecesRead
<1> QED BY <1>2, <1>6 DEF At

LEMMA FlattenedIn ==
  ASSUME NEW S, S \subseteq Symbols, NEW d \in Seq(Seq(S))
  PROVE  FlattenSeq(d) \in Seq(S)
<1>1. Len(d) \in Nat /\ \A n \in 1 .. Len(d) : d[n] \in Seq(S)
  BY LenProperties
<1>2. d \in Seq(Seq(Symbols))
  <2>1. \A x \in Seq(S) : x \in Seq(Symbols)
    BY SeqMonotonic
  <2>2. Seq(S) \subseteq Seq(Symbols)
    BY <2>1
  <2> QED BY <2>2, SeqMonotonic
<1>3. PICK e : /\ e[0] = <<>> /\ FlattenSeq(d) = e[Len(d)]
               /\ \A n \in 1 .. Len(d) : e[n] = e[n - 1] \o d[n]
  BY <1>2, Flattened
<1> DEFINE G == {n \in Nat : n <= Len(d) => e[n] \in Seq(S)}
<1>4. 0 \in G
  BY <1>3, EmptySeq
<1>5. ASSUME NEW n \in Nat, n \in G PROVE n + 1 \in G
  <2>1. SUFFICES ASSUME n + 1 <= Len(d) PROVE e[n + 1] \in Seq(S)
    OBVIOUS
  <2>2. n + 1 \in 1 .. Len(d) /\ (n + 1) - 1 = n /\ e[n] \in Seq(S)
    BY <1>1, <1>5, <2>1
  <2>3. e[n + 1] = e[n] \o d[n + 1] /\ d[n + 1] \in Seq(S)
    BY <1>1, <1>3, <2>2
  <2>4. e[n] \o d[n + 1] \in Seq(S)
    BY <2>2, <2>3, ConcatProperties
  <2> QED BY <2>3, <2>4
<1> HIDE DEF G
<1>6. Len(d) \in G
  BY <1>1, <1>4, <1>5, Inductive
<1> QED BY <1>1, <1>3, <1>6 DEF G

IsText(C) == C \in Seq(Symbols)

LEMMA JsonGood ==
  ASSUME NEW C, NEW N, NEW A, NEW c
  PROVE  Read("json", R(C, N, A), c) = ReadJson(R(C, N, A), c)
<1>1. R(C, N, A).ok
  BY RParts
<1> QED BY <1>1, Good

LEMMA XmlGood ==
  ASSUME NEW C, NEW N, NEW A, NEW c
  PROVE  Read("xml", R(C, N, A), c) = ReadXml(R(C, N, A), c)
<1>1. R(C, N, A).ok
  BY RParts
<1> QED BY <1>1, Good

(* What the reader of JSON makes of a symbol.                              *)
LEMMA AtText ==
  ASSUME NEW C, IsText(C), NEW N, NEW c
  PROVE  /\ c \notin InString =>
              Read("json", R(C, N, "text"), c) = R(C \o <<c>>, N, "text")
         /\ Read("json", R(C, N, "text"), "backslash") = R(C, N, "escape")
         /\ c \in DOMAIN Escaped =>
              Read("json", R(C, N, "escape"), c) = R(C \o <<Escaped[c]>>, N, "text")
         /\ Read("json", R(C, N, "text"), "quote") = R(C, N, "next")
<1>1. \A B : R(C, N, B).at = B /\ R(C, N, B).nest = N /\ R(C, N, B).calls = C
  BY RParts
<1>2. ASSUME c \notin InString
      PROVE  Read("json", R(C, N, "text"), c) = R(C \o <<c>>, N, "text")
  <2>1. ReadJson(R(C, N, "text"), c) = Go(R(C, N, "text"), "text", <<c>>)
    BY <1>1, <1>2, JsonTextCases
  <2>2. Read("json", R(C, N, "text"), c) = ReadJson(R(C, N, "text"), c)
    BY JsonGood
  <2>3. Go(R(C, N, "text"), "text", <<c>>) = R(C \o <<c>>, N, "text")
    BY Gone
  <2> QED BY <2>1, <2>2, <2>3
<1>3. Read("json", R(C, N, "text"), "backslash") = R(C, N, "escape")
  <2>1. ReadJson(R(C, N, "text"), "backslash") = Go(R(C, N, "text"), "escape", <<>>)
    BY <1>1, JsonTextCases
  <2>2. Read("json", R(C, N, "text"), "backslash") = ReadJson(R(C, N, "text"), "backslash")
    BY JsonGood
  <2>3. Go(R(C, N, "text"), "escape", <<>>) = R(C, N, "escape")
    BY GoneQuietly DEF IsText
  <2> QED BY <2>1, <2>2, <2>3
<1>4. ASSUME c \in DOMAIN Escaped
      PROVE  Read("json", R(C, N, "escape"), c) = R(C \o <<Escaped[c]>>, N, "text")
  <2>1. ReadJson(R(C, N, "escape"), c) = Go(R(C, N, "escape"), "text", <<Escaped[c]>>)
    BY <1>4, JsonEscapeCases
  <2>2. Read("json", R(C, N, "escape"), c) = ReadJson(R(C, N, "escape"), c)
    BY JsonGood
  <2>3. Go(R(C, N, "escape"), "text", <<Escaped[c]>>) = R(C \o <<Escaped[c]>>, N, "text")
    BY Gone
  <2> QED BY <2>1, <2>2, <2>3
<1>5. Read("json", R(C, N, "text"), "quote") = R(C, N, "next")
  <2>1. ReadJson(R(C, N, "text"), "quote") = Go(R(C, N, "text"), "next", <<>>)
    BY <1>1, JsonTextCases
  <2>2. Read("json", R(C, N, "text"), "quote") = ReadJson(R(C, N, "text"), "quote")
    BY JsonGood
  <2>3. Go(R(C, N, "text"), "next", <<>>) = R(C, N, "next")
    BY GoneQuietly DEF IsText
  <2> QED BY <2>1, <2>2, <2>3
<1> QED BY <1>2, <1>3, <1>4, <1>5

LEMMA AtKeyText ==
  ASSUME NEW C, IsText(C), NEW N, NEW c
  PROVE  /\ c \notin InString =>
              Read("json", R(C, N, "key_text"), c) = R(C \o <<c>>, N, "key_text")
         /\ Read("json", R(C, N, "key_text"), "backslash") = R(C, N, "key_escape")
         /\ c \in DOMAIN Escaped =>
              Read("json", R(C, N, "key_escape"), c) = R(C \o <<Escaped[c]>>, N, "key_text")
         /\ Read("json", R(C, N, "key_text"), "quote") = R(C, N, "colon")
<1>1. \A B : R(C, N, B).at = B /\ R(C, N, B).nest = N /\ R(C, N, B).calls = C
  BY RParts
<1>2. ASSUME c \notin InString
      PROVE  Read("json", R(C, N, "key_text"), c) = R(C \o <<c>>, N, "key_text")
  <2>1. ReadJson(R(C, N, "key_text"), c) = Go(R(C, N, "key_text"), "key_text", <<c>>)
    BY <1>1, <1>2, JsonTextCases
  <2>2. Read("json", R(C, N, "key_text"), c) = ReadJson(R(C, N, "key_text"), c)
    BY JsonGood
  <2>3. Go(R(C, N, "key_text"), "key_text", <<c>>) = R(C \o <<c>>, N, "key_text")
    BY Gone
  <2> QED BY <2>1, <2>2, <2>3
<1>3. Read("json", R(C, N, "key_text"), "backslash") = R(C, N, "key_escape")
  <2>1. ReadJson(R(C, N, "key_text"), "backslash") = Go(R(C, N, "key_text"), "key_escape", <<>>)
    BY <1>1, JsonTextCases
  <2>2. Read("json", R(C, N, "key_text"), "backslash") = ReadJson(R(C, N, "key_text"), "backslash")
    BY JsonGood
  <2>3. Go(R(C, N, "key_text"), "key_escape", <<>>) = R(C, N, "key_escape")
    BY GoneQuietly DEF IsText
  <2> QED BY <2>1, <2>2, <2>3
<1>4. ASSUME c \in DOMAIN Escaped
      PROVE  Read("json", R(C, N, "key_escape"), c) = R(C \o <<Escaped[c]>>, N, "key_text")
  <2>1. ReadJson(R(C, N, "key_escape"), c) = Go(R(C, N, "key_escape"), "key_text", <<Escaped[c]>>)
    BY <1>4, JsonEscapeCases
  <2>2. Read("json", R(C, N, "key_escape"), c) = ReadJson(R(C, N, "key_escape"), c)
    BY JsonGood
  <2>3. Go(R(C, N, "key_escape"), "key_text", <<Escaped[c]>>) =
               R(C \o <<Escaped[c]>>, N, "key_text")
    BY Gone
  <2> QED BY <2>1, <2>2, <2>3
<1>5. Read("json", R(C, N, "key_text"), "quote") = R(C, N, "colon")
  <2>1. ReadJson(R(C, N, "key_text"), "quote") = Go(R(C, N, "key_text"), "colon", <<>>)
    BY <1>1, JsonTextCases
  <2>2. Read("json", R(C, N, "key_text"), "quote") = ReadJson(R(C, N, "key_text"), "quote")
    BY JsonGood
  <2>3. Go(R(C, N, "key_text"), "colon", <<>>) = R(C, N, "colon")
    BY GoneQuietly DEF IsText
  <2> QED BY <2>1, <2>2, <2>3
<1> QED BY <1>2, <1>3, <1>4, <1>5

LEMMA AtBlank ==
  ASSUME NEW C, IsText(C), NEW N, NEW A, A \notin JsonTexts, NEW c \in Blank
  PROVE  /\ Read("json", R(C, N, A), c) = R(C, N, A)
<1>1. \A B : R(C, N, B).at = B /\ R(C, N, B).nest = N /\ R(C, N, B).calls = C
  BY RParts
<1>2. Read("json", R(C, N, A), c) = R(C, N, A)
  <2>1. ReadJson(R(C, N, A), c) = R(C, N, A)
    BY <1>1, JsonBlankCase
  <2>2. Read("json", R(C, N, A), c) = ReadJson(R(C, N, A), c)
    BY JsonGood
  <2> QED BY <2>1, <2>2
<1> QED BY <1>2

LEMMA AtValue ==
  ASSUME NEW C, IsText(C), NEW N, NEW A, A = "value" \/ A = "value_or_end"
  PROVE  /\ Read("json", R(C, N, A), "lbrace") =
                R(C \o <<"object">>, Append(N, "object"), "key_or_end")
         /\ Read("json", R(C, N, A), "lbracket") =
                R(C \o <<"array">>, Append(N, "array"), "value_or_end")
         /\ Read("json", R(C, N, A), "quote") = R(C \o <<"value">>, N, "text")
         /\ Read("json", R(C, N, A), "1") = R(C \o <<"1">>, N, "next")
         /\ Read("json", R(C, N, A), "null") = R(C \o <<"null">>, N, "next")
<1>1. \A B : R(C, N, B).at = B /\ R(C, N, B).nest = N /\ R(C, N, B).calls = C
  BY RParts
<1>2. Read("json", R(C, N, A), "lbrace") = R(C \o <<"object">>, Append(N, "object"), "key_or_end")
  <2>1. ReadJson(R(C, N, A), "lbrace") = Pushed(R(C, N, A), "object", "key_or_end", <<"object">>)
    BY <1>1, JsonValueCases
  <2>2. Read("json", R(C, N, A), "lbrace") = ReadJson(R(C, N, A), "lbrace")
    BY JsonGood
  <2>3. Pushed(R(C, N, A), "object", "key_or_end", <<"object">>) =
               R(C \o <<"object">>, Append(N, "object"), "key_or_end")
    BY GoneNested
  <2> QED BY <2>1, <2>2, <2>3
<1>3. Read("json", R(C, N, A), "lbracket") = R(C \o <<"array">>, Append(N, "array"), "value_or_end")
  <2>1. ReadJson(R(C, N, A), "lbracket") = Pushed(R(C, N, A), "array", "value_or_end", <<"array">>)
    BY <1>1, JsonValueCases
  <2>2. Read("json", R(C, N, A), "lbracket") = ReadJson(R(C, N, A), "lbracket")
    BY JsonGood
  <2>3. Pushed(R(C, N, A), "array", "value_or_end", <<"array">>) =
               R(C \o <<"array">>, Append(N, "array"), "value_or_end")
    BY GoneNested
  <2> QED BY <2>1, <2>2, <2>3
<1>4. Read("json", R(C, N, A), "quote") = R(C \o <<"value">>, N, "text")
  <2>1. ReadJson(R(C, N, A), "quote") = Go(R(C, N, A), "text", <<"value">>)
    BY <1>1, JsonValueCases
  <2>2. Read("json", R(C, N, A), "quote") = ReadJson(R(C, N, A), "quote")
    BY JsonGood
  <2>3. Go(R(C, N, A), "text", <<"value">>) = R(C \o <<"value">>, N, "text")
    BY Gone
  <2> QED BY <2>1, <2>2, <2>3
<1>5. Read("json", R(C, N, A), "1") = R(C \o <<"1">>, N, "next")
  <2>1. ReadJson(R(C, N, A), "1") = Go(R(C, N, A), "next", <<"1">>)
    BY <1>1, JsonValueCases
  <2>2. Read("json", R(C, N, A), "1") = ReadJson(R(C, N, A), "1")
    BY JsonGood
  <2>3. Go(R(C, N, A), "next", <<"1">>) = R(C \o <<"1">>, N, "next")
    BY Gone
  <2> QED BY <2>1, <2>2, <2>3
<1>6. Read("json", R(C, N, A), "null") = R(C \o <<"null">>, N, "next")
  <2>1. ReadJson(R(C, N, A), "null") = Go(R(C, N, A), "next", <<"null">>)
    BY <1>1, JsonValueCases
  <2>2. Read("json", R(C, N, A), "null") = ReadJson(R(C, N, A), "null")
    BY JsonGood
  <2>3. Go(R(C, N, A), "next", <<"null">>) = R(C \o <<"null">>, N, "next")
    BY Gone
  <2> QED BY <2>1, <2>2, <2>3
<1> QED BY <1>2, <1>3, <1>4, <1>5, <1>6

LEMMA AtPunctuation ==
  ASSUME NEW C, IsText(C), NEW N, N # <<>>
  PROVE  /\ Last(N) = "object" =>
              Read("json", R(C, N, "next"), "comma") = R(C, N, "key")
         /\ Last(N) = "array" =>
              Read("json", R(C, N, "next"), "comma") = R(C, N, "value")
         /\ Last(N) = "object" =>
              Read("json", R(C, N, "next"), "rbrace") =
                     R(C \o <<"object_end">>, Front(N), "next")
         /\ Last(N) = "object" =>
              Read("json", R(C, N, "key_or_end"), "rbrace") =
                     R(C \o <<"object_end">>, Front(N), "next")
         /\ Last(N) = "array" =>
              Read("json", R(C, N, "next"), "rbracket") = R(C \o <<"array_end">>, Front(N), "next")
         /\ Last(N) = "array" =>
              Read("json", R(C, N, "value_or_end"), "rbracket") =
                     R(C \o <<"array_end">>, Front(N), "next")
         /\ Read("json", R(C, N, "key"), "quote") = R(C \o <<"key">>, N, "key_text")
         /\ Read("json", R(C, N, "key_or_end"), "quote") = R(C \o <<"key">>, N, "key_text")
         /\ Read("json", R(C, N, "colon"), "colon") = R(C, N, "value")
<1>1. \A B : R(C, N, B).at = B /\ R(C, N, B).nest = N /\ R(C, N, B).calls = C
  BY RParts
<1>2. ASSUME Last(N) = "object"
      PROVE  Read("json", R(C, N, "next"), "comma") = R(C, N, "key")
  <2>1. ReadJson(R(C, N, "next"), "comma") = Go(R(C, N, "next"), "key", <<>>)
    BY <1>1, <1>2, JsonPunctuationCases
  <2>2. Read("json", R(C, N, "next"), "comma") = ReadJson(R(C, N, "next"), "comma")
    BY JsonGood
  <2>3. Go(R(C, N, "next"), "key", <<>>) = R(C, N, "key")
    BY GoneQuietly DEF IsText
  <2> QED BY <2>1, <2>2, <2>3
<1>3. ASSUME Last(N) = "array"
      PROVE  Read("json", R(C, N, "next"), "comma") = R(C, N, "value")
  <2>1. ReadJson(R(C, N, "next"), "comma") = Go(R(C, N, "next"), "value", <<>>)
    BY <1>1, <1>3, JsonPunctuationCases
  <2>2. Read("json", R(C, N, "next"), "comma") = ReadJson(R(C, N, "next"), "comma")
    BY JsonGood
  <2>3. Go(R(C, N, "next"), "value", <<>>) = R(C, N, "value")
    BY GoneQuietly DEF IsText
  <2> QED BY <2>1, <2>2, <2>3
<1>4. ASSUME Last(N) = "object"
      PROVE  Read("json", R(C, N, "next"), "rbrace") =
                    R(C \o <<"object_end">>, Front(N), "next")
  <2>1. ReadJson(R(C, N, "next"), "rbrace") = Popped(R(C, N, "next"), "next", <<"object_end">>)
    BY <1>1, <1>4, JsonPunctuationCases
  <2>2. Read("json", R(C, N, "next"), "rbrace") = ReadJson(R(C, N, "next"), "rbrace")
    BY JsonGood
  <2>3. Popped(R(C, N, "next"), "next", <<"object_end">>) =
               R(C \o <<"object_end">>, Front(N), "next")
    BY GonePopped
  <2> QED BY <2>1, <2>2, <2>3
<1>5. ASSUME Last(N) = "object"
      PROVE  Read("json", R(C, N, "key_or_end"), "rbrace") =
                    R(C \o <<"object_end">>, Front(N), "next")
  <2>1. ReadJson(R(C, N, "key_or_end"), "rbrace") =
               Popped(R(C, N, "key_or_end"), "next", <<"object_end">>)
    BY <1>1, <1>5, JsonPunctuationCases
  <2>2. Read("json", R(C, N, "key_or_end"), "rbrace") =
               ReadJson(R(C, N, "key_or_end"), "rbrace")
    BY JsonGood
  <2>3. Popped(R(C, N, "key_or_end"), "next", <<"object_end">>) =
               R(C \o <<"object_end">>, Front(N), "next")
    BY GonePopped
  <2> QED BY <2>1, <2>2, <2>3
<1>6. ASSUME Last(N) = "array"
      PROVE  Read("json", R(C, N, "next"), "rbracket") = R(C \o <<"array_end">>, Front(N), "next")
  <2>1. ReadJson(R(C, N, "next"), "rbracket") = Popped(R(C, N, "next"), "next", <<"array_end">>)
    BY <1>1, <1>6, JsonPunctuationCases
  <2>2. Read("json", R(C, N, "next"), "rbracket") = ReadJson(R(C, N, "next"), "rbracket")
    BY JsonGood
  <2>3. Popped(R(C, N, "next"), "next", <<"array_end">>) = R(C \o <<"array_end">>, Front(N), "next")
    BY GonePopped
  <2> QED BY <2>1, <2>2, <2>3
<1>7. ASSUME Last(N) = "array"
      PROVE  Read("json", R(C, N, "value_or_end"), "rbracket") =
                    R(C \o <<"array_end">>, Front(N), "next")
  <2>1. ReadJson(R(C, N, "value_or_end"), "rbracket") =
               Popped(R(C, N, "value_or_end"), "next", <<"array_end">>)
    BY <1>1, <1>7, JsonPunctuationCases
  <2>2. Read("json", R(C, N, "value_or_end"), "rbracket") =
               ReadJson(R(C, N, "value_or_end"), "rbracket")
    BY JsonGood
  <2>3. Popped(R(C, N, "value_or_end"), "next", <<"array_end">>) =
               R(C \o <<"array_end">>, Front(N), "next")
    BY GonePopped
  <2> QED BY <2>1, <2>2, <2>3
<1>8. Read("json", R(C, N, "key"), "quote") = R(C \o <<"key">>, N, "key_text")
  <2>1. ReadJson(R(C, N, "key"), "quote") = Go(R(C, N, "key"), "key_text", <<"key">>)
    BY <1>1, JsonPunctuationCases
  <2>2. Read("json", R(C, N, "key"), "quote") = ReadJson(R(C, N, "key"), "quote")
    BY JsonGood
  <2>3. Go(R(C, N, "key"), "key_text", <<"key">>) = R(C \o <<"key">>, N, "key_text")
    BY Gone
  <2> QED BY <2>1, <2>2, <2>3
<1>9. Read("json", R(C, N, "key_or_end"), "quote") = R(C \o <<"key">>, N, "key_text")
  <2>1. ReadJson(R(C, N, "key_or_end"), "quote") = Go(R(C, N, "key_or_end"), "key_text", <<"key">>)
    BY <1>1, JsonPunctuationCases
  <2>2. Read("json", R(C, N, "key_or_end"), "quote") = ReadJson(R(C, N, "key_or_end"), "quote")
    BY JsonGood
  <2>3. Go(R(C, N, "key_or_end"), "key_text", <<"key">>) = R(C \o <<"key">>, N, "key_text")
    BY Gone
  <2> QED BY <2>1, <2>2, <2>3
<1>10. Read("json", R(C, N, "colon"), "colon") = R(C, N, "value")
  <2>1. ReadJson(R(C, N, "colon"), "colon") = Go(R(C, N, "colon"), "value", <<>>)
    BY <1>1, JsonPunctuationCases
  <2>2. Read("json", R(C, N, "colon"), "colon") = ReadJson(R(C, N, "colon"), "colon")
    BY JsonGood
  <2>3. Go(R(C, N, "colon"), "value", <<>>) = R(C, N, "value")
    BY GoneQuietly DEF IsText
  <2> QED BY <2>1, <2>2, <2>3
<1> QED BY <1>2, <1>3, <1>4, <1>5, <1>6, <1>7, <1>8, <1>9, <1>10

(* What the reader of XML makes of a symbol.                               *)
LEMMA AtOutside ==
  ASSUME NEW C, IsText(C), NEW N, NEW c
  PROVE  /\ c \in Blank =>
              Read("xml", R(C, N, "value"), c) = R(C, N, "value")
         /\ Read("xml", R(C, N, "value"), "less") = R(C, N, "name")
         /\ C = <<>> =>
              Read("xml", R(C, N, "value"), "declaration") = R(C, N, "value")
         /\ c \notin Blank /\ c \notin InTag /\ N # <<>> =>
              Read("xml", R(C, N, "value"), c) = R(C \o <<Meaning(c)>>, N, "value")
<1>1. \A B : R(C, N, B).at = B /\ R(C, N, B).nest = N /\ R(C, N, B).calls = C
  BY RParts
<1>2. ASSUME c \in Blank
      PROVE  Read("xml", R(C, N, "value"), c) = R(C, N, "value")
  <2>1. ReadXml(R(C, N, "value"), c) = R(C, N, "value")
    BY <1>1, <1>2, XmlOutsideCases
  <2>2. Read("xml", R(C, N, "value"), c) = ReadXml(R(C, N, "value"), c)
    BY XmlGood
  <2> QED BY <2>1, <2>2
<1>3. Read("xml", R(C, N, "value"), "less") = R(C, N, "name")
  <2>1. ReadXml(R(C, N, "value"), "less") = Go(R(C, N, "value"), "name", <<>>)
    BY <1>1, XmlOutsideCases
  <2>2. Read("xml", R(C, N, "value"), "less") = ReadXml(R(C, N, "value"), "less")
    BY XmlGood
  <2>3. Go(R(C, N, "value"), "name", <<>>) = R(C, N, "name")
    BY GoneQuietly DEF IsText
  <2> QED BY <2>1, <2>2, <2>3
<1>4. ASSUME C = <<>>
      PROVE  Read("xml", R(C, N, "value"), "declaration") = R(C, N, "value")
  <2>1. ReadXml(R(C, N, "value"), "declaration") = R(C, N, "value")
    BY <1>1, <1>4, XmlOutsideCases
  <2>2. Read("xml", R(C, N, "value"), "declaration") = ReadXml(R(C, N, "value"), "declaration")
    BY XmlGood
  <2> QED BY <2>1, <2>2
<1>5. ASSUME c \notin Blank, c \notin InTag, N # <<>>
      PROVE  Read("xml", R(C, N, "value"), c) = R(C \o <<Meaning(c)>>, N, "value")
  <2>1. ReadXml(R(C, N, "value"), c) = Go(R(C, N, "value"), "value", <<Meaning(c)>>)
    BY <1>1, <1>5, XmlOutsideCases
  <2>2. Read("xml", R(C, N, "value"), c) = ReadXml(R(C, N, "value"), c)
    BY XmlGood
  <2>3. Go(R(C, N, "value"), "value", <<Meaning(c)>>) = R(C \o <<Meaning(c)>>, N, "value")
    BY Gone
  <2> QED BY <2>1, <2>2, <2>3
<1> QED BY <1>2, <1>3, <1>4, <1>5

LEMMA AtTag ==
  ASSUME NEW C, IsText(C), NEW N, NEW c
  PROVE  /\ c # "slash" =>
              Read("xml", R(C, N, "name"), c) = R(C \o <<"element", c>>, Append(N, c), "tag")
         /\ Read("xml", R(C, N, "name"), "slash") = R(C, N, "end_name")
         /\ Read("xml", R(C, N, "tag"), "greater") = R(C, N, "value")
         /\ Read("xml", R(C, N, "tag"), "slash") = R(C, N, "end_tag")
         /\ N # <<>> /\ c = Last(N) =>
              Read("xml", R(C, N, "end_name"), c) = R(C, N, "end_tag")
         /\ N # <<>> =>
              Read("xml", R(C, N, "end_tag"), "greater") = R(C \o <<"end">>, Front(N), "value")
<1>1. \A B : R(C, N, B).at = B /\ R(C, N, B).nest = N /\ R(C, N, B).calls = C
  BY RParts
<1>2. ASSUME c # "slash"
      PROVE  Read("xml", R(C, N, "name"), c) = R(C \o <<"element", c>>, Append(N, c), "tag")
  <2>1. ReadXml(R(C, N, "name"), c) = Pushed(R(C, N, "name"), c, "tag", <<"element", c>>)
    BY <1>1, <1>2, XmlTagCases
  <2>2. Read("xml", R(C, N, "name"), c) = ReadXml(R(C, N, "name"), c)
    BY XmlGood
  <2>3. Pushed(R(C, N, "name"), c, "tag", <<"element", c>>) =
               R(C \o <<"element", c>>, Append(N, c), "tag")
    BY GoneNested
  <2> QED BY <2>1, <2>2, <2>3
<1>3. Read("xml", R(C, N, "name"), "slash") = R(C, N, "end_name")
  <2>1. ReadXml(R(C, N, "name"), "slash") = Go(R(C, N, "name"), "end_name", <<>>)
    BY <1>1, XmlTagCases
  <2>2. Read("xml", R(C, N, "name"), "slash") = ReadXml(R(C, N, "name"), "slash")
    BY XmlGood
  <2>3. Go(R(C, N, "name"), "end_name", <<>>) = R(C, N, "end_name")
    BY GoneQuietly DEF IsText
  <2> QED BY <2>1, <2>2, <2>3
<1>4. Read("xml", R(C, N, "tag"), "greater") = R(C, N, "value")
  <2>1. ReadXml(R(C, N, "tag"), "greater") = Go(R(C, N, "tag"), "value", <<>>)
    BY <1>1, XmlTagCases
  <2>2. Read("xml", R(C, N, "tag"), "greater") = ReadXml(R(C, N, "tag"), "greater")
    BY XmlGood
  <2>3. Go(R(C, N, "tag"), "value", <<>>) = R(C, N, "value")
    BY GoneQuietly DEF IsText
  <2> QED BY <2>1, <2>2, <2>3
<1>5. Read("xml", R(C, N, "tag"), "slash") = R(C, N, "end_tag")
  <2>1. ReadXml(R(C, N, "tag"), "slash") = Go(R(C, N, "tag"), "end_tag", <<>>)
    BY <1>1, XmlTagCases
  <2>2. Read("xml", R(C, N, "tag"), "slash") = ReadXml(R(C, N, "tag"), "slash")
    BY XmlGood
  <2>3. Go(R(C, N, "tag"), "end_tag", <<>>) = R(C, N, "end_tag")
    BY GoneQuietly DEF IsText
  <2> QED BY <2>1, <2>2, <2>3
<1>6. ASSUME N # <<>>, c = Last(N)
      PROVE  Read("xml", R(C, N, "end_name"), c) = R(C, N, "end_tag")
  <2>1. ReadXml(R(C, N, "end_name"), c) = Go(R(C, N, "end_name"), "end_tag", <<>>)
    BY <1>1, <1>6, XmlTagCases
  <2>2. Read("xml", R(C, N, "end_name"), c) = ReadXml(R(C, N, "end_name"), c)
    BY XmlGood
  <2>3. Go(R(C, N, "end_name"), "end_tag", <<>>) = R(C, N, "end_tag")
    BY GoneQuietly DEF IsText
  <2> QED BY <2>1, <2>2, <2>3
<1>7. ASSUME N # <<>>
      PROVE  Read("xml", R(C, N, "end_tag"), "greater") = R(C \o <<"end">>, Front(N), "value")
  <2>1. ReadXml(R(C, N, "end_tag"), "greater") = Popped(R(C, N, "end_tag"), "value", <<"end">>)
    BY <1>1, <1>7, XmlTagCases
  <2>2. Read("xml", R(C, N, "end_tag"), "greater") = ReadXml(R(C, N, "end_tag"), "greater")
    BY XmlGood
  <2>3. Popped(R(C, N, "end_tag"), "value", <<"end">>) = R(C \o <<"end">>, Front(N), "value")
    BY GonePopped
  <2> QED BY <2>1, <2>2, <2>3
<1> QED BY <1>2, <1>3, <1>4, <1>5, <1>6, <1>7

LEMMA AtAttribute ==
  ASSUME NEW C, IsText(C), NEW N, NEW c
  PROVE  /\ Read("xml", R(C, N, "tag"), "space") = R(C \o <<"attribute">>, N, "attribute")
         /\ Read("xml", R(C, N, "attribute"), "a") = R(C \o <<"a">>, N, "equals")
         /\ Read("xml", R(C, N, "equals"), "equals") = R(C, N, "quote")
         /\ Read("xml", R(C, N, "quote"), "quote") = R(C, N, "attribute_text")
         /\ Read("xml", R(C, N, "attribute_text"), "quote") =
                R(C \o <<"attribute_end">>, N, "tag")
         /\ c \notin {"quote", "less", "ampersand"} =>
              Read("xml", R(C, N, "attribute_text"), c) =
                     R(C \o <<Meaning(c)>>, N, "attribute_text")
<1>1. \A B : R(C, N, B).at = B /\ R(C, N, B).nest = N /\ R(C, N, B).calls = C
  BY RParts
<1>2. Read("xml", R(C, N, "tag"), "space") = R(C \o <<"attribute">>, N, "attribute")
  <2>1. ReadXml(R(C, N, "tag"), "space") = Go(R(C, N, "tag"), "attribute", <<"attribute">>)
    BY <1>1, XmlAttributeCases
  <2>2. Read("xml", R(C, N, "tag"), "space") = ReadXml(R(C, N, "tag"), "space")
    BY XmlGood
  <2>3. Go(R(C, N, "tag"), "attribute", <<"attribute">>) = R(C \o <<"attribute">>, N, "attribute")
    BY Gone
  <2> QED BY <2>1, <2>2, <2>3
<1>3. Read("xml", R(C, N, "attribute"), "a") = R(C \o <<"a">>, N, "equals")
  <2>1. ReadXml(R(C, N, "attribute"), "a") = Go(R(C, N, "attribute"), "equals", <<"a">>)
    BY <1>1, XmlAttributeCases
  <2>2. Read("xml", R(C, N, "attribute"), "a") = ReadXml(R(C, N, "attribute"), "a")
    BY XmlGood
  <2>3. Go(R(C, N, "attribute"), "equals", <<"a">>) = R(C \o <<"a">>, N, "equals")
    BY Gone
  <2> QED BY <2>1, <2>2, <2>3
<1>4. Read("xml", R(C, N, "equals"), "equals") = R(C, N, "quote")
  <2>1. ReadXml(R(C, N, "equals"), "equals") = Go(R(C, N, "equals"), "quote", <<>>)
    BY <1>1, XmlAttributeCases
  <2>2. Read("xml", R(C, N, "equals"), "equals") = ReadXml(R(C, N, "equals"), "equals")
    BY XmlGood
  <2>3. Go(R(C, N, "equals"), "quote", <<>>) = R(C, N, "quote")
    BY GoneQuietly DEF IsText
  <2> QED BY <2>1, <2>2, <2>3
<1>5. Read("xml", R(C, N, "quote"), "quote") = R(C, N, "attribute_text")
  <2>1. ReadXml(R(C, N, "quote"), "quote") = Go(R(C, N, "quote"), "attribute_text", <<>>)
    BY <1>1, XmlAttributeCases
  <2>2. Read("xml", R(C, N, "quote"), "quote") = ReadXml(R(C, N, "quote"), "quote")
    BY XmlGood
  <2>3. Go(R(C, N, "quote"), "attribute_text", <<>>) = R(C, N, "attribute_text")
    BY GoneQuietly DEF IsText
  <2> QED BY <2>1, <2>2, <2>3
<1>6. Read("xml", R(C, N, "attribute_text"), "quote") =
                R(C \o <<"attribute_end">>, N, "tag")
  <2>1. ReadXml(R(C, N, "attribute_text"), "quote") =
               Go(R(C, N, "attribute_text"), "tag", <<"attribute_end">>)
    BY <1>1, XmlAttributeCases
  <2>2. Read("xml", R(C, N, "attribute_text"), "quote") =
               ReadXml(R(C, N, "attribute_text"), "quote")
    BY XmlGood
  <2>3. Go(R(C, N, "attribute_text"), "tag", <<"attribute_end">>) =
               R(C \o <<"attribute_end">>, N, "tag")
    BY Gone
  <2> QED BY <2>1, <2>2, <2>3
<1>7. ASSUME c \notin {"quote", "less", "ampersand"}
      PROVE  Read("xml", R(C, N, "attribute_text"), c) = R(C \o <<Meaning(c)>>, N, "attribute_text")
  <2>1. ReadXml(R(C, N, "attribute_text"), c) =
               Go(R(C, N, "attribute_text"), "attribute_text", <<Meaning(c)>>)
    BY <1>1, <1>7, XmlAttributeCases
  <2>2. Read("xml", R(C, N, "attribute_text"), c) = ReadXml(R(C, N, "attribute_text"), c)
    BY XmlGood
  <2>3. Go(R(C, N, "attribute_text"), "attribute_text", <<Meaning(c)>>) =
               R(C \o <<Meaning(c)>>, N, "attribute_text")
    BY Gone
  <2> QED BY <2>1, <2>2, <2>3
<1> QED BY <1>2, <1>3, <1>4, <1>5, <1>6, <1>7

-----------------------------------------------------------------------------
(* Encoded values.                                                         *)

LEMMA ValueSymbols ==
  ASSUME NEW v \in Values
  PROVE  /\ v \in Seq(Symbols) /\ Len(v) \in Nat /\ DOMAIN v = 1 .. Len(v)
         /\ \A n \in 1 .. Len(v) : v[n] \in Symbols /\ v[n] \notin Words
<1> DEFINE S == STRING \ Words
<1>1. v \in Seq(S)
  BY DocumentAssumption DEF DocumentAssumption
<1>2. S \subseteq Symbols /\ \A x \in S : x \notin Words
  BY DEF Symbols
<1> HIDE DEF S
<1>3. /\ Len(v) \in Nat /\ DOMAIN v = 1 .. Len(v)
      /\ \A n \in 1 .. Len(v) : v[n] \in S
  BY <1>1, LenProperties
<1>4. v \in Seq(Symbols)
  BY <1>1, <1>2, SeqMonotonic
<1> QED BY <1>2, <1>3, <1>4

(* Two symbols after a text.                                               *)
LEMMA Pair ==
  ASSUME NEW x \in Symbols, NEW y \in Symbols
  PROVE  <<x, y>> \in Seq(Symbols) /\ <<x>> \in Seq(Symbols) /\ <<x>> \o <<y>> = <<x, y>>
<1>1. <<x>> \in Seq(Symbols) /\ <<y>> \in Seq(Symbols) /\ <<x, y>> \in Seq(Symbols)
  OBVIOUS
<1>2. Len(<<x>>) = 1 /\ Len(<<y>>) = 1 /\ Len(<<x, y>>) = 2
  OBVIOUS
<1>3. /\ <<x>> \o <<y>> \in Seq(Symbols) /\ Len(<<x>> \o <<y>>) = 2
      /\ \A i \in 1 .. 2 : (<<x>> \o <<y>>)[i] = IF i <= 1 THEN <<x>>[i] ELSE <<y>>[i - 1]
  BY <1>1, <1>2, ConcatProperties
<1>4. ASSUME NEW i \in 1 .. 2 PROVE (<<x>> \o <<y>>)[i] = <<x, y>>[i]
  <2>1. CASE i = 1
    BY <1>3, <2>1
  <2>2. CASE i = 2
    <3>1. i - 1 = 1 /\ ~(i <= 1) /\ i \in 1 .. 2
      BY <2>2
    <3>2. (<<x>> \o <<y>>)[i] = <<y>>[1]
      BY <1>3, <3>1
    <3> QED BY <2>2, <3>2
  <2> QED BY <2>1, <2>2
<1>5. <<x>> \o <<y>> = <<x, y>>
  BY <1>1, <1>2, <1>3, <1>4, SeqEqual
<1> QED BY <1>1, <1>5

LEMMA TwoMore ==
  ASSUME NEW t \in Seq(Symbols), NEW x \in Symbols, NEW y \in Symbols
  PROVE  (t \o <<x>>) \o <<y>> = t \o <<x, y>>
<1>1. <<x>> \in Seq(Symbols) /\ <<y>> \in Seq(Symbols) /\ <<x>> \o <<y>> = <<x, y>>
  BY Pair
<1>2. (t \o <<x>>) \o <<y>> = t \o (<<x>> \o <<y>>)
  BY <1>1, Joined
<1> QED BY <1>1, <1>2

Escape(A) == IF A = "text" THEN "escape" ELSE "key_escape"

Inside(A) == A = "text" \/ A = "key_text"   \* a reader in a string

InsideIs(C, N, A, c) ==
  /\ c \notin InString => Read("json", R(C, N, A), c) = R(C \o <<c>>, N, A)
  /\ Read("json", R(C, N, A), "backslash") = R(C, N, Escape(A))
  /\ c \in DOMAIN Escaped =>
       Read("json", R(C, N, Escape(A)), c) = R(C \o <<Escaped[c]>>, N, A)

LEMMA AtSymbol ==
  ASSUME NEW C, IsText(C), NEW N, NEW A, Inside(A), NEW c
  PROVE  InsideIs(C, N, A, c)
<1>1. CASE A = "text"
  <2>1. Escape(A) = "escape"
    BY <1>1 DEF Escape
  <2> QED BY ONLY <1>1, <2>1, IsText(C), AtText DEF InsideIs
<1>2. CASE A = "key_text"
  <2>1. Escape(A) = "key_escape"
    BY <1>2 DEF Escape
  <2> QED BY ONLY <1>2, <2>1, IsText(C), AtKeyText DEF InsideIs
<1> QED BY <1>1, <1>2 DEF Inside

(* What is written for a character, and the character it reads as in a     *)
(* string of JSON: itself, or the one that the escape stands for.          *)
Escaping(p, c) == \E x \in DOMAIN Escaped \cap Symbols : p = <<"backslash", x>> /\ c = Escaped[x]
Writes(p, c) == c \in Symbols /\ (Escaping(p, c) \/ (c \notin InString /\ p = <<c>>))

LEMMA WritesIn ==
  ASSUME NEW p, NEW c, Writes(p, c)
  PROVE  p \in Seq(Symbols)
<1>1. CASE Escaping(p, c)
  <2>1. PICK x \in Symbols : p = <<"backslash", x>>
    BY <1>1 DEF Escaping
  <2>2. "backslash" \in Symbols
    BY DEF Symbols, Literals
  <2> QED BY <2>1, <2>2, Pair
<1>2. CASE c \notin InString /\ p = <<c>>
  BY <1>2 DEF Writes
<1> QED BY <1>1, <1>2 DEF Writes

LEMMA LengthIs ==
  ASSUME NEW S, NEW n \in Nat, NEW w \in [1 .. n -> S]
  PROVE  w \in Seq(S) /\ Len(w) = n
<1>1. w \in Seq(S) /\ DOMAIN w = 1 .. n
  BY SeqDef
<1>2. Len(w) \in Nat /\ 1 .. Len(w) = 1 .. n
  BY <1>1, LenProperties
<1>3. Len(w) <= n
  <2>1. CASE Len(w) = 0
    BY <2>1
  <2>2. CASE Len(w) # 0
    <3>1. Len(w) \in 1 .. Len(w)
      BY <1>2, <2>2
    <3> QED BY <1>2, <3>1
  <2> QED BY <2>1, <2>2
<1>4. n <= Len(w)
  <2>1. CASE n = 0
    BY <1>2, <2>1
  <2>2. CASE n # 0
    <3>1. n \in 1 .. n
      BY <2>2
    <3> QED BY <1>2, <3>1
  <2> QED BY <2>1, <2>2
<1> QED BY <1>1, <1>2, <1>3, <1>4

LEMMA AtWritten ==
  ASSUME NEW t, NEW C, NEW N, NEW A, Inside(A), At("json", t, C, N, A),
         NEW p, NEW c, Writes(p, c)
  PROVE  At("json", t \o p, C \o <<c>>, N, A)
<1>1. C \o <<c>> \in Seq(Symbols) /\ t \in Seq(Symbols) /\ IsText(C) /\ c \in Symbols
  BY Longer DEF At, IsText, Writes
<1>2. CASE Escaping(p, c)
  <2> DEFINE E == Escape(A)
  <2>1. PICK x \in Symbols : x \in DOMAIN Escaped /\ p = <<"backslash", x>> /\ c = Escaped[x]
    BY <1>2 DEF Escaping
  <2>2. "backslash" \in Symbols
    BY DEF Symbols, Literals
  <2>3. /\ Read("json", R(C, N, A), "backslash") = R(C, N, E)
        /\ Read("json", R(C, N, E), x) = R(C \o <<c>>, N, A)
    <3>1. InsideIs(C, N, A, x)
      BY ONLY <1>1, Inside(A), AtSymbol
    <3> QED BY <2>1, <3>1 DEF InsideIs
  <2> HIDE DEF E
  <2>4. At("json", t \o <<"backslash">>, C, N, E)
    BY <1>1, <2>2, <2>3, AtOne DEF IsText
  <2>5. At("json", (t \o <<"backslash">>) \o <<x>>, C \o <<c>>, N, A)
    BY <1>1, <2>3, <2>4, AtOne
  <2>6. (t \o <<"backslash">>) \o <<x>> = t \o <<"backslash", x>>
    BY <1>1, <2>2, TwoMore
  <2> QED BY <2>1, <2>5, <2>6
<1>3. CASE c \notin InString /\ p = <<c>>
  <2>0. InsideIs(C, N, A, c)
    BY ONLY <1>1, Inside(A), AtSymbol
  <2>1. Read("json", R(C, N, A), c) = R(C \o <<c>>, N, A)
    BY <1>3, <2>0 DEF InsideIs
  <2> QED BY <1>1, <1>3, <2>1, AtOne
<1> QED BY <1>2, <1>3 DEF Writes

(* What is written for the characters of v, one after the other.           *)
LEMMA AtPieces ==
  ASSUME NEW v \in Seq(Symbols), NEW d, d = [n \in 1 .. Len(v) |-> d[n]],
         \A n \in 1 .. Len(v) : Writes(d[n], v[n])
  PROVE  /\ FlattenSeq(d) \in Seq(Symbols)
         /\ \A t, C, N, A : Inside(A) /\ At("json", t, C, N, A) =>
              At("json", t \o FlattenSeq(d), C \o v, N, A)
<1>1. Len(v) \in Nat /\ DOMAIN v = 1 .. Len(v) /\ \A n \in 1 .. Len(v) : v[n] \in Symbols
  BY LenProperties
<1>2. \A n \in 1 .. Len(v) : d[n] \in Seq(Symbols)
  BY WritesIn
<1>3. d \in Seq(Seq(Symbols)) /\ Len(d) = Len(v)
  <2>1. d \in [1 .. Len(v) -> Seq(Symbols)]
    BY <1>2
  <2> QED BY ONLY <1>1, <2>1, LengthIs
<1>4. FlattenSeq(d) \in Seq(Symbols)
  BY <1>3, FlattenedIn
<1>5. PICK e : /\ e[0] = <<>> /\ FlattenSeq(d) = e[Len(d)]
               /\ \A n \in 1 .. Len(d) : e[n] = e[n - 1] \o d[n]
  BY <1>3, Flattened
<1>6. ASSUME NEW t, NEW C, NEW N, NEW A, Inside(A), At("json", t, C, N, A)
      PROVE  At("json", t \o FlattenSeq(d), C \o v, N, A)
  <2>1. ASSUME NEW n \in 1 .. Len(v), NEW u \in Seq(Symbols), NEW D \in Seq(Symbols),
               Reading("json", u) = R(D, N, A)
        PROVE  Reading("json", u \o d[n]) = R(D \o <<v[n]>>, N, A)
    <3>1. At("json", u, D, N, A) /\ Writes(d[n], v[n])
      BY <2>1 DEF At
    <3>2. At("json", u \o d[n], D \o <<v[n]>>, N, A)
      BY ONLY <1>6, <3>1, AtWritten
    <3> QED BY <3>2 DEF At
  <2>2. ByPieces("json", N, A, v, d, e)
    BY <1>2, <1>3, <1>5, <2>1 DEF ByPieces
  <2>3. t \in Seq(Symbols) /\ C \in Seq(Symbols) /\ Reading("json", t) = R(C, N, A)
    BY <1>6 DEF At
  <2> DEFINE m == Len(v)
  <2>4. /\ e[m] \in Seq(Symbols) /\ t \o e[m] \in Seq(Symbols) /\ C \o v \in Seq(Symbols)
        /\ Reading("json", t \o e[m]) = R(C \o v, N, A)
    BY ONLY <2>2, <2>3, v \in Seq(Symbols), PiecesRead
  <2>5. FlattenSeq(d) = e[m]
    BY <1>3, <1>5
  <2> QED BY <2>4, <2>5 DEF At
<1> QED BY <1>4, <1>6

(* What is read of a character that encode() has written: all but a        *)
(* control character is what it was.                                       *)
Kept(c) == IF c = "control" THEN "u00" ELSE c

LEMMA CharacterWritten ==
  ASSUME NEW c \in Symbols
  PROVE  Writes(EncodedCharacter(c), Kept(c))
<1>1. CASE c \in {"quote", "backslash", "backspace", "formfeed", "nl", "return", "tab"}
  <2>1. \E x \in {"quote", "backslash", "b", "f", "n", "r", "t"} :
          EncodedCharacter(c) = <<"backslash", x>> /\ c = Escaped[x]
    BY <1>1 DEF EncodedCharacter, Escapes, Escaped
  <2>2. {"quote", "backslash", "b", "f", "n", "r", "t"} \subseteq DOMAIN Escaped \cap Symbols
    BY DEF Escaped, Symbols, Literals
  <2>3. Escaping(EncodedCharacter(c), c)
    BY <2>1, <2>2 DEF Escaping
  <2>4. Kept(c) = c
    BY <1>1 DEF Kept
  <2> QED BY <2>3, <2>4 DEF Writes
<1>2. CASE c = "control"
  <2>1. EncodedCharacter(c) = <<"u00">> /\ Kept(c) = "u00"
    BY <1>2 DEF EncodedCharacter, Escapes, Kept
  <2>2. "u00" \in Symbols /\ "u00" \notin InString
    BY DEF Symbols, Literals, InString, Controls
  <2> QED BY <2>1, <2>2 DEF Writes
<1>3. CASE /\ c \notin {"quote", "backslash", "backspace", "formfeed", "nl", "return", "tab"}
           /\ c # "control"
  <2>1. EncodedCharacter(c) = <<c>> /\ Kept(c) = c
    BY <1>3 DEF EncodedCharacter, Escapes, Kept
  <2>2. c \notin InString
    BY <1>3 DEF InString, Controls
  <2> QED BY <2>1, <2>2 DEF Writes
<1> QED BY <1>1, <1>2, <1>3

(* encode() writes what reads as the value.                                *)
AsRead(v) == [k \in DOMAIN v |-> Kept(v[k])]

LEMMA AsReadIn ==
  ASSUME NEW v \in Seq(Symbols)
  PROVE  /\ AsRead(v) \in Seq(Symbols) /\ Len(AsRead(v)) = Len(v)
         /\ \A n \in 1 .. Len(v) : AsRead(v)[n] = Kept(v[n])
<1>1. Len(v) \in Nat /\ DOMAIN v = 1 .. Len(v) /\ \A n \in 1 .. Len(v) : v[n] \in Symbols
  BY LenProperties
<1>2. \A c \in Symbols : Kept(c) \in Symbols
  BY DEF Kept, Symbols, Literals
<1> DEFINE w == AsRead(v)
<1>3. w = [n \in 1 .. Len(v) |-> w[n]] /\ \A n \in 1 .. Len(v) : w[n] = Kept(v[n])
  BY <1>1 DEF AsRead
<1> HIDE DEF w
<1>4. w \in [1 .. Len(v) -> Symbols]
  BY <1>1, <1>2, <1>3
<1>5. w \in Seq(Symbols)
  BY <1>1, <1>4, SeqDef
<1>6. Len(w) = Len(v)
  BY ONLY <1>1, <1>4, LengthIs
<1> QED BY <1>3, <1>5, <1>6 DEF w

LEMMA AtEncoded ==
  ASSUME NEW v \in Seq(Symbols)
  PROVE  /\ Encoded(v) \in Seq(Symbols)
         /\ \A t, C, N, A : Inside(A) /\ At("json", t, C, N, A) =>
              At("json", t \o Encoded(v), C \o AsRead(v), N, A)
<1> DEFINE d == [k \in DOMAIN v |-> EncodedCharacter(v[k])]
           w == AsRead(v)
<1>1. /\ Len(v) \in Nat /\ DOMAIN v = 1 .. Len(v) /\ \A n \in 1 .. Len(v) : v[n] \in Symbols
      /\ w \in Seq(Symbols) /\ Len(w) = Len(v) /\ \A n \in 1 .. Len(v) : w[n] = Kept(v[n])
  BY LenProperties, AsReadIn
<1>2. d = [n \in 1 .. Len(w) |-> d[n]] /\ \A n \in 1 .. Len(w) : d[n] = EncodedCharacter(v[n])
  BY <1>1
<1>3. Encoded(v) = FlattenSeq(d)
  BY DEF Encoded
<1> HIDE DEF d, w
<1>4. \A n \in 1 .. Len(w) : Writes(d[n], w[n])
  BY <1>1, <1>2, CharacterWritten
<1>5. /\ FlattenSeq(d) \in Seq(Symbols)
      /\ \A t, C, N, A : Inside(A) /\ At("json", t, C, N, A) =>
           At("json", t \o FlattenSeq(d), C \o w, N, A)
  BY ONLY <1>1, <1>2, <1>4, AtPieces
<1> QED BY <1>3, <1>5 DEF w

(* encode_xml_escape() writes what reads as the value's text in XML.       *)
LEMMA AsXmlCharacter ==
  ASSUME NEW c \in {"ampersand", "less", "greater", "quote"}
  PROVE  /\ (CHOOSE e \in DOMAIN Entity : Entity[e] = c) = XmlEscapes[c]
         /\ XmlEscapes[c] \in Symbols /\ XmlEscapes[c] \notin InString
         /\ Kept(XmlEscapes[c]) = XmlEscapes[c]
<1> DEFINE T == {"amp", "lt", "gt", "quot", "apos"}
<1>1. DOMAIN Entity = T
  BY DEF Entity
<1>2. /\ XmlEscapes[c] \in T /\ Entity[XmlEscapes[c]] = c
      /\ \A e \in T : Entity[e] = c => e = XmlEscapes[c]
  BY DEF XmlEscapes, Entity
<1>3. (CHOOSE e \in T : Entity[e] = c) = XmlEscapes[c]
  <2> HIDE DEF T, Entity, XmlEscapes
  <2> QED BY <1>2
<1>4. \A e \in T : e \in Symbols /\ e \notin InString /\ Kept(e) = e
  BY DEF Symbols, Literals, InString, Controls, Kept
<1> QED BY <1>1, <1>2, <1>3, <1>4

LEMMA XmlCharacterWritten ==
  ASSUME NEW c \in Symbols, NEW x,
         x = IF c \in {"ampersand", "less", "greater", "quote"}
               THEN CHOOSE e \in DOMAIN Entity : Entity[e] = c ELSE c
  PROVE  x \in Symbols /\ Writes(XmlEncodedCharacter(c), Kept(x))
<1>0. DOMAIN XmlEscapes = {"ampersand", "less", "greater", "quote"}
  BY DEF XmlEscapes
<1>1. CASE c \in {"ampersand", "less", "greater", "quote"}
  <2>1. /\ x = XmlEscapes[c] /\ Kept(x) = x /\ x \in Symbols /\ x \notin InString
    BY <1>1, AsXmlCharacter
  <2>2. XmlEncodedCharacter(c) = <<XmlEscapes[c]>>
    <3> HIDE DEF XmlEscapes
    <3> QED BY <1>0, <1>1 DEF XmlEncodedCharacter
  <2> QED BY <2>1, <2>2 DEF Writes
<1>2. CASE c \notin {"ampersand", "less", "greater", "quote"}
  <2>1. XmlEncodedCharacter(c) = EncodedCharacter(c) /\ x = c
    BY <1>0, <1>2 DEF XmlEncodedCharacter
  <2> QED BY <2>1, CharacterWritten
<1> QED BY <1>1, <1>2

LEMMA AsXmlIn ==
  ASSUME NEW v \in Seq(Symbols)
  PROVE  /\ AsXml(v) \in Seq(Symbols) /\ Len(AsXml(v)) = Len(v)
         /\ \A n \in 1 .. Len(v) : Writes(XmlEncodedCharacter(v[n]), Kept(AsXml(v)[n]))
<1>1. Len(v) \in Nat /\ DOMAIN v = 1 .. Len(v) /\ \A n \in 1 .. Len(v) : v[n] \in Symbols
  BY LenProperties
<1> DEFINE w == AsXml(v)
           X(c) == IF c \in {"ampersand", "less", "greater", "quote"}
                     THEN CHOOSE e \in DOMAIN Entity : Entity[e] = c ELSE c
<1>2. w = [n \in 1 .. Len(v) |-> w[n]] /\ \A n \in 1 .. Len(v) : w[n] = X(v[n])
  BY <1>1 DEF AsXml
<1> HIDE DEF w
<1>3. \A n \in 1 .. Len(v) : w[n] \in Symbols /\ Writes(XmlEncodedCharacter(v[n]), Kept(w[n]))
  BY <1>1, <1>2, XmlCharacterWritten
<1>4. w \in [1 .. Len(v) -> Symbols]
  BY <1>2, <1>3
<1>5. w \in Seq(Symbols)
  BY <1>1, <1>4, SeqDef
<1>6. Len(w) = Len(v)
  BY ONLY <1>1, <1>4, LengthIs
<1> QED BY <1>3, <1>5, <1>6 DEF w

LEMMA AtXmlEncoded ==
  ASSUME NEW v \in Seq(Symbols)
  PROVE  /\ XmlEncoded(v) \in Seq(Symbols)
         /\ \A t, C, N, A : Inside(A) /\ At("json", t, C, N, A) =>
              At("json", t \o XmlEncoded(v), C \o AsRead(AsXml(v)), N, A)
<1> DEFINE d == [k \in DOMAIN v |-> XmlEncodedCharacter(v[k])]
           x == AsXml(v)
           w == AsRead(x)
<1>1. /\ Len(v) \in Nat /\ DOMAIN v = 1 .. Len(v) /\ x \in Seq(Symbols) /\ Len(x) = Len(v)
      /\ \A n \in 1 .. Len(v) : Writes(XmlEncodedCharacter(v[n]), Kept(x[n]))
  BY LenProperties, AsXmlIn
<1> HIDE DEF x
<1>2. /\ w \in Seq(Symbols) /\ Len(w) = Len(v) /\ \A n \in 1 .. Len(v) : w[n] = Kept(x[n])
  BY <1>1, AsReadIn
<1>3. d = [n \in 1 .. Len(w) |-> d[n]] /\ \A n \in 1 .. Len(w) : d[n] = XmlEncodedCharacter(v[n])
  BY <1>1, <1>2
<1>4. XmlEncoded(v) = FlattenSeq(d)
  BY DEF XmlEncoded
<1> HIDE DEF d, w
<1>5. \A n \in 1 .. Len(w) : Writes(d[n], w[n])
  BY <1>1, <1>2, <1>3
<1>6. /\ FlattenSeq(d) \in Seq(Symbols)
      /\ \A t, C, N, A : Inside(A) /\ At("json", t, C, N, A) =>
           At("json", t \o FlattenSeq(d), C \o w, N, A)
  BY ONLY <1>2, <1>3, <1>5, AtPieces
<1> QED BY <1>4, <1>6 DEF w, x

-----------------------------------------------------------------------------
(* The fields of a builder, and the text that a call adds to it.           *)

Modes == {"NORMAL", "IN_VALUE", "AFTER_VALUE", "NEED_INDENT", "IN_ELEMENT"}

Builders == [text : Seq(Symbols), stack : Seq(Symbols), mode : Modes, need_indent : BOOLEAN]

(* The text t of a builder, after what has been discarded, reads as C.     *)
Told(K, g, t, C, N, A) == g \in Seq(Symbols) /\ t \in Seq(Symbols) /\ At(K, g \o t, C, N, A)

LEMMA ToldMore ==
  ASSUME NEW K, NEW g, NEW t, NEW C, NEW N, NEW A, Told(K, g, t, C, N, A),
         NEW x \in Seq(Symbols), NEW D, NEW M, NEW B, At(K, (g \o t) \o x, D, M, B)
  PROVE  t \o x \in Seq(Symbols) /\ Told(K, g, t \o x, D, M, B)
<1>1. g \in Seq(Symbols) /\ t \in Seq(Symbols)
  BY DEF Told
<1>2. (g \o t) \o x = g \o (t \o x)
  BY <1>1, Joined
<1>3. t \o x \in Seq(Symbols)
  BY <1>1, Longer
<1> QED BY <1>1, <1>2, <1>3 DEF Told

LEMMA ToldOne ==
  ASSUME NEW K, NEW g, NEW t, NEW C, NEW N, NEW A, Told(K, g, t, C, N, A),
         NEW c \in Symbols, NEW D \in Seq(Symbols), NEW M, NEW B,
         Read(K, R(C, N, A), c) = R(D, M, B)
  PROVE  Told(K, g, t \o <<c>>, D, M, B)
<1>1. At(K, g \o t, C, N, A)
  BY DEF Told
<1>2. At(K, (g \o t) \o <<c>>, D, M, B)
  BY <1>1, AtOne
<1>3. <<c>> \in Seq(Symbols)
  OBVIOUS
<1> QED BY <1>2, <1>3, ToldMore

LEMMA ToldText ==
  ASSUME NEW K, NEW g, NEW t, NEW C, NEW N, NEW A, Told(K, g, t, C, N, A)
  PROVE  g \in Seq(Symbols) /\ t \in Seq(Symbols) /\ C \in Seq(Symbols) /\ IsText(C)
BY DEF Told, At, IsText

LEMMA BlankSymbols == Seq(Blank) \subseteq Seq(Symbols)
<1>1. Blank \subseteq Symbols
  BY DEF Blank, Symbols, Literals
<1>2. \A s \in Seq(Blank) : s \in Seq(Symbols)
  BY <1>1, SeqMonotonic
<1> QED BY <1>2

LEMMA ToldBlanks ==
  ASSUME NEW K, NEW g, NEW t, NEW C, NEW N, NEW A, Told(K, g, t, C, N, A), NEW s \in Seq(Blank),
         \A c \in Blank : Read(K, R(C, N, A), c) = R(C, N, A)
  PROVE  Told(K, g, t \o s, C, N, A)
<1>1. At(K, g \o t, C, N, A)
  BY DEF Told
<1>2. At(K, (g \o t) \o s, C, N, A)
  BY <1>1, AtBlanks
<1>3. s \in Seq(Symbols)
  BY BlankSymbols
<1> QED BY <1>2, <1>3, ToldMore

LEMMA JsonBlanks ==
  ASSUME NEW g, NEW t, NEW C, NEW N, NEW A, Told("json", g, t, C, N, A), NEW s \in Seq(Blank),
         A \notin JsonTexts
  PROVE  Told("json", g, t \o s, C, N, A)
<1>1. ASSUME NEW c \in Blank PROVE Read("json", R(C, N, A), c) = R(C, N, A)
  <2>1. IsText(C)
    BY ToldText
  <2> QED BY <2>1, AtBlank
<1> QED BY <1>1, ToldBlanks

LEMMA XmlBlanks ==
  ASSUME NEW g, NEW t, NEW C, NEW N, Told("xml", g, t, C, N, "value"), NEW s \in Seq(Blank)
  PROVE  Told("xml", g, t \o s, C, N, "value")
<1>1. ASSUME NEW c \in Blank PROVE Read("xml", R(C, N, "value"), c) = R(C, N, "value")
  <2>1. IsText(C)
    BY ToldText
  <2> QED BY <2>1, AtOutside
<1> QED BY <1>1, ToldBlanks

(* What a call makes of the fields of a builder.                           *)
LEMMA PutIs ==
  ASSUME NEW b \in Builders, NEW x \in Seq(Symbols)
  PROVE  /\ Put(b, x) \in Builders /\ Put(b, x).text = b.text \o x
         /\ Put(b, x).stack = b.stack /\ Put(b, x).mode = b.mode
         /\ Put(b, x).need_indent = b.need_indent
<1>1. b.text \o x \in Seq(Symbols)
  BY Longer DEF Builders
<1> DEFINE y == b.text \o x
<1>2. y \in Seq(Symbols) /\ Put(b, x) = [b EXCEPT !.text = y]
  BY <1>1 DEF Put
<1> HIDE DEF y
<1>3. /\ Put(b, x) \in Builders /\ Put(b, x).text = y
      /\ Put(b, x).stack = b.stack /\ Put(b, x).mode = b.mode
      /\ Put(b, x).need_indent = b.need_indent
  BY <1>2 DEF Builders
<1> QED BY <1>3 DEF y

LEMMA ModeIs ==
  ASSUME NEW b \in Builders, NEW m \in Modes
  PROVE  /\ [b EXCEPT !.mode = m] \in Builders /\ [b EXCEPT !.mode = m].mode = m
         /\ [b EXCEPT !.mode = m].text = b.text /\ [b EXCEPT !.mode = m].stack = b.stack
         /\ [b EXCEPT !.mode = m].need_indent = b.need_indent
BY DEF Builders

LEMMA IndentIs ==
  ASSUME NEW b \in Builders, NEW i \in BOOLEAN
  PROVE  /\ [b EXCEPT !.need_indent = i] \in Builders
         /\ [b EXCEPT !.need_indent = i].need_indent = i
         /\ [b EXCEPT !.need_indent = i].text = b.text /\ [b EXCEPT !.need_indent = i].mode = b.mode
         /\ [b EXCEPT !.need_indent = i].stack = b.stack
BY DEF Builders

LEMMA StackIs ==
  ASSUME NEW b \in Builders, NEW s \in Seq(Symbols)
  PROVE  /\ [b EXCEPT !.stack = s] \in Builders /\ [b EXCEPT !.stack = s].stack = s
         /\ [b EXCEPT !.stack = s].text = b.text /\ [b EXCEPT !.stack = s].mode = b.mode
         /\ [b EXCEPT !.stack = s].need_indent = b.need_indent
BY DEF Builders

-----------------------------------------------------------------------------
(* json_builder, call by call.                                             *)

Moded(b, x, m) == [Put(b, x) EXCEPT !.mode = m]

LEMMA ModedIs ==
  ASSUME NEW b \in Builders, NEW x \in Seq(Symbols), NEW m \in Modes
  PROVE  /\ Moded(b, x, m) \in Builders /\ Moded(b, x, m).text = b.text \o x
         /\ Moded(b, x, m).stack = b.stack /\ Moded(b, x, m).mode = m
         /\ Moded(b, x, m).need_indent = b.need_indent
<1> DEFINE p == Put(b, x)
<1>1. /\ p \in Builders /\ p.text = b.text \o x /\ p.stack = b.stack
      /\ p.need_indent = b.need_indent
  BY PutIs
<1>2. Moded(b, x, m) = [p EXCEPT !.mode = m]
  BY DEF Moded
<1> HIDE DEF p
<1>3. /\ [p EXCEPT !.mode = m] \in Builders /\ [p EXCEPT !.mode = m].mode = m
      /\ [p EXCEPT !.mode = m].text = p.text /\ [p EXCEPT !.mode = m].stack = p.stack
      /\ [p EXCEPT !.mode = m].need_indent = p.need_indent
  BY <1>1, ModeIs
<1> QED BY <1>1, <1>2, <1>3

LEMMA ModesHere ==
  /\ "NORMAL" \in Modes /\ "IN_VALUE" \in Modes /\ "AFTER_VALUE" \in Modes
  /\ "NEED_INDENT" \in Modes /\ "IN_ELEMENT" \in Modes
BY DEF Modes

LEMMA SymbolsHere ==
  /\ "quote" \in Symbols /\ "comma" \in Symbols /\ "colon" \in Symbols /\ "nl" \in Symbols
  /\ "space" \in Symbols /\ "object" \in Symbols /\ "array" \in Symbols
  /\ "lbrace" \in Symbols /\ "rbrace" \in Symbols /\ "lbracket" \in Symbols
  /\ "rbracket" \in Symbols /\ "object_end" \in Symbols /\ "array_end" \in Symbols
  /\ "key" \in Symbols /\ "value" \in Symbols /\ "1" \in Symbols /\ "null" \in Symbols
  /\ "less" \in Symbols /\ "greater" \in Symbols /\ "slash" \in Symbols /\ "equals" \in Symbols
  /\ "element" \in Symbols /\ "attribute" \in Symbols /\ "attribute_end" \in Symbols
  /\ "end" \in Symbols /\ "a" \in Symbols /\ "e" \in Symbols /\ "f" \in Symbols
  /\ "declaration" \in Symbols /\ "apos" \in Symbols /\ "quot" \in Symbols /\ "lt" \in Symbols
  /\ "gt" \in Symbols /\ "apostrophe" \in Symbols
BY DEF Symbols, Literals

LEMMA SpacesBlank ==
  ASSUME NEW n \in Nat
  PROVE  /\ <<"space">> \in Seq(Blank) /\ <<"nl">> \in Seq(Blank)
         /\ Spaces(n) \in Seq(Blank) /\ <<"nl">> \o Spaces(n) \in Seq(Blank)
<1>1. "space" \in Blank /\ "nl" \in Blank
  BY DEF Blank
<1>2. <<"space">> \in Seq(Blank) /\ <<"nl">> \in Seq(Blank)
  BY <1>1
<1>3. Spaces(n) \in [1 .. n -> Blank]
  BY <1>1 DEF Spaces
<1>4. Spaces(n) \in Seq(Blank)
  BY <1>3, SeqDef
<1> QED BY <1>2, <1>4, ConcatProperties

(* normalize_mode(): the string is ended, and what follows is read next to *)
(* it or after a comma; blanks change nothing.                             *)
JsonModes == {"NORMAL", "IN_VALUE", "AFTER_VALUE"}

JsonRead(g, b, C, N, A) ==
  /\ b \in Builders /\ b.mode \in JsonModes
  /\ Told("json", g, b.text, C, N, A)
  /\ b.mode = "IN_VALUE" => A = "text" /\ ~b.need_indent
  /\ b.mode = "AFTER_VALUE" => A = "next"
  /\ b.mode = "NORMAL" => A \notin JsonTexts

AfterComma(N) == IF Last(N) = "object" THEN "key" ELSE "value"

LEMMA Quoted ==
  ASSUME NEW g, NEW b, NEW C, NEW N, NEW A, JsonRead(g, b, C, N, A)
  PROVE  LET q == IF b.mode = "IN_VALUE" THEN Moded(b, <<"quote">>, "AFTER_VALUE") ELSE b
             D == IF b.mode = "NORMAL" THEN A ELSE "next"
         IN  /\ JsonRead(g, q, C, N, D) /\ q.stack = b.stack /\ q.need_indent = b.need_indent
             /\ q.mode = IF b.mode = "NORMAL" THEN "NORMAL" ELSE "AFTER_VALUE"
<1>1. CASE b.mode = "IN_VALUE"
  <2> DEFINE q == Moded(b, <<"quote">>, "AFTER_VALUE")
  <2>1. b \in Builders /\ Told("json", g, b.text, C, N, "text")
    BY <1>1 DEF JsonRead
  <2>2. "quote" \in Symbols /\ <<"quote">> \in Seq(Symbols)
    BY SymbolsHere
  <2>3. q \in Builders /\ q.text = b.text \o <<"quote">> /\ q.stack = b.stack
        /\ q.mode = "AFTER_VALUE" /\ q.need_indent = b.need_indent
    <3>1. "AFTER_VALUE" \in Modes
      BY ModesHere
    <3> QED BY ONLY <2>1, <2>2, <3>1, ModedIs
  <2>4. C \in Seq(Symbols) /\ Read("json", R(C, N, "text"), "quote") = R(C, N, "next")
    BY <2>1, ToldText, AtText
  <2>5. Told("json", g, b.text \o <<"quote">>, C, N, "next")
    BY <2>1, <2>2, <2>4, ToldOne
  <2> HIDE DEF q
  <2>6. JsonRead(g, q, C, N, "next")
    BY <2>3, <2>5 DEF JsonRead, JsonModes
  <2> QED BY <1>1, <2>3, <2>6 DEF q
<1>2. CASE b.mode # "IN_VALUE"
  BY <1>2 DEF JsonRead, JsonModes
<1> QED BY <1>1, <1>2

LEMMA Separated ==
  ASSUME NEW g, NEW b, NEW C, NEW N, NEW A, JsonRead(g, b, C, N, A), b.mode # "IN_VALUE",
         NEW start_value \in BOOLEAN,
         start_value /\ b.mode # "NORMAL" => N # <<>> /\ (Last(N) = "object" \/ Last(N) = "array")
  PROVE  LET q == IF start_value /\ b.mode = "AFTER_VALUE"
                    THEN Moded(b, <<"comma">>, "NORMAL") ELSE b
             D == IF start_value /\ b.mode = "AFTER_VALUE" THEN AfterComma(N) ELSE A
         IN  /\ JsonRead(g, q, C, N, D) /\ q.stack = b.stack /\ q.need_indent = b.need_indent
             /\ q.mode = IF start_value THEN "NORMAL" ELSE b.mode
<1>1. CASE start_value /\ b.mode = "AFTER_VALUE"
  <2> DEFINE q == Moded(b, <<"comma">>, "NORMAL")
  <2>1. b \in Builders /\ Told("json", g, b.text, C, N, "next")
    BY <1>1 DEF JsonRead
  <2>2. "comma" \in Symbols /\ <<"comma">> \in Seq(Symbols)
    BY SymbolsHere
  <2>3. q \in Builders /\ q.text = b.text \o <<"comma">> /\ q.stack = b.stack
        /\ q.mode = "NORMAL" /\ q.need_indent = b.need_indent
    <3>1. "NORMAL" \in Modes
      BY ModesHere
    <3> QED BY ONLY <2>1, <2>2, <3>1, ModedIs
  <2>4. C \in Seq(Symbols) /\ IsText(C)
    BY <2>1, ToldText
  <2>5. Read("json", R(C, N, "next"), "comma") = R(C, N, AfterComma(N))
    <3>1. CASE Last(N) = "object"
      BY <1>1, <2>4, <3>1, AtPunctuation DEF AfterComma
    <3>2. CASE Last(N) = "array"
      BY <1>1, <2>4, <3>2, AtPunctuation DEF AfterComma
    <3> QED BY <1>1, <3>1, <3>2
  <2>6. Told("json", g, b.text \o <<"comma">>, C, N, AfterComma(N))
    BY <2>1, <2>2, <2>4, <2>5, ToldOne
  <2> HIDE DEF q
  <2>7. JsonRead(g, q, C, N, AfterComma(N))
    BY <2>3, <2>6 DEF JsonRead, JsonModes, AfterComma, JsonTexts
  <2> QED BY <1>1, <2>3, <2>7 DEF q
<1>2. CASE ~(start_value /\ b.mode = "AFTER_VALUE")
  BY <1>2 DEF JsonRead, JsonModes
<1> QED BY <1>1, <1>2

LEMMA Indented ==
  ASSUME NEW g, NEW b, NEW C, NEW N, NEW A, JsonRead(g, b, C, N, A), b.mode # "IN_VALUE",
         NEW s \in Seq(Blank)
  PROVE  LET q == [Put(b, s) EXCEPT !.need_indent = FALSE]
         IN  JsonRead(g, q, C, N, A) /\ q.stack = b.stack /\ q.mode = b.mode
             /\ q.need_indent = FALSE
<1> DEFINE p == Put(b, s)
           q == [p EXCEPT !.need_indent = FALSE]
<1>1. /\ b \in Builders /\ Told("json", g, b.text, C, N, A) /\ A \notin JsonTexts
      /\ b.mode \in JsonModes /\ (b.mode = "AFTER_VALUE" => A = "next")
  BY DEF JsonRead, JsonModes, JsonTexts
<1>2. s \in Seq(Symbols)
  BY BlankSymbols
<1>3. p \in Builders /\ p.text = b.text \o s /\ p.stack = b.stack /\ p.mode = b.mode
  BY <1>1, <1>2, PutIs
<1> HIDE DEF p
<1>4. q \in Builders /\ q.text = p.text /\ q.stack = p.stack /\ q.mode = p.mode
      /\ q.need_indent = FALSE
  BY <1>3, IndentIs
<1> HIDE DEF q
<1>5. Told("json", g, b.text \o s, C, N, A)
  BY <1>1, JsonBlanks
<1>6. JsonRead(g, q, C, N, A)
  BY <1>1, <1>3, <1>4, <1>5 DEF JsonRead
<1> QED BY <1>3, <1>4, <1>6 DEF p, q

CommaFits(start_value, b, N) ==
  start_value /\ b.mode # "NORMAL" => N # <<>> /\ (Last(N) = "object" \/ Last(N) = "array")

LEMMA Normalized ==
  ASSUME NEW g, NEW b, NEW C, NEW N, NEW A, JsonRead(g, b, C, N, A), NEW start_value \in BOOLEAN,
         CommaFits(start_value, b, N)
  PROVE  LET n == Normalize(b, start_value)
         IN  /\ JsonRead(g, n, C, N, IF b.mode = "NORMAL" THEN A
                                     ELSE IF start_value THEN AfterComma(N) ELSE "next")
             /\ n.stack = b.stack /\ n.need_indent = FALSE
             /\ n.mode = IF start_value \/ b.mode = "NORMAL" THEN "NORMAL" ELSE "AFTER_VALUE"
<1> DEFINE q == IF b.mode = "IN_VALUE" THEN Moded(b, <<"quote">>, "AFTER_VALUE") ELSE b
           D == IF b.mode = "NORMAL" THEN A ELSE "next"
           c == IF start_value /\ q.mode = "AFTER_VALUE"
                  THEN Moded(q, <<"comma">>, "NORMAL") ELSE q
           E == IF start_value /\ q.mode = "AFTER_VALUE" THEN AfterComma(N) ELSE D
           s == IF c.text # <<>> /\ Last(c.text) = "colon" THEN <<"space">>
                ELSE <<"nl">> \o Spaces(Len(c.stack))
           i == [Put(c, s) EXCEPT !.need_indent = FALSE]
<1>1. Normalize(b, start_value) = IF c.need_indent THEN i ELSE c
  BY DEF Normalize, Moded
<1>2. /\ JsonRead(g, q, C, N, D) /\ q.stack = b.stack /\ q.need_indent = b.need_indent
      /\ q.mode = IF b.mode = "NORMAL" THEN "NORMAL" ELSE "AFTER_VALUE"
  BY Quoted
<1> HIDE DEF q
<1>3. D = IF b.mode = "NORMAL" THEN A ELSE "next"
  OBVIOUS
<1> HIDE DEF D
<1>4. /\ JsonRead(g, c, C, N, E) /\ c.stack = q.stack /\ c.need_indent = q.need_indent
      /\ c.mode = IF start_value THEN "NORMAL" ELSE q.mode
  <2>1. q.mode # "IN_VALUE"
    BY <1>2
  <2>2. start_value /\ q.mode # "NORMAL" => N # <<>> /\ (Last(N) = "object" \/ Last(N) = "array")
    BY <1>2 DEF CommaFits
  <2> QED BY <1>2, <2>1, <2>2, Separated
<1>5. E = IF start_value /\ q.mode = "AFTER_VALUE" THEN AfterComma(N) ELSE D
  OBVIOUS
<1> HIDE DEF c, E
<1>6. c.mode # "IN_VALUE" /\ c.mode =
       IF start_value \/ b.mode = "NORMAL" THEN "NORMAL" ELSE "AFTER_VALUE"
  BY <1>2, <1>4
<1>7. s \in Seq(Blank)
  <2>1. c.stack \in Seq(Symbols)
    BY <1>4 DEF JsonRead, Builders
  <2>2. Len(c.stack) \in Nat
    BY <2>1, LenProperties
  <2> QED BY <2>2, SpacesBlank
<1> HIDE DEF s
<1>8. JsonRead(g, i, C, N, E) /\ i.stack = c.stack /\ i.mode = c.mode /\ i.need_indent = FALSE
  BY <1>4, <1>6, <1>7, Indented
<1> HIDE DEF i
<1>9. E = IF b.mode = "NORMAL" THEN A ELSE IF start_value THEN AfterComma(N) ELSE "next"
  BY <1>2, <1>3, <1>5
<1>10. c.need_indent \in BOOLEAN
  BY <1>4 DEF JsonRead, Builders
<1> DEFINE n == Normalize(b, start_value)
<1>11. JsonRead(g, n, C, N, E) /\ n.stack = b.stack /\ n.need_indent = FALSE /\ n.mode = c.mode
  BY <1>1, <1>2, <1>4, <1>8, <1>10
<1> HIDE DEF n
<1>12. n.mode = IF start_value \/ b.mode = "NORMAL" THEN "NORMAL" ELSE "AFTER_VALUE"
  BY <1>6, <1>11
<1> QED BY <1>9, <1>11, <1>12 DEF n

LEMMA NormalizedValue ==
  ASSUME NEW g, NEW b, NEW C, NEW N, NEW A, JsonRead(g, b, C, N, A),
         b.mode # "NORMAL" => N # <<>> /\ (Last(N) = "object" \/ Last(N) = "array")
  PROVE  /\ JsonRead(g, Normalize(b, TRUE), C, N, IF b.mode = "NORMAL" THEN A ELSE AfterComma(N))
         /\ Normalize(b, TRUE).stack = b.stack /\ Normalize(b, TRUE).need_indent = FALSE
         /\ Normalize(b, TRUE).mode = "NORMAL"
<1> DEFINE v == TRUE
           n == Normalize(b, v)
<1>1. v \in BOOLEAN /\ v = TRUE
  OBVIOUS
<1> HIDE DEF v
<1>2. CommaFits(v, b, N)
  BY DEF CommaFits
<1>3. /\ JsonRead(g, n, C, N, IF b.mode = "NORMAL" THEN A ELSE IF v THEN AfterComma(N) ELSE "next")
      /\ n.stack = b.stack /\ n.need_indent = FALSE
      /\ n.mode = IF v \/ b.mode = "NORMAL" THEN "NORMAL" ELSE "AFTER_VALUE"
  BY <1>1, <1>2, Normalized
<1>4. n = Normalize(b, TRUE)
  BY <1>1
<1> HIDE DEF n
<1>5. JsonRead(g, n, C, N, IF b.mode = "NORMAL" THEN A ELSE AfterComma(N)) /\ n.mode = "NORMAL"
  BY <1>1, <1>3
<1> QED BY <1>3, <1>4, <1>5

LEMMA NormalizedEnd ==
  ASSUME NEW g, NEW b, NEW C, NEW N, NEW A, JsonRead(g, b, C, N, A)
  PROVE  /\ JsonRead(g, Normalize(b, FALSE), C, N, IF b.mode = "NORMAL" THEN A ELSE "next")
         /\ Normalize(b, FALSE).stack = b.stack /\ Normalize(b, FALSE).need_indent = FALSE
         /\ Normalize(b, FALSE).mode = IF b.mode = "NORMAL" THEN "NORMAL" ELSE "AFTER_VALUE"
<1>1. FALSE \in BOOLEAN /\ CommaFits(FALSE, b, N)
  BY DEF CommaFits
<1>2. LET n == Normalize(b, FALSE)
      IN  /\ JsonRead(g, n, C, N, IF b.mode = "NORMAL" THEN A
                                  ELSE IF FALSE THEN AfterComma(N) ELSE "next")
          /\ n.stack = b.stack /\ n.need_indent = FALSE
          /\ n.mode = IF FALSE \/ b.mode = "NORMAL" THEN "NORMAL" ELSE "AFTER_VALUE"
  BY ONLY <1>1, JsonRead(g, b, C, N, A), Normalized
<1> QED BY <1>2

Closers(N) == [k \in DOMAIN N |-> IF N[k] = "object" THEN "rbrace" ELSE "rbracket"]

Containers == {"object", "array"}

LEMMA AppendIs ==
  ASSUME NEW S, NEW s \in Seq(S), NEW c \in S
  PROVE  /\ Append(s, c) \in Seq(S) /\ Append(s, c) # <<>> /\ Last(Append(s, c)) = c
         /\ Len(Append(s, c)) = Len(s) + 1 /\ DOMAIN Append(s, c) = 1 .. (Len(s) + 1)
         /\ \A k \in 1 .. Len(s) : Append(s, c)[k] = s[k]
         /\ Append(s, c)[Len(s) + 1] = c
         /\ Append(s, c) = s \o <<c>>
<1>1. Append(s, c) \in Seq(S) /\ Len(Append(s, c)) = Len(s) + 1 /\ Len(s) \in Nat
  BY LenProperties
<1>2. Append(s, c) # <<>>
  BY <1>1
<1>3. Append(s, c)[Len(s) + 1] = c /\ \A k \in 1 .. Len(s) : Append(s, c)[k] = s[k]
  BY <1>1
<1>4. Last(Append(s, c)) = c
  BY <1>1, <1>3 DEF Last
<1>5. Append(s, c) = s \o <<c>>
  OBVIOUS
<1> QED BY <1>1, <1>2, <1>3, <1>4, <1>5

LEMMA AppendLast ==
  ASSUME NEW S, NEW s \in Seq(S), NEW c \in S
  PROVE  Append(s, c) \in Seq(S) /\ Append(s, c) # <<>> /\ Last(Append(s, c)) = c
<1>1. Append(s, c) \in Seq(S) /\ Len(Append(s, c)) = Len(s) + 1 /\ Len(s) \in Nat
  BY LenProperties
<1>2. Append(s, c) # <<>>
  BY <1>1
<1>3. Append(s, c)[Len(s) + 1] = c
  BY <1>1
<1> QED BY <1>1, <1>2, <1>3 DEF Last

LEMMA FrontIs ==
  ASSUME NEW S, NEW s \in Seq(S), s # <<>>
  PROVE  /\ Front(s) \in Seq(S) /\ Len(Front(s)) = Len(s) - 1 /\ DOMAIN Front(s) = 1 .. (Len(s) - 1)
         /\ \A k \in 1 .. (Len(s) - 1) : Front(s)[k] = s[k]
         /\ Last(s) = s[Len(s)] /\ Last(s) \in S /\ Len(s) \in Nat /\ Len(s) \in 1 .. Len(s)
<1>1. Len(s) \in Nat /\ Len(s) # 0 /\ \A k \in 1 .. Len(s) : s[k] \in S
  BY EmptySeq, LenProperties
<1> DEFINE m == Len(s) - 1
<1>2. m \in Nat /\ Front(s) = SubSeq(s, 1, m) /\ m + 1 = Len(s)
  BY <1>1 DEF Front
<1>3. \A k \in 1 .. m : s[k] \in S
  BY <1>1
<1> HIDE DEF m
<1>4. /\ SubSeq(s, 1, m) \in Seq(S) /\ Len(SubSeq(s, 1, m)) = IF 1 <= m THEN m - 1 + 1 ELSE 0
      /\ \A k \in 1 .. m - 1 + 1 : SubSeq(s, 1, m)[k] = s[1 + k - 1]
  BY <1>2, <1>3, SubSeqProperties, 1 \in Int, m \in Int
<1>5. Front(s) \in Seq(S) /\ Len(Front(s)) = m /\ \A k \in 1 .. m : Front(s)[k] = s[k]
  BY <1>2, <1>4
<1>6. DOMAIN Front(s) = 1 .. m
  BY <1>5, LenProperties
<1>7. Last(s) = s[Len(s)] /\ Last(s) \in S /\ Len(s) \in 1 .. Len(s)
  BY <1>1 DEF Last
<1> QED BY <1>1, <1>5, <1>6, <1>7 DEF m

LEMMA ClosersIs ==
  ASSUME NEW N \in Seq(Containers)
  PROVE  /\ Closers(N) \in Seq(Symbols) /\ Len(Closers(N)) = Len(N)
         /\ DOMAIN Closers(N) = 1 .. Len(N)
         /\ \A k \in 1 .. Len(N) :
              Closers(N)[k] = IF N[k] = "object" THEN "rbrace" ELSE "rbracket"
         /\ Closers(N) = <<>> <=> N = <<>>
<1>1. DOMAIN N = 1 .. Len(N) /\ Len(N) \in Nat
  BY LenProperties
<1>2. Closers(N) \in [1 .. Len(N) -> Symbols]
  BY <1>1, SymbolsHere DEF Closers
<1>3. Closers(N) \in Seq(Symbols)
  BY <1>1, <1>2, SeqDef
<1>4. Len(Closers(N)) = Len(N) /\ DOMAIN Closers(N) = 1 .. Len(N)
  BY <1>1, <1>2, <1>3, LenProperties
<1>5. \A k \in 1 .. Len(N) :
        Closers(N)[k] = IF N[k] = "object" THEN "rbrace" ELSE "rbracket"
  BY <1>1 DEF Closers
<1>6. Closers(N) = <<>> <=> N = <<>>
  BY <1>3, <1>4, EmptySeq
<1> QED BY <1>3, <1>4, <1>5, <1>6

LEMMA ClosersAppend ==
  ASSUME NEW N \in Seq(Containers), NEW o \in Containers
  PROVE  Closers(Append(N, o)) =
           Append(Closers(N), IF o = "object" THEN "rbrace" ELSE "rbracket")
<1> DEFINE M == Append(N, o)
           c == IF o = "object" THEN "rbrace" ELSE "rbracket"
           s == Append(Closers(N), c)
<1>1. /\ M \in Seq(Containers) /\ Len(M) = Len(N) + 1 /\ Len(N) \in Nat
      /\ \A k \in 1 .. Len(N) : M[k] = N[k]
      /\ M[Len(N) + 1] = o
  BY AppendIs, LenProperties
<1>2. /\ Closers(N) \in Seq(Symbols) /\ Len(Closers(N)) = Len(N)
      /\ \A k \in 1 .. Len(N) :
           Closers(N)[k] = IF N[k] = "object" THEN "rbrace" ELSE "rbracket"
  BY ClosersIs
<1>3. c \in Symbols
  BY SymbolsHere
<1>4. c = IF o = "object" THEN "rbrace" ELSE "rbracket"
  OBVIOUS
<1> HIDE DEF M, c
<1>5. /\ Closers(M) \in Seq(Symbols) /\ Len(Closers(M)) = Len(M)
      /\ \A k \in 1 .. Len(M) :
           Closers(M)[k] = IF M[k] = "object" THEN "rbrace" ELSE "rbracket"
  BY <1>1, ClosersIs
<1>6. /\ s \in Seq(Symbols) /\ Len(s) = Len(N) + 1
      /\ \A k \in 1 .. Len(N) : s[k] = Closers(N)[k]
      /\ s[Len(N) + 1] = c
  <2> DEFINE r == Closers(N)
  <2>1. r \in Seq(Symbols) /\ Len(r) = Len(N)
    BY <1>2
  <2> HIDE DEF r
  <2>2. /\ Append(r, c) \in Seq(Symbols) /\ Len(Append(r, c)) = Len(N) + 1
        /\ \A k \in 1 .. Len(N) : Append(r, c)[k] = r[k]
        /\ Append(r, c)[Len(N) + 1] = c
    BY <1>3, <2>1, AppendIs
  <2> QED BY <2>2 DEF r
<1> HIDE DEF s
<1>7. ASSUME NEW k \in 1 .. Len(M) PROVE Closers(M)[k] = s[k]
  <2>1. CASE k = Len(N) + 1
    BY <1>1, <1>4, <1>5, <1>6, <2>1
  <2>2. CASE k # Len(N) + 1
    <3>1. k \in 1 .. Len(N)
      BY <1>1, <2>2
    <3> QED BY <1>1, <1>2, <1>5, <1>6, <3>1
  <2> QED BY <2>1, <2>2
<1>8. Closers(M) = s
  BY <1>1, <1>5, <1>6, <1>7, SeqEqual
<1> QED BY <1>8 DEF M, c, s

LEMMA ClosersFront ==
  ASSUME NEW N \in Seq(Containers), N # <<>>
  PROVE  /\ Closers(Front(N)) = Front(Closers(N)) /\ Closers(N) # <<>>
         /\ Last(Closers(N)) = IF Last(N) = "object" THEN "rbrace" ELSE "rbracket"
<1> DEFINE M == Front(N)
           r == Closers(N)
<1>1. /\ M \in Seq(Containers) /\ Len(M) = Len(N) - 1 /\ Len(N) \in Nat /\ Len(N) \in 1 .. Len(N)
      /\ \A k \in 1 .. (Len(N) - 1) : M[k] = N[k]
      /\ Last(N) = N[Len(N)]
  BY FrontIs
<1>2. /\ r \in Seq(Symbols) /\ Len(r) = Len(N) /\ r # <<>>
      /\ \A k \in 1 .. Len(N) : r[k] = IF N[k] = "object" THEN "rbrace" ELSE "rbracket"
  BY ClosersIs
<1> HIDE DEF M, r
<1>3. /\ Closers(M) \in Seq(Symbols) /\ Len(Closers(M)) = Len(M)
      /\ \A k \in 1 .. Len(M) :
           Closers(M)[k] = IF M[k] = "object" THEN "rbrace" ELSE "rbracket"
  BY <1>1, ClosersIs
<1>4. /\ Front(r) \in Seq(Symbols) /\ Len(Front(r)) = Len(r) - 1
      /\ \A k \in 1 .. (Len(r) - 1) : Front(r)[k] = r[k]
      /\ Last(r) = r[Len(r)]
  BY <1>2, FrontIs
<1>5. ASSUME NEW k \in 1 .. Len(M) PROVE Closers(M)[k] = Front(r)[k]
  <2>1. k \in 1 .. (Len(N) - 1) /\ k \in 1 .. Len(N) /\ k \in 1 .. (Len(r) - 1)
    BY <1>1, <1>2
  <2> QED BY <1>1, <1>2, <1>3, <1>4, <2>1
<1>6. Closers(M) = Front(r)
  BY <1>1, <1>2, <1>3, <1>4, <1>5, SeqEqual
<1>7. Last(r) = IF Last(N) = "object" THEN "rbrace" ELSE "rbracket"
  BY <1>1, <1>2, <1>4
<1> QED BY <1>2, <1>6, <1>7 DEF M, r

LEMMA NotEmpty ==
  ASSUME NEW C \in Seq(Symbols), NEW x \in Seq(Symbols), x # <<>>
  PROVE  C \o x # <<>>
BY ConcatEqualIffEmpty, ConcatProperties, EmptySeq, LenProperties

JsonAt(b, N, keyed) ==
  IF b.mode = "IN_VALUE" THEN "text" ELSE IF b.mode = "AFTER_VALUE" THEN "next"
  ELSE IF keyed \/ N = <<>> THEN "value"
  ELSE IF Last(N) = "object" THEN "key_or_end" ELSE "value_or_end"

(* The text of a json_builder after what has been discarded, and where its *)
(* mode and its stack stand in it.                                         *)
Json(g, b, C, N, keyed, string) ==
  /\ JsonRead(g, b, C, N, JsonAt(b, N, keyed))
  /\ N \in Seq(Containers) /\ b.stack = Closers(N)
  /\ keyed \in BOOLEAN /\ string \in BOOLEAN
  /\ string <=> b.mode = "IN_VALUE"
  /\ string => N # <<>>
  /\ keyed => b.mode = "NORMAL" /\ N # <<>> /\ Last(N) = "object"
  /\ C = <<>> => b.mode = "NORMAL" /\ N = <<>>
  /\ C # <<>> /\ N = <<>> => b.mode # "NORMAL"

LEMMA JsonParts ==
  ASSUME NEW g, NEW b, NEW C, NEW N, NEW keyed, NEW string, Json(g, b, C, N, keyed, string)
  PROVE  /\ b \in Builders /\ C \in Seq(Symbols) /\ IsText(C) /\ b.stack \in Seq(Symbols)
         /\ N # <<>> => Last(N) = "object" \/ Last(N) = "array"
<1>1. b \in Builders /\ Told("json", g, b.text, C, N, JsonAt(b, N, keyed)) /\ N \in Seq(Containers)
  BY DEF Json, JsonRead
<1>2. C \in Seq(Symbols) /\ IsText(C)
  BY <1>1, ToldText
<1>3. N # <<>> => Last(N) \in Containers
  BY <1>1, FrontIs
<1> QED BY <1>1, <1>2, <1>3 DEF Containers, Builders

(* Where a value may begin.                                                *)
LEMMA JsonValueNext ==
  ASSUME NEW g, NEW b, NEW C, NEW N, NEW keyed, NEW string, Json(g, b, C, N, keyed, string),
         keyed \/ (N # <<>> /\ Last(N) = "array") \/ C = <<>>
  PROVE  \E A : /\ JsonRead(g, Normalize(b, TRUE), C, N, A) /\ (A = "value" \/ A = "value_or_end")
                /\ Normalize(b, TRUE).stack = Closers(N) /\ Normalize(b, TRUE).mode = "NORMAL"
                /\ Normalize(b, TRUE).need_indent = FALSE
<1> DEFINE A == JsonAt(b, N, keyed)
           n == Normalize(b, TRUE)
           E == IF b.mode = "NORMAL" THEN A ELSE AfterComma(N)
<1>1. JsonRead(g, b, C, N, A) /\ b.stack = Closers(N)
  BY DEF Json
<1>2. b.mode # "NORMAL" => N # <<>> /\ Last(N) = "array"
  BY DEF Json
<1>3. b.mode = "NORMAL" => A = "value" \/ A = "value_or_end"
  BY DEF Json, JsonAt
<1> HIDE DEF A
<1>4. b.mode # "NORMAL" => N # <<>> /\ (Last(N) = "object" \/ Last(N) = "array")
  BY <1>2
<1>5. JsonRead(g, n, C, N, E) /\ n.stack = b.stack /\ n.mode = "NORMAL" /\ n.need_indent = FALSE
  BY <1>1, <1>4, NormalizedValue
<1>6. E = "value" \/ E = "value_or_end"
  BY <1>2, <1>3 DEF AfterComma
<1> HIDE DEF n, E
<1>7. \E B : JsonRead(g, n, C, N, B) /\ (B = "value" \/ B = "value_or_end")
  BY <1>5, <1>6
<1> QED BY <1>1, <1>5, <1>7 DEF n

(* object() and array()                                                    *)
LEMMA JsonOpens ==
  ASSUME NEW g, NEW b, NEW C, NEW N, NEW keyed, NEW string, Json(g, b, C, N, keyed, string),
         keyed \/ (N # <<>> /\ Last(N) = "array") \/ C = <<>>,
         NEW o \in Containers, NEW c, c = IF o = "object" THEN "rbrace" ELSE "rbracket",
         NEW x, x = IF o = "object" THEN "lbrace" ELSE "lbracket"
  PROVE  Json(g, JsonOpen(b, x, c), C \o <<o>>, Append(N, o), FALSE, FALSE)
<1> DEFINE n == Normalize(b, TRUE)
           M == Append(N, o)
           D == C \o <<o>>
           B == IF o = "object" THEN "key_or_end" ELSE "value_or_end"
           p == Put(n, <<x>>)
           s == Append(p.stack, c)
           q == [p EXCEPT !.stack = s]
<1>1. PICK A : /\ JsonRead(g, n, C, N, A) /\ (A = "value" \/ A = "value_or_end")
               /\ n.stack = Closers(N) /\ n.mode = "NORMAL"
  BY JsonValueNext
<1>2. JsonOpen(b, x, c) = q
  BY DEF JsonOpen
<1> HIDE DEF n
<1>3. n \in Builders /\ Told("json", g, n.text, C, N, A) /\ C \in Seq(Symbols) /\ IsText(C)
  BY <1>1, JsonParts DEF JsonRead
<1>4. /\ o \in Symbols /\ c \in Symbols /\ <<o>> \in Seq(Symbols) /\ <<o>> # <<>>
      /\ x \in Symbols /\ <<x>> \in Seq(Symbols)
  <2>1. o \in Symbols /\ c \in Symbols /\ x \in Symbols
    BY SymbolsHere DEF Containers
  <2> QED BY <2>1
<1>5. Read("json", R(C, N, A), x) = R(D, M, B)
  <2>1. CASE o = "object"
    BY <1>1, <1>3, <2>1, AtValue
  <2>2. CASE o = "array"
    BY <1>1, <1>3, <2>2, AtValue
  <2> QED BY <2>1, <2>2 DEF Containers
<1>6. D \in Seq(Symbols) /\ D # <<>>
  BY <1>3, <1>4, Longer, NotEmpty
<1> HIDE DEF D, M
<1>7. Told("json", g, n.text \o <<x>>, D, M, B)
  BY <1>3, <1>4, <1>5, <1>6, ToldOne
<1>8. /\ p \in Builders /\ p.text = n.text \o <<x>> /\ p.stack = Closers(N) /\ p.mode = "NORMAL"
  BY <1>1, <1>3, <1>4, PutIs
<1> HIDE DEF p
<1>9. M \in Seq(Containers) /\ M # <<>> /\ Last(M) = o
      /\ Append(Closers(N), c) = Closers(M) /\ Closers(M) \in Seq(Symbols)
  <2>1. N \in Seq(Containers)
    BY DEF Json
  <2>2. M \in Seq(Containers) /\ M # <<>> /\ Last(M) = o
    <3>1. /\ Append(N, o) \in Seq(Containers) /\ Append(N, o) # <<>>
          /\ Last(Append(N, o)) = o
      BY ONLY <2>1, o \in Containers, AppendLast
    <3> QED BY ONLY <3>1 DEF M
  <2>3. Append(Closers(N), c) = Closers(M)
    BY <2>1, ClosersAppend DEF M
  <2> QED BY <2>2, <2>3, ClosersIs
<1>10. q \in Builders /\ q.stack = Closers(M) /\ q.text = p.text /\ q.mode = p.mode
  <2>1. s \in Seq(Symbols) /\ s = Closers(M)
    BY <1>8, <1>9
  <2> HIDE DEF s
  <2> QED BY <1>8, <2>1, StackIs
<1> HIDE DEF q
<1>11. JsonAt(q, M, FALSE) = B
  BY <1>8, <1>9, <1>10 DEF JsonAt
<1> HIDE DEF B
<1>12. B \notin JsonTexts
  BY DEF B, JsonTexts
<1>13. JsonRead(g, q, D, M, B)
  BY <1>7, <1>8, <1>10, <1>12 DEF JsonRead, JsonModes
<1>14. Json(g, q, D, M, FALSE, FALSE)
  BY <1>6, <1>8, <1>9, <1>10, <1>11, <1>13 DEF Json
<1> QED BY <1>2, <1>14 DEF D, M

(* What the encoded text of a value adds.                                  *)
LEMMA ToldEncoded ==
  ASSUME NEW g, NEW t, NEW C, NEW N, NEW A, Told("json", g, t, C, N, A), Inside(A),
         NEW v \in Seq(Symbols)
  PROVE  /\ Encoded(v) \in Seq(Symbols) /\ AsRead(v) \in Seq(Symbols)
         /\ C \o AsRead(v) \in Seq(Symbols)
         /\ Told("json", g, t \o Encoded(v), C \o AsRead(v), N, A)
<1>1. At("json", g \o t, C, N, A)
  BY DEF Told
<1>2. Encoded(v) \in Seq(Symbols) /\ At("json", (g \o t) \o Encoded(v), C \o AsRead(v), N, A)
  BY ONLY <1>1, Inside(A), v \in Seq(Symbols), AtEncoded
<1>3. Told("json", g, t \o Encoded(v), C \o AsRead(v), N, A)
  BY <1>2, ToldMore
<1> QED BY <1>2, <1>3, ToldText, AsReadIn

LEMMA ToldXmlEncoded ==
  ASSUME NEW g, NEW t, NEW C, NEW N, NEW A, Told("json", g, t, C, N, A), Inside(A),
         NEW v \in Seq(Symbols)
  PROVE  /\ XmlEncoded(v) \in Seq(Symbols) /\ AsRead(AsXml(v)) \in Seq(Symbols)
         /\ Told("json", g, t \o XmlEncoded(v), C \o AsRead(AsXml(v)), N, A)
<1>1. At("json", g \o t, C, N, A)
  BY DEF Told
<1>2. /\ XmlEncoded(v) \in Seq(Symbols)
      /\ At("json", (g \o t) \o XmlEncoded(v), C \o AsRead(AsXml(v)), N, A)
  BY ONLY <1>1, Inside(A), v \in Seq(Symbols), AtXmlEncoded
<1>3. Told("json", g, t \o XmlEncoded(v), C \o AsRead(AsXml(v)), N, A)
  BY <1>2, ToldMore
<1> QED BY <1>2, <1>3, AsXmlIn, AsReadIn

(* key()                                                                   *)
LEMMA JsonKeys ==
  ASSUME NEW g, NEW b, NEW C, NEW N, NEW string, Json(g, b, C, N, FALSE, string),
         N # <<>>, Last(N) = "object", NEW v \in Seq(Symbols)
  PROVE  Json(g, JsonKey(b, v), C \o (<<"key">> \o AsRead(v)), N, TRUE, FALSE)
<1> DEFINE A == JsonAt(b, N, FALSE)
           n == Normalize(b, TRUE)
           E == IF b.mode = "NORMAL" THEN A ELSE AfterComma(N)
           D == C \o <<"key">>
           t1 == n.text \o <<"quote">>
           t2 == t1 \o Encoded(v)
           t3 == t2 \o <<"quote">>
           t4 == t3 \o <<"colon">>
           x == <<"quote">> \o Encoded(v) \o <<"quote", "colon">>
           q == Put(n, x)
           w == AsRead(v)
<1>1. JsonRead(g, b, C, N, A) /\ b.stack = Closers(N) /\ N \in Seq(Containers)
  BY DEF Json
<1>2. b.mode = "NORMAL" => A = "key_or_end"
  BY DEF Json, JsonAt
<1> HIDE DEF A
<1>3. JsonRead(g, n, C, N, E) /\ n.stack = Closers(N) /\ n.mode = "NORMAL"
  BY <1>1, NormalizedValue
<1>4. E = "key" \/ E = "key_or_end"
  BY <1>2 DEF AfterComma
<1>5. JsonKey(b, v) = q
  BY DEF JsonKey
<1> HIDE DEF n, E
<1>6. n \in Builders /\ Told("json", g, n.text, C, N, E) /\ C \in Seq(Symbols) /\ IsText(C)
  BY <1>3, JsonParts DEF JsonRead
<1>7. "quote" \in Symbols /\ "colon" \in Symbols /\ "key" \in Symbols /\ <<"key">> \in Seq(Symbols)
      /\ <<"quote">> \in Seq(Symbols) /\ <<"colon">> \in Seq(Symbols)
  BY SymbolsHere
<1>8. D \in Seq(Symbols) /\ IsText(D)
  BY <1>6, <1>7, Longer DEF IsText
<1>9. Read("json", R(C, N, E), "quote") = R(D, N, "key_text")
  <2>1. CASE E = "key"
    BY <1>6, <2>1, AtPunctuation
  <2>2. CASE E = "key_or_end"
    BY <1>6, <2>2, AtPunctuation
  <2> QED BY <1>4, <2>1, <2>2
<1> HIDE DEF D
<1>10. Told("json", g, t1, D, N, "key_text")
  BY <1>6, <1>7, <1>8, <1>9, ToldOne
<1>11. /\ Encoded(v) \in Seq(Symbols) /\ D \o w \in Seq(Symbols) /\ w \in Seq(Symbols)
       /\ Told("json", g, t2, D \o w, N, "key_text")
  <2> HIDE DEF t1
  <2>1. Inside("key_text")
    BY DEF Inside
  <2> QED BY ONLY <1>10, <2>1, v \in Seq(Symbols), ToldEncoded
<1> HIDE DEF w
<1> DEFINE F == D \o w
<1>12. F \in Seq(Symbols) /\ IsText(F) /\ Told("json", g, t2, F, N, "key_text")
  BY <1>11 DEF IsText
<1> HIDE DEF F
<1>13. Told("json", g, t3, F, N, "colon")
  <2>1. Read("json", R(F, N, "key_text"), "quote") = R(F, N, "colon")
    BY <1>12, AtKeyText
  <2> HIDE DEF t2
  <2> QED BY <1>7, <1>12, <2>1, ToldOne
<1>14. Told("json", g, t4, F, N, "value")
  <2>1. Read("json", R(F, N, "colon"), "colon") = R(F, N, "value")
    BY <1>12, AtPunctuation
  <2> HIDE DEF t3
  <2> QED BY <1>7, <1>12, <1>13, <2>1, ToldOne
<1>15. x \in Seq(Symbols) /\ n.text \o x = t4
  <2> DEFINE e == Encoded(v)
             y == <<"quote">> \o e
             u == <<"quote", "colon">>
             s == n.text
  <2>1. e \in Seq(Symbols) /\ s \in Seq(Symbols) /\ u \in Seq(Symbols)
    BY <1>6, <1>7, <1>11, Pair, ToldText
  <2> HIDE DEF e, s
  <2>2. y \in Seq(Symbols) /\ s \o <<"quote">> \in Seq(Symbols) /\ (s \o <<"quote">>) \o e = s \o y
    BY <1>7, <2>1, Longer, Joined
  <2> HIDE DEF y, u
  <2>3. y \o u \in Seq(Symbols) /\ (s \o y) \o u = s \o (y \o u) /\ s \o y \in Seq(Symbols)
    BY <2>1, <2>2, Longer, Joined
  <2>4. ((s \o y) \o <<"quote">>) \o <<"colon">> = (s \o y) \o u
    BY <1>7, <2>3, TwoMore DEF u
  <2>5. t4 = ((s \o y) \o <<"quote">>) \o <<"colon">>
    BY <2>2 DEF e, s
  <2>6. x = y \o u
    BY DEF y, u, e
  <2> QED BY <2>3, <2>4, <2>5, <2>6 DEF s
<1> HIDE DEF x
<1>16. q \in Builders /\ q.text = t4 /\ q.stack = Closers(N) /\ q.mode = "NORMAL"
  <2> HIDE DEF t4
  <2> QED BY <1>3, <1>6, <1>15, PutIs
<1> HIDE DEF q, t4
<1>17. F = C \o (<<"key">> \o w) /\ F # <<>>
  <2>1. F = C \o (<<"key">> \o w)
    BY <1>6, <1>7, <1>11, Joined DEF F, D
  <2>2. <<"key">> \o w \in Seq(Symbols) /\ <<"key">> \o w # <<>>
    BY <1>7, <1>11, ConcatEqualIffEmpty, Longer
  <2> QED BY <1>6, <2>1, <2>2, NotEmpty
<1>18. JsonAt(q, N, TRUE) = "value"
  BY <1>16 DEF JsonAt
<1>19. JsonRead(g, q, F, N, "value")
  BY <1>14, <1>16 DEF JsonRead, JsonModes, JsonTexts
<1>20. Json(g, q, F, N, TRUE, FALSE)
  BY <1>1, <1>16, <1>17, <1>18, <1>19 DEF Json
<1> QED BY <1>5, <1>17, <1>20 DEF w

Adds(g, N, e, v) ==
  \A t, D : Told("json", g, t, D, N, "text") => Told("json", g, t \o e, D \o v, N, "text")

Begins(append, string) == IF append /\ string THEN <<>> ELSE <<"value">>

(* value() of a string, of which no more is read than what was encoded     *)
LEMMA JsonStrings ==
  ASSUME NEW g, NEW b, NEW C, NEW N, NEW keyed, NEW string, Json(g, b, C, N, keyed, string),
         NEW append \in BOOLEAN, keyed \/ (N # <<>> /\ Last(N) = "array") \/ (append /\ string),
         NEW e \in Seq(Symbols), NEW v \in Seq(Symbols),
         Adds(g, N, e, v)
  PROVE  Json(g, JsonString(b, e, append), C \o (Begins(append, string) \o v), N, FALSE, TRUE)
<1> DEFINE n == Normalize(b, TRUE)
           p == Put(n, <<"quote">>)
           D == IF append /\ string THEN C ELSE C \o <<"value">>
           s == IF append /\ b.mode = "IN_VALUE" THEN b ELSE p
           q == Moded(s, e, "IN_VALUE")
<1>1. JsonString(b, e, append) = q
  BY DEF JsonString, Moded
<1>2. /\ b \in Builders /\ C \in Seq(Symbols) /\ IsText(C) /\ b.stack = Closers(N)
      /\ N \in Seq(Containers)
      /\ (string <=> b.mode = "IN_VALUE") /\ N # <<>> /\ string \in BOOLEAN
  BY JsonParts DEF Json
<1>3. "quote" \in Symbols /\ "value" \in Symbols /\ <<"quote">> \in Seq(Symbols)
      /\ <<"value">> \in Seq(Symbols) /\ <<"value">> # <<>>
  BY SymbolsHere
<1>4. /\ s \in Builders /\ Told("json", g, s.text, D, N, "text") /\ s.stack = Closers(N)
      /\ ~s.need_indent /\ D \in Seq(Symbols) /\ D # <<>>
  <2>1. CASE append /\ string
    <3>1. s = b /\ D = C
      BY <1>2, <2>1
    <3>2. Told("json", g, b.text, C, N, "text") /\ ~b.need_indent
      BY <1>2, <2>1 DEF Json, JsonRead
    <3>3. C # <<>>
      BY <1>2, <2>1 DEF Json
    <3> HIDE DEF s, D
    <3> QED BY <1>2, <3>1, <3>2, <3>3
  <2>2. CASE ~(append /\ string)
    <3>1. PICK A : /\ JsonRead(g, n, C, N, A) /\ (A = "value" \/ A = "value_or_end")
                   /\ n.stack = Closers(N) /\ n.need_indent = FALSE
      BY <2>2, JsonValueNext
    <3>2. s = p /\ D = C \o <<"value">>
      BY <1>2, <2>2
    <3> HIDE DEF n, s, D
    <3>3. n \in Builders /\ Told("json", g, n.text, C, N, A)
      BY <3>1 DEF JsonRead
    <3>4. Read("json", R(C, N, A), "quote") = R(D, N, "text")
      BY <1>2, <3>1, <3>2, AtValue
    <3>5. D \in Seq(Symbols) /\ D # <<>>
      BY <1>2, <1>3, <3>2, Longer, NotEmpty
    <3>6. Told("json", g, n.text \o <<"quote">>, D, N, "text")
      BY <1>3, <3>3, <3>4, <3>5, ToldOne
    <3>7. p \in Builders /\ p.text = n.text \o <<"quote">> /\ p.stack = n.stack
          /\ p.need_indent = n.need_indent
      BY <1>3, <3>3, PutIs
    <3> HIDE DEF p
    <3> QED BY <3>1, <3>2, <3>5, <3>6, <3>7
  <2> QED BY <2>1, <2>2
<1>5. D \o v = C \o (Begins(append, string) \o v)
  <2>1. CASE append /\ string
    <3>1. <<>> \o v = v
      BY ConcatEmptySeq
    <3> QED BY <2>1, <3>1 DEF Begins
  <2>2. CASE ~(append /\ string)
    <3>1. (C \o <<"value">>) \o v = C \o (<<"value">> \o v)
      BY <1>2, <1>3, Joined
    <3> QED BY <2>2, <3>1 DEF Begins
  <2> QED BY <2>1, <2>2
<1> HIDE DEF s, D
<1>6. Told("json", g, s.text \o e, D \o v, N, "text")
  BY <1>4 DEF Adds
<1>7. q \in Builders /\ q.text = s.text \o e /\ q.stack = s.stack /\ q.mode = "IN_VALUE"
      /\ q.need_indent = s.need_indent
  <2>1. "IN_VALUE" \in Modes
    BY ModesHere
  <2> QED BY ONLY <1>4, <2>1, e \in Seq(Symbols), ModedIs
<1> HIDE DEF q
<1>8. JsonAt(q, N, FALSE) = "text"
  BY <1>7 DEF JsonAt
<1>9. JsonRead(g, q, D \o v, N, "text")
  BY <1>4, <1>6, <1>7 DEF JsonRead, JsonModes
<1>10. D \o v # <<>>
  BY <1>4, ConcatEqualIffEmpty
<1> DEFINE F == D \o v
<1>11. JsonRead(g, q, F, N, "text") /\ F # <<>>
  BY <1>9, <1>10
<1> HIDE DEF F
<1>12. Json(g, q, F, N, FALSE, TRUE)
  BY <1>2, <1>4, <1>7, <1>8, <1>11 DEF Json
<1> QED BY <1>1, <1>5, <1>12 DEF F

(* value() of a number or of a literal                                     *)
LEMMA JsonLiterals ==
  ASSUME NEW g, NEW b, NEW C, NEW N, NEW keyed, NEW string, Json(g, b, C, N, keyed, string),
         keyed \/ (N # <<>> /\ Last(N) = "array"), NEW c \in {"1", "null"}
  PROVE  Json(g, JsonLiteral(b, c), C \o <<c>>, N, FALSE, FALSE)
<1> DEFINE n == Normalize(b, TRUE)
           q == Moded(n, <<c>>, "AFTER_VALUE")
           D == C \o <<c>>
<1>1. JsonLiteral(b, c) = q
  BY DEF JsonLiteral, Moded
<1>2. /\ C \in Seq(Symbols) /\ IsText(C) /\ N \in Seq(Containers)
  BY JsonParts DEF Json
<1>3. c \in Symbols /\ <<c>> \in Seq(Symbols) /\ <<c>> # <<>>
  <2>1. c \in Symbols
    BY SymbolsHere
  <2> QED BY <2>1
<1>4. PICK A : JsonRead(g, n, C, N, A) /\ (A = "value" \/ A = "value_or_end")
      /\ n.stack = Closers(N)
  BY JsonValueNext
<1> HIDE DEF n
<1>5. n \in Builders /\ Told("json", g, n.text, C, N, A)
  BY <1>4 DEF JsonRead
<1>6. Read("json", R(C, N, A), c) = R(D, N, "next")
  <2>1. CASE c = "1"
    BY <1>2, <1>4, <2>1, AtValue
  <2>2. CASE c = "null"
    BY <1>2, <1>4, <2>2, AtValue
  <2> QED BY <2>1, <2>2
<1>7. D \in Seq(Symbols) /\ D # <<>>
  BY <1>2, <1>3, Longer, NotEmpty
<1> HIDE DEF D
<1>8. Told("json", g, n.text \o <<c>>, D, N, "next")
  BY <1>3, <1>5, <1>6, <1>7, ToldOne
<1>9. q \in Builders /\ q.text = n.text \o <<c>> /\ q.stack = n.stack /\ q.mode = "AFTER_VALUE"
  <2>1. "AFTER_VALUE" \in Modes
    BY ModesHere
  <2> QED BY ONLY <1>3, <1>5, <2>1, ModedIs
<1> HIDE DEF q
<1>10. JsonAt(q, N, FALSE) = "next"
  BY <1>9 DEF JsonAt
<1>11. JsonRead(g, q, D, N, "next")
  BY <1>8, <1>9 DEF JsonRead, JsonModes
<1>12. Json(g, q, D, N, FALSE, FALSE)
  BY <1>2, <1>4, <1>7, <1>9, <1>10, <1>11 DEF Json
<1> QED BY <1>1, <1>12 DEF D

(* indent()                                                                *)
LEMMA JsonIndents ==
  ASSUME NEW g, NEW b, NEW C, NEW N, NEW keyed, NEW string, Json(g, b, C, N, keyed, string)
  PROVE  Json(g, JsonIndent(b), C, N, keyed, FALSE)
<1> DEFINE A == JsonAt(b, N, keyed)
           n == Normalize(b, FALSE)
           q == [n EXCEPT !.need_indent = TRUE]
           E == IF b.mode = "NORMAL" THEN A ELSE "next"
<1>1. CASE b.need_indent
  <2>1. JsonIndent(b) = b /\ b.mode # "IN_VALUE" /\ string = FALSE
    BY <1>1 DEF JsonIndent, Json, JsonRead
  <2> QED BY <2>1 DEF Json
<1>2. CASE ~b.need_indent
  <2>1. JsonIndent(b) = q
    BY <1>2 DEF JsonIndent
  <2>2. JsonRead(g, b, C, N, A)
    BY DEF Json
  <2>3. b.mode = "NORMAL" => A = IF keyed \/ N = <<>> THEN "value"
                               ELSE IF Last(N) = "object" THEN "key_or_end" ELSE "value_or_end"
    BY DEF JsonAt
  <2> HIDE DEF A
  <2>4. JsonRead(g, n, C, N, E) /\ n.stack = b.stack
        /\ n.mode = IF b.mode = "NORMAL" THEN "NORMAL" ELSE "AFTER_VALUE"
    BY <2>2, NormalizedEnd
  <2> HIDE DEF n
  <2>5. n \in Builders
    BY <2>4 DEF JsonRead
  <2>6. q \in Builders /\ q.need_indent = TRUE /\ q.text = n.text /\ q.mode = n.mode
        /\ q.stack = n.stack
    BY <2>5, IndentIs
  <2> HIDE DEF q
  <2>7. JsonAt(q, N, keyed) = E
    BY <2>3, <2>4, <2>6 DEF JsonAt
  <2> HIDE DEF E
  <2>8. JsonRead(g, q, C, N, E)
    BY <2>4, <2>6 DEF JsonRead
  <2>9. Json(g, q, C, N, keyed, FALSE)
    BY <2>4, <2>6, <2>7, <2>8 DEF Json
  <2> QED BY <2>1, <2>9
<1>3. b.need_indent \in BOOLEAN
  BY JsonParts DEF Builders
<1> QED BY <1>1, <1>2, <1>3

(* close()                                                                 *)
Closer(N) == IF Last(N) = "object" THEN "rbrace" ELSE "rbracket"
Ender(N) == IF Last(N) = "object" THEN "object_end" ELSE "array_end"

LEMMA JsonCloses ==
  ASSUME NEW g, NEW b, NEW C, NEW N, NEW string, Json(g, b, C, N, FALSE, string), N # <<>>
  PROVE  Json(g, JsonClose(b), C \o <<Ender(N)>>, Front(N), FALSE, FALSE)
<1> DEFINE A == JsonAt(b, N, FALSE)
           s == Front(b.stack)
           p == [b EXCEPT !.stack = s]
           n == Normalize(p, FALSE)
           E == IF p.mode = "NORMAL" THEN A ELSE "next"
           c == Closer(N)
           z == Ender(N)
           D == C \o <<z>>
           M == Front(N)
           q == Moded(n, <<c>>, "AFTER_VALUE")
<1>1. /\ b \in Builders /\ C \in Seq(Symbols) /\ IsText(C) /\ N \in Seq(Containers)
      /\ JsonRead(g, b, C, N, A) /\ b.stack = Closers(N)
      /\ (Last(N) = "object" \/ Last(N) = "array")
  BY JsonParts DEF Json
<1>2. /\ s = Closers(M) /\ b.stack # <<>> /\ Last(b.stack) = c /\ M \in Seq(Containers)
      /\ s \in Seq(Symbols)
  <2>1. M \in Seq(Containers)
    BY <1>1, FrontIs
  <2>2. Closers(M) = Front(Closers(N)) /\ Closers(N) # <<>> /\ Last(Closers(N)) = c
    BY <1>1, ClosersFront DEF Closer
  <2>3. Closers(M) \in Seq(Symbols)
    BY <2>1, ClosersIs
  <2> QED BY <1>1, <2>1, <2>2, <2>3
<1>3. JsonClose(b) = q
  BY <1>2 DEF JsonClose, Moded
<1>4. p \in Builders /\ p.stack = s /\ p.text = b.text /\ p.mode = b.mode
      /\ p.need_indent = b.need_indent
  <2> HIDE DEF s
  <2> QED BY <1>1, <1>2, StackIs
<1> HIDE DEF p, s
<1>5. JsonRead(g, p, C, N, A)
  <2> HIDE DEF A
  <2> QED BY <1>1, <1>4 DEF JsonRead
<1>6. JsonRead(g, n, C, N, E) /\ n.stack = p.stack
  <2> HIDE DEF A
  <2> QED BY <1>5, NormalizedEnd
<1>7. E = "next" \/ E = IF c = "rbrace" THEN "key_or_end" ELSE "value_or_end"
  BY <1>1, <1>4 DEF JsonAt, Closer
<1> HIDE DEF n, E
<1>8. n \in Builders /\ Told("json", g, n.text, C, N, E)
  BY <1>6 DEF JsonRead
<1>9. /\ c \in Symbols /\ <<c>> \in Seq(Symbols)
      /\ z \in Symbols /\ <<z>> \in Seq(Symbols) /\ <<z>> # <<>>
  <2>1. c \in Symbols /\ z \in Symbols
    BY SymbolsHere DEF Closer, Ender
  <2> QED BY <2>1
<1>10. Read("json", R(C, N, E), c) = R(D, M, "next")
  <2>1. CASE Last(N) = "object"
    <3>1. c = "rbrace" /\ (E = "next" \/ E = "key_or_end") /\ z = "object_end"
      BY <1>7, <2>1 DEF Closer, Ender
    <3> HIDE DEF c, z
    <3> QED BY <1>1, <2>1, <3>1, AtPunctuation
  <2>2. CASE Last(N) = "array"
    <3>1. c = "rbracket" /\ (E = "next" \/ E = "value_or_end") /\ z = "array_end"
      BY <1>7, <2>2 DEF Closer, Ender
    <3> HIDE DEF c, z
    <3> QED BY <1>1, <2>2, <3>1, AtPunctuation
  <2> QED BY <1>1, <2>1, <2>2
<1>11. D \in Seq(Symbols) /\ D # <<>>
  BY <1>1, <1>9, Longer, NotEmpty
<1> HIDE DEF D, c, z, M
<1>12. Told("json", g, n.text \o <<c>>, D, M, "next")
  BY <1>8, <1>9, <1>10, <1>11, ToldOne
<1>13. q \in Builders /\ q.text = n.text \o <<c>> /\ q.stack = n.stack /\ q.mode = "AFTER_VALUE"
  <2>1. "AFTER_VALUE" \in Modes
    BY ModesHere
  <2> QED BY ONLY <1>8, <1>9, <2>1, ModedIs
<1> HIDE DEF q
<1>14. JsonAt(q, M, FALSE) = "next"
  BY <1>13 DEF JsonAt
<1>15. JsonRead(g, q, D, M, "next")
  BY <1>12, <1>13 DEF JsonRead, JsonModes
<1>16. Json(g, q, D, M, FALSE, FALSE)
  BY <1>2, <1>4, <1>6, <1>11, <1>13, <1>14, <1>15 DEF Json
<1> QED BY <1>3, <1>16 DEF D, M, c, z

(* close(), called as many times as finish() does.                         *)
CloseStep(K, indent, x) ==
  IF K = "json" THEN JsonClose(IF indent THEN JsonIndent(x) ELSE x)
  ELSE XmlClose(IF indent THEN XmlIndent(x) ELSE x)

ClosesBy(f, K, b, indent, m) ==
  f = [n \in 0 .. m |-> IF n = 0 THEN b ELSE CloseStep(K, indent, f[n - 1])]

LEMMA ClosesThere ==
  ASSUME NEW K, NEW b, NEW indent, NEW m \in Nat
  PROVE  \E f : ClosesBy(f, K, b, indent, m)
<1> DEFINE G == {i \in Nat : \E f : f = [n \in 0 .. i |-> IF n = 0 THEN b
                                                          ELSE CloseStep(K, indent, f[n - 1])]}
<1>1. 0 \in G
  <2> DEFINE f == [n \in 0 .. 0 |-> b]
  <2>1. f = [n \in 0 .. 0 |-> IF n = 0 THEN b ELSE CloseStep(K, indent, f[n - 1])]
    OBVIOUS
  <2> QED BY <2>1
<1>2. ASSUME NEW i \in Nat, i \in G PROVE i + 1 \in G
  <2>1. PICK f : f = [n \in 0 .. i |-> IF n = 0 THEN b ELSE CloseStep(K, indent, f[n - 1])]
    BY <1>2
  <2> DEFINE h == [n \in 0 .. (i + 1) |-> IF n = i + 1 THEN CloseStep(K, indent, f[i]) ELSE f[n]]
  <2>2. ASSUME NEW n \in 0 .. (i + 1)
        PROVE  h[n] = IF n = 0 THEN b ELSE CloseStep(K, indent, h[n - 1])
    <3>1. CASE n = 0
      <4>1. 0 \in 0 .. i /\ 0 # i + 1
        OBVIOUS
      <4>2. f[0] = b
        BY <2>1, <4>1
      <4> QED BY <3>1, <4>1, <4>2
    <3>2. CASE n # 0
      <4>1. n - 1 \in 0 .. i /\ n - 1 \in 0 .. (i + 1) /\ n - 1 # i + 1
        BY <3>2
      <4>2. h[n - 1] = f[n - 1]
        BY <4>1
      <4>3. h[n] = CloseStep(K, indent, f[n - 1])
        <5>1. CASE n = i + 1
          <6>1. n - 1 = i
            BY <5>1
          <6> QED BY <5>1, <6>1
        <5>2. CASE n # i + 1
          <6>1. n \in 0 .. i
            BY <5>2
          <6>2. f[n] = CloseStep(K, indent, f[n - 1])
            BY <2>1, <3>2, <6>1
          <6> QED BY <5>2, <6>2
        <5> QED BY <5>1, <5>2
      <4> HIDE DEF h
      <4> QED BY <3>2, <4>2, <4>3
    <3> QED BY <3>1, <3>2
  <2>3. h = [n \in 0 .. (i + 1) |-> h[n]]
    OBVIOUS
  <2> HIDE DEF h
  <2>4. h = [n \in 0 .. (i + 1) |-> IF n = 0 THEN b ELSE CloseStep(K, indent, h[n - 1])]
    BY <2>2, <2>3
  <2>5. i + 1 \in Nat
    OBVIOUS
  <2> QED BY <2>4, <2>5
<1> HIDE DEF G
<1>3. m \in G
  BY <1>1, <1>2, Inductive
<1> QED BY <1>3 DEF G, ClosesBy

EndLine(x) == IF x.text # <<>> /\ Last(x.text) # "nl" THEN Put(x, <<"nl">>) ELSE x

ClosesTo(f, K, b, indent, last) ==
  /\ f[0] = b /\ f[Len(b.stack)] = last
  /\ \A n \in 1 .. Len(b.stack) : f[n] = CloseStep(K, indent, f[n - 1])

LEMMA JsonFinishIs ==
  ASSUME NEW b \in Builders, NEW indent
  PROVE  \E f, last : ClosesTo(f, "json", b, indent, last) /\ JsonFinish(b, indent) = EndLine(last)
<1> DEFINE m == Len(b.stack)
           Fits(h) == h = [n \in 0 .. m |-> IF n = 0 THEN b
                             ELSE JsonClose(IF indent THEN JsonIndent(h[n - 1]) ELSE h[n - 1])]
           f == CHOOSE h : Fits(h)
<1>1. m \in Nat
  BY LenProperties DEF Builders
<1>2. JsonFinish(b, indent) = EndLine(f[m])
  BY DEF JsonFinish, EndLine
<1>3. \E h : Fits(h)
  <2> DEFINE K == "json"
  <2>2. \A x : CloseStep(K, indent, x) = JsonClose(IF indent THEN JsonIndent(x) ELSE x)
    BY DEF CloseStep
  <2> HIDE DEF m, K
  <2>1. PICK h : ClosesBy(h, K, b, indent, m)
    BY <1>1, ClosesThere
  <2>3. Fits(h)
    BY <2>1, <2>2 DEF ClosesBy
  <2> QED BY <2>3
<1> HIDE DEF m
<1>4. Fits(f)
  BY <1>3
<1> HIDE DEF f
<1>5. f[0] = b /\ \A n \in 1 .. m : f[n] = CloseStep("json", indent, f[n - 1])
  <2>1. 0 \in 0 .. m /\ \A n \in 1 .. m : n \in 0 .. m /\ n # 0
    BY <1>1
  <2>2. \A x : CloseStep("json", indent, x) = JsonClose(IF indent THEN JsonIndent(x) ELSE x)
    BY DEF CloseStep
  <2> QED BY <1>4, <2>1, <2>2
<1>6. ClosesTo(f, "json", b, indent, f[m])
  BY <1>5 DEF ClosesTo, m
<1> QED BY <1>2, <1>6

LEMMA FrontOfMore ==
  ASSUME NEW S, NEW s \in Seq(S), NEW c \in S
  PROVE  /\ s \o <<c>> \in Seq(S) /\ s \o <<c>> # <<>>
         /\ Front(s \o <<c>>) = s /\ Last(s \o <<c>>) = c
<1> DEFINE t == s \o <<c>>
<1>1. <<c>> \in Seq(S) /\ Len(<<c>>) = 1 /\ <<c>>[1] = c /\ Len(s) \in Nat
  BY LenProperties
<1>2. /\ t \in Seq(S) /\ Len(t) = Len(s) + 1
      /\ \A i \in 1 .. Len(s) + 1 : t[i] = IF i <= Len(s) THEN s[i] ELSE <<c>>[i - Len(s)]
  BY <1>1, ConcatProperties
<1>3. t # <<>>
  BY <1>1, <1>2
<1>4. t[Len(s) + 1] = c /\ \A i \in 1 .. Len(s) : t[i] = s[i]
  <2>1. (Len(s) + 1) - Len(s) = 1
    BY <1>1
  <2> QED BY <1>1, <1>2, <2>1
<1> HIDE DEF t
<1>5. /\ Front(t) \in Seq(S) /\ Len(Front(t)) = Len(t) - 1
      /\ \A k \in 1 .. (Len(t) - 1) : Front(t)[k] = t[k]
      /\ Last(t) = t[Len(t)]
  BY <1>2, <1>3, FrontIs
<1>6. Front(t) = s
  <2>1. \A k \in 1 .. Len(Front(t)) : Front(t)[k] = s[k]
    BY <1>1, <1>2, <1>4, <1>5
  <2>2. Len(Front(t)) = Len(s)
    BY <1>1, <1>2, <1>5
  <2> QED BY <1>5, <2>1, <2>2, SeqEqual
<1> QED BY <1>2, <1>3, <1>4, <1>5, <1>6 DEF t

LEMMA FirstFront ==
  ASSUME NEW S, NEW s \in Seq(S), NEW n \in Nat, n < Len(s)
  PROVE  /\ SubSeq(s, 1, n + 1) # <<>> /\ SubSeq(s, 1, n + 1) \in Seq(S)
         /\ Front(SubSeq(s, 1, n + 1)) = SubSeq(s, 1, n)
         /\ Last(SubSeq(s, 1, n + 1)) = s[n + 1]
<1>1. /\ s[n + 1] \in S /\ SubSeq(s, 1, n) \in Seq(S)
      /\ SubSeq(s, 1, n + 1) = SubSeq(s, 1, n) \o <<s[n + 1]>>
  BY FirstOneMore
<1> DEFINE r == SubSeq(s, 1, n)
           c == s[n + 1]
<1>2. r \in Seq(S) /\ c \in S /\ SubSeq(s, 1, n + 1) = r \o <<c>>
  BY <1>1
<1> HIDE DEF r, c
<1>3. r \o <<c>> \in Seq(S) /\ r \o <<c>> # <<>> /\ Front(r \o <<c>>) = r /\ Last(r \o <<c>>) = c
  BY <1>2, FrontOfMore
<1> QED BY <1>2, <1>3 DEF r, c

LEMMA ReverseIs ==
  ASSUME NEW S, NEW s \in Seq(S)
  PROVE  /\ Reverse(s) \in Seq(S) /\ Len(Reverse(s)) = Len(s)
         /\ \A k \in 1 .. Len(s) : Reverse(s)[k] = s[(Len(s) - k) + 1]
<1>1. Len(s) \in Nat /\ \A i \in 1 .. Len(s) : s[i] \in S
  BY LenProperties
<1>2. \A k \in 1 .. Len(s) : (Len(s) - k) + 1 \in 1 .. Len(s)
  BY <1>1
<1>3. Reverse(s) \in [1 .. Len(s) -> S]
  BY <1>1, <1>2 DEF Reverse
<1>4. Reverse(s) \in Seq(S)
  BY <1>1, <1>3, SeqDef
<1>5. Len(Reverse(s)) = Len(s)
  BY <1>1, <1>3, <1>4, LenProperties
<1>6. \A k \in 1 .. Len(s) : Reverse(s)[k] = s[(Len(s) - k) + 1]
  BY DEF Reverse
<1> QED BY <1>4, <1>5, <1>6



(* finish()                                                                *)
LEMMA JsonEnds ==
  ASSUME NEW g, NEW b, NEW C, Json(g, b, C, <<>>, FALSE, FALSE)
  PROVE  Json(g, EndLine(b), C, <<>>, FALSE, FALSE)
<1> DEFINE A == JsonAt(b, <<>>, FALSE)
           q == Put(b, <<"nl">>)
           t == b.text \o <<"nl">>
<1>1. b \in Builders /\ Told("json", g, b.text, C, <<>>, A) /\ JsonRead(g, b, C, <<>>, A)
  BY DEF Json, JsonRead
<1>2. b.mode # "IN_VALUE"
  BY DEF Json
<1>3. A = "value" \/ A = "next"
  BY <1>2 DEF JsonAt
<1>4. <<"nl">> \in Seq(Blank) /\ <<"nl">> \in Seq(Symbols)
  BY SpacesBlank, SymbolsHere, 0 \in Nat
<1>5. A \notin JsonTexts
  BY <1>3 DEF JsonTexts
<1>6. JsonAt(q, <<>>, FALSE) = A
  <2>1. q.mode = b.mode
    BY <1>1, <1>4, PutIs
  <2> QED BY <2>1 DEF JsonAt
<1> HIDE DEF A
<1>7. Told("json", g, t, C, <<>>, A)
  BY <1>1, <1>4, <1>5, JsonBlanks
<1>8. q \in Builders /\ q.text = t /\ q.stack = b.stack /\ q.mode = b.mode
      /\ q.need_indent = b.need_indent
  BY <1>1, <1>4, PutIs
<1> HIDE DEF q, t
<1>9. JsonRead(g, q, C, <<>>, A)
  BY <1>1, <1>7, <1>8 DEF JsonRead
<1>10. Json(g, q, C, <<>>, FALSE, FALSE)
  BY <1>6, <1>8, <1>9 DEF Json
<1> QED BY <1>10 DEF EndLine, q

Enders(N) == [k \in DOMAIN N |-> IF N[k] = "object" THEN "object_end" ELSE "array_end"]

LEMMA EndersIs ==
  ASSUME NEW N \in Seq(Containers)
  PROVE  /\ Enders(N) \in Seq(Symbols) /\ Len(Enders(N)) = Len(N)
         /\ \A k \in 1 .. Len(N) :
              Enders(N)[k] = IF N[k] = "object" THEN "object_end" ELSE "array_end"
<1>1. DOMAIN N = 1 .. Len(N) /\ Len(N) \in Nat
  BY LenProperties
<1>2. Enders(N) \in [1 .. Len(N) -> Symbols]
  BY <1>1, SymbolsHere DEF Enders
<1>3. Enders(N) \in Seq(Symbols) /\ Len(Enders(N)) = Len(N)
  BY ONLY <1>1, <1>2, LengthIs
<1>4. \A k \in 1 .. Len(N) :
        Enders(N)[k] = IF N[k] = "object" THEN "object_end" ELSE "array_end"
  BY <1>1 DEF Enders
<1> QED BY <1>3, <1>4

LEMMA JsonFinishes ==
  ASSUME NEW g, NEW b, NEW C, NEW N, NEW string, Json(g, b, C, N, FALSE, string),
         NEW indent \in BOOLEAN
  PROVE  Json(g, JsonFinish(b, indent), C \o Reverse(Enders(N)), <<>>, FALSE, FALSE)
<1> DEFINE r == Enders(N)
           v == Reverse(r)
           L == Len(N)
<1>1. /\ b \in Builders /\ C \in Seq(Symbols) /\ N \in Seq(Containers) /\ Len(b.stack) = L
      /\ L \in Nat /\ r \in Seq(Symbols) /\ Len(r) = L
      /\ \A k \in 1 .. L : r[k] = IF N[k] = "object" THEN "object_end" ELSE "array_end"
  <2>1. /\ b \in Builders /\ C \in Seq(Symbols) /\ N \in Seq(Containers) /\ b.stack = Closers(N)
    BY JsonParts DEF Json
  <2>2. Len(Closers(N)) = L /\ L \in Nat
    BY <2>1, ClosersIs, LenProperties
  <2>3. /\ r \in Seq(Symbols) /\ Len(r) = L
        /\ \A k \in 1 .. L : r[k] = IF N[k] = "object" THEN "object_end" ELSE "array_end"
    BY <2>1, EndersIs
  <2> QED BY <2>1, <2>2, <2>3
<1> HIDE DEF r
<1>2. v \in Seq(Symbols) /\ Len(v) = L /\ \A k \in 1 .. L : v[k] = r[(L - k) + 1]
  BY <1>1, ReverseIs
<1> HIDE DEF v
<1>3. PICK f : /\ f[0] = b /\ JsonFinish(b, indent) = EndLine(f[L])
               /\ \A n \in 1 .. L : f[n] = CloseStep("json", indent, f[n - 1])
  <2>1. PICK f, last : /\ ClosesTo(f, "json", b, indent, last)
                       /\ JsonFinish(b, indent) = EndLine(last)
    BY <1>1, JsonFinishIs
  <2>2. Len(b.stack) = L
    BY <1>1
  <2>3. /\ f[0] = b /\ f[Len(b.stack)] = last
        /\ \A n \in 1 .. Len(b.stack) : f[n] = CloseStep("json", indent, f[n - 1])
    BY <2>1 DEF ClosesTo
  <2> HIDE DEF L
  <2> QED BY <2>1, <2>2, <2>3
<1> DEFINE Holds(n) == \E s : Json(g, f[n], C \o SubSeq(v, 1, n), SubSeq(N, 1, L - n), FALSE, s)
           G == {n \in Nat : n <= L => Holds(n)}
<1> HIDE DEF Holds
<1>4. 0 \in G
  <2>1. SubSeq(v, 1, 0) = <<>> /\ C \o <<>> = C /\ SubSeq(N, 1, L) = N /\ L - 0 = L
    BY <1>1, FirstNone, ConcatEmptySeq, SubSeqFull
  <2>2. Json(g, f[0], C \o SubSeq(v, 1, 0), SubSeq(N, 1, L - 0), FALSE, string)
    BY <1>3, <2>1
  <2> QED BY <2>2 DEF Holds
<1>5. ASSUME NEW n \in Nat, n \in G PROVE n + 1 \in G
  <2>1. SUFFICES ASSUME n + 1 <= L PROVE Holds(n + 1)
    OBVIOUS
  <2> DEFINE m == L - (n + 1)
             M == SubSeq(N, 1, m + 1)
             D == C \o SubSeq(v, 1, n)
             x == f[n]
             y == IF indent THEN JsonIndent(x) ELSE x
  <2>2. /\ m \in Nat /\ m < L /\ m + 1 = L - n /\ n < Len(v) /\ n + 1 \in 1 .. L /\ (n + 1) - 1 = n
        /\ (L - (n + 1)) + 1 = m + 1 /\ m + 1 \in 1 .. L
    BY <1>1, <1>2, <2>1
  <2>3. PICK s : Json(g, x, D, M, FALSE, s)
    <3>1. Holds(n)
      BY <1>1, <1>5, <2>1
    <3> QED BY <2>2, <3>1 DEF Holds
  <2>4. M # <<>> /\ Front(M) = SubSeq(N, 1, m) /\ Last(M) = N[m + 1]
    <3> HIDE DEF m
    <3> QED BY <1>1, <2>2, FirstFront
  <2>5. /\ v[n + 1] \in Symbols /\ SubSeq(v, 1, n) \in Seq(Symbols)
        /\ SubSeq(v, 1, n + 1) = SubSeq(v, 1, n) \o <<v[n + 1]>>
    BY <1>2, <2>2, FirstOneMore
  <2>6. f[n + 1] = JsonClose(y)
    BY <1>3, <2>2 DEF CloseStep
  <2> HIDE DEF M, D, x
  <2>7. \E u : Json(g, y, D, M, FALSE, u)
    <3>1. Json(g, JsonIndent(x), D, M, FALSE, FALSE)
      BY <2>3, JsonIndents
    <3> QED BY <2>3, <3>1
  <2> HIDE DEF y
  <2>8. Json(g, JsonClose(y), D \o <<Ender(M)>>, Front(M), FALSE, FALSE)
    BY <2>4, <2>7, JsonCloses
  <2>9. Ender(M) = v[n + 1]
    <3>1. v[n + 1] = r[m + 1]
      BY <1>2, <2>2
    <3> HIDE DEF m
    <3> QED BY <1>1, <2>2, <2>4, <3>1 DEF Ender
  <2>10. D \o <<v[n + 1]>> = C \o SubSeq(v, 1, n + 1)
    <3> DEFINE c == v[n + 1]
               w == SubSeq(v, 1, n)
    <3>1. c \in Symbols /\ w \in Seq(Symbols) /\ SubSeq(v, 1, n + 1) = w \o <<c>> /\ D = C \o w
      BY <2>5 DEF D
    <3> HIDE DEF c, w
    <3>2. <<c>> \in Seq(Symbols)
      BY <3>1
    <3>3. (C \o w) \o <<c>> = C \o (w \o <<c>>)
      BY <1>1, <3>1, <3>2, Joined
    <3> QED BY <3>1, <3>3 DEF c
  <2>11. Json(g, f[n + 1], C \o SubSeq(v, 1, n + 1), SubSeq(N, 1, L - (n + 1)), FALSE, FALSE)
    BY <2>4, <2>6, <2>8, <2>9, <2>10
  <2> QED BY <2>11 DEF Holds
<1> HIDE DEF G
<1>6. L \in G
  BY <1>1, <1>4, <1>5, Inductive
<1>7. PICK s : Json(g, f[L], C \o v, <<>>, FALSE, s)
  <2>1. Holds(L)
    BY <1>1, <1>6 DEF G
  <2>2. SubSeq(v, 1, L) = v /\ L - L = 0 /\ SubSeq(N, 1, 0) = <<>>
    BY <1>1, <1>2, FirstNone, SubSeqFull
  <2> QED BY <2>1, <2>2 DEF Holds
<1>8. s = FALSE
  BY <1>7 DEF Json
<1>9. Json(g, EndLine(f[L]), C \o v, <<>>, FALSE, FALSE)
  BY <1>7, <1>8, JsonEnds
<1> QED BY <1>3, <1>9 DEF v, r

-----------------------------------------------------------------------------
(* xml_builder, call by call.                                              *)

LEMMA Four ==
  ASSUME NEW x \in Symbols, NEW y \in Symbols, NEW z \in Symbols, NEW w \in Symbols
  PROVE  <<x, y, z, w>> \in Seq(Symbols) /\ <<x, y>> \o <<z, w>> = <<x, y, z, w>>
<1>1. <<x, y>> \in Seq(Symbols) /\ <<z, w>> \in Seq(Symbols) /\ <<x, y, z, w>> \in Seq(Symbols)
  OBVIOUS
<1>2. Len(<<x, y>>) = 2 /\ Len(<<z, w>>) = 2 /\ Len(<<x, y, z, w>>) = 4
  OBVIOUS
<1>3. /\ <<x, y>> \o <<z, w>> \in Seq(Symbols) /\ Len(<<x, y>> \o <<z, w>>) = 4
      /\ \A i \in 1 .. 4 : (<<x, y>> \o <<z, w>>)[i] =
             IF i <= 2 THEN <<x, y>>[i] ELSE <<z, w>>[i - 2]
  BY <1>1, <1>2, ConcatProperties
<1>4. ASSUME NEW i \in 1 .. 4 PROVE (<<x, y>> \o <<z, w>>)[i] = <<x, y, z, w>>[i]
  <2>1. CASE i = 1
    <3>1. (<<x, y>> \o <<z, w>>)[i] = <<x, y>>[1]
      BY <1>3, <2>1
    <3> QED BY <2>1, <3>1
  <2>2. CASE i = 2
    <3>1. (<<x, y>> \o <<z, w>>)[i] = <<x, y>>[2]
      BY <1>3, <2>2
    <3> QED BY <2>2, <3>1
  <2>3. CASE i = 3
    <3>1. i - 2 = 1 /\ ~(i <= 2) /\ i \in 1 .. 4
      BY <2>3
    <3>2. (<<x, y>> \o <<z, w>>)[i] = <<z, w>>[1]
      BY <1>3, <3>1
    <3> QED BY <2>3, <3>2
  <2>4. CASE i = 4
    <3>1. i - 2 = 2 /\ ~(i <= 2) /\ i \in 1 .. 4
      BY <2>4
    <3>2. (<<x, y>> \o <<z, w>>)[i] = <<z, w>>[2]
      BY <1>3, <3>1
    <3> QED BY <2>4, <3>2
  <2> QED BY <2>1, <2>2, <2>3, <2>4
<1>5. <<x, y>> \o <<z, w>> = <<x, y, z, w>>
  BY <1>1, <1>2, <1>3, <1>4, SeqEqual
<1> QED BY <1>1, <1>5

LEMMA WriteIs ==
  ASSUME NEW b \in Builders, NEW x \in Seq(Symbols), NEW m \in Modes
  PROVE  /\ Write(b, x, m) \in Builders /\ Write(b, x, m).text = b.text \o x
         /\ Write(b, x, m).stack = b.stack /\ Write(b, x, m).mode = m
         /\ Write(b, x, m).need_indent = b.need_indent
<1> DEFINE y == b.text \o x
<1>1. y \in Seq(Symbols) /\ Write(b, x, m) = [b EXCEPT !.text = y, !.mode = m]
  BY Longer DEF Write, Builders
<1> HIDE DEF y
<1>2. /\ Write(b, x, m) \in Builders /\ Write(b, x, m).text = y
      /\ Write(b, x, m).stack = b.stack /\ Write(b, x, m).mode = m
      /\ Write(b, x, m).need_indent = b.need_indent
  BY <1>1 DEF Builders
<1> QED BY <1>2 DEF y

XmlModes == {"NORMAL", "NEED_INDENT", "IN_ELEMENT"}

XmlAt(b) == IF b.mode = "IN_ELEMENT" THEN "tag" ELSE "value"

XmlRead(g, b, C, N) ==
  b \in Builders /\ b.mode \in XmlModes /\ Told("xml", g, b.text, C, N, XmlAt(b))

(* encode() writes what reads as the value, outside a tag and inside one,  *)
(* but for an ampersand.                                                   *)
Lasting(c) == IF c = "ampersand" THEN "apostrophe" ELSE c
FromXml(v) == [k \in DOMAIN v |-> Lasting(v[k])]

Harmless(c) ==
  c \in Symbols /\ c \notin Blank /\ c \notin InTag /\ c \notin {"quote", "less", "ampersand"}

LEMMA XmlCharacter ==
  ASSUME NEW c \in Symbols, c \notin Words, c \notin Blank,
         NEW x, x = IF c \in DOMAIN Entities THEN Entities[c] ELSE c
  PROVE  Harmless(x) /\ Meaning(x) = Lasting(c) /\ Lasting(c) \in Symbols
<1>0. /\ DOMAIN Entities = {"ampersand", "less", "greater", "quote"}
      /\ DOMAIN Entity = {"amp", "lt", "gt", "quot", "apos"}
  BY DEF Entities, Entity
<1>1. CASE c \in {"ampersand", "less", "greater", "quote"}
  <2>1. x \in {"apos", "lt", "gt", "quot"} /\ Entity[x] = Lasting(c)
    BY <1>0, <1>1 DEF Entities, Entity, Lasting
  <2>2. Harmless(x)
    BY <2>1 DEF Harmless, Symbols, Literals, Blank, InTag
  <2>3. Meaning(x) = Lasting(c)
    <3> HIDE DEF Entity
    <3> QED BY <1>0, <2>1 DEF Meaning
  <2>4. Lasting(c) \in Symbols
    BY DEF Lasting, Symbols, Literals
  <2> QED BY <2>2, <2>3, <2>4
<1>2. CASE c \notin {"ampersand", "less", "greater", "quote"}
  <2>1. x = c /\ Lasting(c) = c
    BY <1>0, <1>2 DEF Lasting
  <2>2. c \notin {"amp", "lt", "gt", "quot", "apos"} /\ c # "declaration"
    BY DEF Words
  <2>3. Harmless(c)
    BY <1>2, <2>2 DEF Harmless, InTag
  <2>4. Meaning(c) = c
    BY <1>0, <2>2 DEF Meaning
  <2> QED BY <2>1, <2>3, <2>4
<1> QED BY <1>1, <1>2

(* A value that may be written in XML.                                     *)
XmlValue(v) ==
  v \in Seq(Symbols) /\ \A n \in 1 .. Len(v) : v[n] \notin Words /\ v[n] \notin Blank

LEMMA XmlEncodeIs ==
  ASSUME NEW v, XmlValue(v)
  PROVE  /\ XmlEncode(v) \in Seq(Symbols) /\ FromXml(v) \in Seq(Symbols)
         /\ Len(XmlEncode(v)) = Len(FromXml(v)) /\ Len(FromXml(v)) = Len(v)
         /\ \A n \in 1 .. Len(v) : /\ Harmless(XmlEncode(v)[n])
                                  /\ Meaning(XmlEncode(v)[n]) = FromXml(v)[n]
                                  /\ FromXml(v)[n] = Lasting(v[n])
<1>1. /\ Len(v) \in Nat /\ DOMAIN v = 1 .. Len(v)
      /\ \A n \in 1 .. Len(v) : v[n] \in Symbols /\ v[n] \notin Words /\ v[n] \notin Blank
  BY LenProperties DEF XmlValue
<1> DEFINE u == XmlEncode(v)
           w == FromXml(v)
<1>2. /\ u = [n \in 1 .. Len(v) |-> u[n]]
      /\ \A n \in 1 .. Len(v) : u[n] = IF v[n] \in DOMAIN Entities THEN Entities[v[n]] ELSE v[n]
  <2> HIDE DEF Entities
  <2> QED BY <1>1 DEF XmlEncode
<1>3. w = [n \in 1 .. Len(v) |-> w[n]] /\ \A n \in 1 .. Len(v) : w[n] = Lasting(v[n])
  BY <1>1 DEF FromXml
<1> HIDE DEF u, w
<1>4. ASSUME NEW n \in 1 .. Len(v)
      PROVE  Harmless(u[n]) /\ Meaning(u[n]) = Lasting(v[n]) /\ Lasting(v[n]) \in Symbols
  <2> DEFINE c == v[n]
             x == u[n]
  <2>1. /\ c \in Symbols /\ c \notin Words /\ c \notin Blank
        /\ x = IF c \in DOMAIN Entities THEN Entities[c] ELSE c
    BY <1>1, <1>2
  <2> HIDE DEF c, x
  <2>2. Harmless(x) /\ Meaning(x) = Lasting(c) /\ Lasting(c) \in Symbols
    BY ONLY <2>1, XmlCharacter
  <2> QED BY <2>2 DEF c, x
<1>5. u \in [1 .. Len(v) -> Symbols] /\ w \in [1 .. Len(v) -> Symbols]
  BY <1>2, <1>3, <1>4 DEF Harmless
<1>6. u \in Seq(Symbols) /\ Len(u) = Len(v)
  BY ONLY <1>1, <1>5, LengthIs
<1>7. w \in Seq(Symbols) /\ Len(w) = Len(v)
  BY ONLY <1>1, <1>5, LengthIs
<1> QED BY <1>3, <1>4, <1>6, <1>7 DEF u, w

LEMMA ToldXmlEncode ==
  ASSUME NEW g, NEW t, NEW C, NEW N, NEW A, Told("xml", g, t, C, N, A), NEW v, XmlValue(v),
         A = "attribute_text" \/ (A = "value" /\ N # <<>>)
  PROVE  /\ XmlEncode(v) \in Seq(Symbols) /\ FromXml(v) \in Seq(Symbols)
         /\ C \o FromXml(v) \in Seq(Symbols)
         /\ Told("xml", g, t \o XmlEncode(v), C \o FromXml(v), N, A)
<1> DEFINE u == XmlEncode(v)
           w == FromXml(v)
<1>1. /\ u \in Seq(Symbols) /\ w \in Seq(Symbols) /\ Len(u) = Len(w) /\ Len(w) = Len(v)
      /\ \A n \in 1 .. Len(w) : Harmless(u[n]) /\ Meaning(u[n]) = w[n]
  BY XmlEncodeIs
<1> HIDE DEF u, w
<1>2. ASSUME NEW n \in 1 .. Len(w), NEW D \in Seq(Symbols)
      PROVE  Read("xml", R(D, N, A), u[n]) = R(D \o <<w[n]>>, N, A)
  <2> DEFINE c == u[n]
  <2>1. /\ c \notin Blank /\ c \notin InTag /\ c \notin {"quote", "less", "ampersand"}
        /\ Meaning(c) = w[n] /\ IsText(D)
    BY <1>1 DEF Harmless, IsText
  <2> HIDE DEF c
  <2>3. CASE A = "attribute_text"
    <3>1. Read("xml", R(D, N, "attribute_text"), c) = R(D \o <<Meaning(c)>>, N, "attribute_text")
      BY ONLY <2>1, AtAttribute
    <3> QED BY <2>1, <2>3, <3>1 DEF c
  <2>4. CASE A = "value" /\ N # <<>>
    <3>1. Read("xml", R(D, N, "value"), c) = R(D \o <<Meaning(c)>>, N, "value")
      BY ONLY <2>1, <2>4, AtOutside
    <3> QED BY <2>1, <2>4, <3>1 DEF c
  <2> QED BY <2>3, <2>4
<1>3. At("xml", g \o t, C, N, A)
  BY DEF Told
<1>4. At("xml", (g \o t) \o u, C \o w, N, A)
  BY <1>1, <1>2, <1>3, AtMapped
<1>5. Told("xml", g, t \o u, C \o w, N, A)
  BY <1>1, <1>4, ToldMore
<1>6. C \o w \in Seq(Symbols)
  BY <1>5, ToldText
<1> QED BY <1>1, <1>5, <1>6 DEF u, w

(* normalize_mode(): what follows is outside a tag.                        *)
LEMMA XmlNormalized ==
  ASSUME NEW g, NEW b, NEW C, NEW N, XmlRead(g, b, C, N)
  PROVE  /\ XmlNormalize(b) \in Builders /\ XmlNormalize(b).mode = "NORMAL"
         /\ XmlNormalize(b).stack = b.stack
         /\ Told("xml", g, XmlNormalize(b).text, C, N, "value")
<1> DEFINE s == <<"nl">> \o [k \in DOMAIN b.stack |-> "space"]
           n == XmlNormalize(b)
<1>1. b \in Builders /\ b.mode \in XmlModes /\ Told("xml", g, b.text, C, N, XmlAt(b))
      /\ "NORMAL" \in Modes
  BY ModesHere DEF XmlRead
<1>2. CASE b.mode = "NEED_INDENT"
  <2>1. n = Write(b, s, "NORMAL")
    BY <1>2 DEF XmlNormalize
  <2>2. s \in Seq(Blank)
    <3>1. b.stack \in Seq(Symbols)
      BY <1>1 DEF Builders
    <3>2. DOMAIN b.stack = 1 .. Len(b.stack) /\ Len(b.stack) \in Nat
      BY <3>1, LenProperties
    <3>3. s = <<"nl">> \o Spaces(Len(b.stack))
      BY <3>2 DEF Spaces
    <3> QED BY <3>2, <3>3, SpacesBlank
  <2>3. s \in Seq(Symbols)
    BY <2>2, BlankSymbols
  <2>4. Told("xml", g, b.text, C, N, "value")
    BY <1>1, <1>2 DEF XmlAt
  <2> HIDE DEF s, n
  <2>5. n \in Builders /\ n.text = b.text \o s /\ n.stack = b.stack /\ n.mode = "NORMAL"
    BY ONLY <1>1, <2>1, <2>3, WriteIs
  <2>6. Told("xml", g, b.text \o s, C, N, "value")
    BY <2>2, <2>4, XmlBlanks
  <2> QED BY <2>5, <2>6 DEF n
<1>3. CASE b.mode = "IN_ELEMENT"
  <2>1. n = Write(b, <<"greater">>, "NORMAL")
    BY <1>3 DEF XmlNormalize
  <2>2. "greater" \in Symbols /\ <<"greater">> \in Seq(Symbols)
    BY SymbolsHere
  <2>3. Told("xml", g, b.text, C, N, "tag") /\ C \in Seq(Symbols) /\ IsText(C)
    BY <1>1, <1>3, ToldText DEF XmlAt
  <2> HIDE DEF n
  <2>4. n \in Builders /\ n.text = b.text \o <<"greater">> /\ n.stack = b.stack /\ n.mode = "NORMAL"
    BY ONLY <1>1, <2>1, <2>2, WriteIs
  <2>5. Read("xml", R(C, N, "tag"), "greater") = R(C, N, "value")
    BY <2>3, AtTag
  <2>6. Told("xml", g, b.text \o <<"greater">>, C, N, "value")
    BY <2>2, <2>3, <2>5, ToldOne
  <2> QED BY <2>4, <2>6 DEF n
<1>4. CASE b.mode = "NORMAL"
  <2>1. n = b
    BY <1>4 DEF XmlNormalize
  <2>2. XmlAt(b) = "value"
    BY <1>4 DEF XmlAt
  <2> HIDE DEF n
  <2> QED BY <1>1, <1>4, <2>1, <2>2 DEF n
<1> QED BY <1>1, <1>2, <1>3, <1>4 DEF XmlModes

Names == {"e", "f"}

(* The text of an xml_builder after what has been discarded, and where its *)
(* mode and its stack stand in it.                                         *)
Xml(g, b, C, N, keyed, string) ==
  /\ XmlRead(g, b, C, N) /\ N \in Seq(Names) /\ b.stack = N
  /\ keyed \in BOOLEAN /\ (keyed <=> b.mode = "IN_ELEMENT") /\ (keyed => N # <<>>)
  /\ string = FALSE
  /\ C = <<>> => b.mode = "NORMAL" /\ N = <<>>

LEMMA XmlParts ==
  ASSUME NEW g, NEW b, NEW C, NEW N, XmlRead(g, b, C, N)
  PROVE  /\ b \in Builders /\ C \in Seq(Symbols) /\ IsText(C) /\ b.stack \in Seq(Symbols)
         /\ b.mode \in XmlModes /\ Told("xml", g, b.text, C, N, XmlAt(b))
<1>1. b \in Builders /\ b.mode \in XmlModes /\ Told("xml", g, b.text, C, N, XmlAt(b))
  BY DEF XmlRead
<1>2. C \in Seq(Symbols) /\ IsText(C)
  BY <1>1, ToldText
<1> QED BY <1>1, <1>2 DEF Builders

LEMMA XmlDeclares ==
  ASSUME NEW g, NEW b, NEW N, NEW keyed, NEW string, Xml(g, b, <<>>, N, keyed, string)
  PROVE  Xml(g, XmlDeclaration(b), <<>>, N, keyed, string)
<1> DEFINE q == Write(b, <<"declaration">>, b.mode)
           t == b.text \o <<"declaration">>
           C == <<>>
<1>1. /\ b \in Builders /\ C \in Seq(Symbols) /\ IsText(C) /\ b.mode = "NORMAL"
      /\ Told("xml", g, b.text, C, N, "value") /\ Xml(g, b, C, N, keyed, string)
  BY XmlParts DEF Xml, XmlAt
<1>2. "declaration" \in Symbols /\ <<"declaration">> \in Seq(Symbols) /\ b.mode \in Modes
  BY <1>1, SymbolsHere, ModesHere
<1>3. C = <<>>
  OBVIOUS
<1> HIDE DEF C
<1>4. Read("xml", R(C, N, "value"), "declaration") = R(C, N, "value")
  BY <1>1, <1>3, AtOutside
<1>5. Told("xml", g, t, C, N, "value")
  BY <1>1, <1>2, <1>4, ToldOne
<1>6. q \in Builders /\ q.text = t /\ q.stack = b.stack /\ q.mode = b.mode
  BY ONLY <1>1, <1>2, WriteIs
<1> HIDE DEF q, t
<1>7. XmlRead(g, q, C, N)
  BY <1>1, <1>5, <1>6 DEF XmlRead, XmlModes, XmlAt
<1>8. Xml(g, q, C, N, keyed, string)
  BY <1>1, <1>6, <1>7 DEF Xml
<1> QED BY <1>3, <1>8 DEF XmlDeclaration, q

(* element()                                                               *)
LEMMA XmlOpens ==
  ASSUME NEW g, NEW b, NEW C, NEW N, NEW keyed, NEW string, Xml(g, b, C, N, keyed, string),
         NEW name \in Names
  PROVE  Xml(g, XmlElement(b, name), C \o <<"element", name>>, Append(N, name), TRUE, FALSE)
<1> DEFINE n == XmlNormalize(b)
           w == Write(n, <<"less", name>>, "IN_ELEMENT")
           M == Append(N, name)
           D == C \o <<"element", name>>
           s == Append(w.stack, name)
           q == [w EXCEPT !.stack = s]
           t == (n.text \o <<"less">>) \o <<name>>
<1>1. XmlRead(g, b, C, N) /\ N \in Seq(Names) /\ b.stack = N /\ C \in Seq(Symbols) /\ IsText(C)
      /\ b.stack \in Seq(Symbols)
  BY XmlParts DEF Xml
<1>2. n \in Builders /\ n.stack = N /\ Told("xml", g, n.text, C, N, "value")
  BY <1>1, XmlNormalized
<1>3. XmlElement(b, name) = q
  BY DEF XmlElement
<1> HIDE DEF n
<1>4. "less" \in Symbols /\ name \in Symbols /\ name # "slash"
  BY SymbolsHere DEF Names
<1>5. <<"less", name>> \in Seq(Symbols) /\ <<"less", name>> # <<>> /\ t = n.text \o <<"less", name>>
  <2>1. n.text \in Seq(Symbols)
    BY <1>2, ToldText
  <2> QED BY <1>4, <2>1, Pair, TwoMore
<1>6. D \in Seq(Symbols) /\ D # <<>>
  <2>1. "element" \in Symbols
    BY SymbolsHere
  <2>2. <<"element", name>> \in Seq(Symbols) /\ <<"element", name>> # <<>>
    BY <1>4, <2>1, Pair
  <2> QED BY <1>1, <2>2, Longer, NotEmpty
<1>7. Told("xml", g, n.text \o <<"less">>, C, N, "name")
  <2>1. Read("xml", R(C, N, "value"), "less") = R(C, N, "name")
    BY <1>1, AtOutside
  <2> QED BY <1>1, <1>2, <1>4, <2>1, ToldOne
<1>8. Read("xml", R(C, N, "name"), name) = R(D, M, "tag")
  BY <1>1, <1>4, AtTag
<1> HIDE DEF D
<1>9. M \in Seq(Names) /\ M # <<>> /\ s = M /\ s \in Seq(Symbols)
  <2>1. "IN_ELEMENT" \in Modes
    BY ModesHere
  <2>2. w.stack = N
    BY ONLY <1>2, <1>5, <2>1, WriteIs
  <2> HIDE DEF w
  <2>3. Append(N, name) \in Seq(Symbols)
    BY <1>1, <1>4
  <2> QED BY <1>1, <2>2, <2>3, AppendLast
<1> HIDE DEF M
<1>10. Told("xml", g, t, D, M, "tag")
  <2> DEFINE u == n.text \o <<"less">>
  <2>1. Told("xml", g, u, C, N, "name")
    BY <1>7
  <2> HIDE DEF u
  <2>2. Told("xml", g, u \o <<name>>, D, M, "tag")
    BY <1>4, <1>6, <1>8, <2>1, ToldOne
  <2> QED BY <2>2 DEF u
<1>11. w \in Builders /\ w.text = t /\ w.mode = "IN_ELEMENT"
  <2>1. "IN_ELEMENT" \in Modes
    BY ModesHere
  <2>2. w \in Builders /\ w.text = n.text \o <<"less", name>> /\ w.mode = "IN_ELEMENT"
    BY ONLY <1>2, <1>5, <2>1, WriteIs
  <2> HIDE DEF w, t
  <2> QED BY <1>5, <2>2
<1> HIDE DEF w, s, t
<1>12. q \in Builders /\ q.stack = M /\ q.text = t /\ q.mode = "IN_ELEMENT"
  BY <1>9, <1>11, StackIs
<1> HIDE DEF q
<1>13. XmlRead(g, q, D, M)
  BY <1>10, <1>12 DEF XmlRead, XmlModes, XmlAt
<1>14. Xml(g, q, D, M, TRUE, FALSE)
  BY <1>6, <1>9, <1>12, <1>13 DEF Xml
<1> QED BY <1>3, <1>14 DEF D, M

(* text()                                                                  *)
LEMMA XmlTexts ==
  ASSUME NEW g, NEW b, NEW C, NEW N, NEW keyed, NEW string, Xml(g, b, C, N, keyed, string),
         N # <<>>, C # <<>>, NEW v, XmlValue(v)
  PROVE  Xml(g, XmlText(b, v), C \o FromXml(v), N, FALSE, FALSE)
<1> DEFINE n == XmlNormalize(b)
           u == XmlEncode(v)
           w == FromXml(v)
           q == Write(n, u, n.mode)
           D == C \o w
<1>1. XmlRead(g, b, C, N) /\ N \in Seq(Names) /\ b.stack = N /\ C \in Seq(Symbols)
  BY XmlParts DEF Xml
<1>2. n \in Builders /\ n.stack = N /\ n.mode = "NORMAL" /\ Told("xml", g, n.text, C, N, "value")
  BY <1>1, XmlNormalized
<1>3. XmlText(b, v) = q
  BY DEF XmlText
<1> HIDE DEF n
<1>4. /\ u \in Seq(Symbols) /\ w \in Seq(Symbols) /\ D \in Seq(Symbols)
      /\ Told("xml", g, n.text \o u, D, N, "value")
  <2> DEFINE t == n.text
  <2>1. Told("xml", g, t, C, N, "value")
    BY <1>2
  <2> HIDE DEF t
  <2>2. /\ u \in Seq(Symbols) /\ w \in Seq(Symbols) /\ D \in Seq(Symbols)
        /\ Told("xml", g, t \o u, D, N, "value")
    BY ONLY <2>1, XmlValue(v), N # <<>>, ToldXmlEncode
  <2> QED BY <2>2 DEF t
<1> HIDE DEF w
<1>5. D # <<>>
  BY <1>1, <1>4, ConcatEqualIffEmpty
<1> HIDE DEF u, D
<1>6. q \in Builders /\ q.text = n.text \o u /\ q.stack = N /\ q.mode = "NORMAL"
  <2>1. n.mode \in Modes
    BY <1>2 DEF Builders
  <2> QED BY ONLY <1>2, <1>4, <2>1, WriteIs
<1> HIDE DEF q
<1>7. XmlRead(g, q, D, N)
  BY <1>4, <1>6 DEF XmlRead, XmlModes, XmlAt
<1>8. Xml(g, q, D, N, FALSE, FALSE)
  BY <1>1, <1>5, <1>6, <1>7 DEF Xml
<1> QED BY <1>3, <1>8 DEF D, w

LEMMA AttributeHead ==
  ASSUME NEW t \in Seq(Symbols)
  PROVE  (((t \o <<"space">>) \o <<"a">>) \o <<"equals">>) \o <<"quote">>
           = t \o <<"space", "a", "equals", "quote">>
<1> DEFINE x == "space"
           y == "a"
           z == "equals"
           w == "quote"
<1>1. x \in Symbols /\ y \in Symbols /\ z \in Symbols /\ w \in Symbols
  BY SymbolsHere
<1> HIDE DEF x, y, z, w
<1>2. (t \o <<x>>) \o <<y>> = t \o <<x, y>> /\ <<x, y>> \in Seq(Symbols)
      /\ <<z, w>> \in Seq(Symbols)
  BY <1>1, TwoMore, Pair
<1> DEFINE u == t \o <<x, y>>
<1>3. u \in Seq(Symbols)
  BY <1>2, Longer
<1> HIDE DEF u
<1>4. (u \o <<z>>) \o <<w>> = u \o <<z, w>>
  BY <1>1, <1>3, TwoMore
<1>5. (t \o <<x, y>>) \o <<z, w>> = t \o (<<x, y>> \o <<z, w>>)
  BY <1>2, Joined
<1>6. <<x, y>> \o <<z, w>> = <<x, y, z, w>>
  BY <1>1, Four
<1>7. (((t \o <<x>>) \o <<y>>) \o <<z>>) \o <<w>> = t \o <<x, y, z, w>>
  BY <1>2, <1>4, <1>5, <1>6 DEF u
<1> QED BY <1>7 DEF x, y, z, w

(* attribute()                                                             *)
LEMMA XmlAttributes ==
  ASSUME NEW g, NEW b, NEW C, NEW N, NEW string, Xml(g, b, C, N, TRUE, string), C # <<>>,
         NEW v, XmlValue(v)
  PROVE  Xml(g, XmlAttribute(b, "a", v),
             C \o (<<"attribute", "a">> \o FromXml(v) \o <<"attribute_end">>), N, TRUE, FALSE)
<1> DEFINE e == XmlEncode(v)
           h == <<"space", "a", "equals", "quote">>
           x == h \o e \o <<"quote">>
           q == Write(b, x, b.mode)
           D1 == C \o <<"attribute">>
           D2 == D1 \o <<"a">>
           w == FromXml(v)
           D3 == D2 \o w
           D == D3 \o <<"attribute_end">>
           t1 == b.text \o <<"space">>
           t2 == t1 \o <<"a">>
           t3 == t2 \o <<"equals">>
           t4 == t3 \o <<"quote">>
           t5 == t4 \o e
           t6 == t5 \o <<"quote">>
<1>1. /\ XmlRead(g, b, C, N) /\ N \in Seq(Names) /\ b.stack = N /\ C \in Seq(Symbols) /\ IsText(C)
      /\ b.mode = "IN_ELEMENT" /\ b \in Builders /\ Told("xml", g, b.text, C, N, "tag") /\ N # <<>>
  <2>1. b.mode = "IN_ELEMENT" /\ XmlRead(g, b, C, N) /\ N \in Seq(Names) /\ b.stack = N /\ N # <<>>
    BY DEF Xml
  <2> QED BY <2>1, XmlParts DEF XmlAt
<1>2. XmlAttribute(b, "a", v) = q
  BY <1>1 DEF XmlAttribute
<1>3. /\ "space" \in Symbols /\ "a" \in Symbols /\ "equals" \in Symbols /\ "quote" \in Symbols
      /\ "attribute" \in Symbols /\ <<"quote">> \in Seq(Symbols) /\ <<"attribute">> \in Seq(Symbols)
      /\ <<"a">> \in Seq(Symbols)
  BY SymbolsHere
<1>4. D1 \in Seq(Symbols) /\ IsText(D1) /\ D2 \in Seq(Symbols) /\ IsText(D2)
  BY <1>1, <1>3, Longer DEF IsText
<1>5. /\ Read("xml", R(C, N, "tag"), "space") = R(D1, N, "attribute")
  BY <1>1, AtAttribute
<1> HIDE DEF D1
<1>6. Read("xml", R(D1, N, "attribute"), "a") = R(D2, N, "equals")
  BY <1>4, AtAttribute
<1>7. D2 = C \o <<"attribute", "a">>
  BY <1>1, <1>3, TwoMore DEF D1
<1> HIDE DEF D2
<1>8. /\ Read("xml", R(D2, N, "equals"), "equals") = R(D2, N, "quote")
      /\ Read("xml", R(D2, N, "quote"), "quote") = R(D2, N, "attribute_text")
  BY <1>4, AtAttribute
<1>9. Told("xml", g, t1, D1, N, "attribute")
  BY <1>1, <1>3, <1>4, <1>5, ToldOne
<1>10. Told("xml", g, t2, D2, N, "equals")
  <2> HIDE DEF t1
  <2> QED BY <1>3, <1>4, <1>6, <1>9, ToldOne
<1>11. Told("xml", g, t3, D2, N, "quote")
  <2> HIDE DEF t2
  <2> QED BY <1>3, <1>4, <1>8, <1>10, ToldOne
<1>12. Told("xml", g, t4, D2, N, "attribute_text")
  <2> HIDE DEF t3
  <2> QED BY <1>3, <1>4, <1>8, <1>11, ToldOne
<1>13. /\ e \in Seq(Symbols) /\ w \in Seq(Symbols) /\ D3 \in Seq(Symbols)
       /\ Told("xml", g, t5, D3, N, "attribute_text")
  <2> HIDE DEF t4
  <2> QED BY ONLY <1>12, XmlValue(v), ToldXmlEncode
<1> HIDE DEF w
<1>14. IsText(D3) /\ D \in Seq(Symbols) /\ <<"attribute_end">> \in Seq(Symbols)
  <2>1. "attribute_end" \in Symbols
    BY DEF Symbols, Literals
  <2>2. <<"attribute_end">> \in Seq(Symbols)
    BY <2>1
  <2> HIDE DEF D3
  <2> QED BY <1>13, <2>2, Longer DEF IsText
<1>15. D = C \o (<<"attribute", "a">> \o w \o <<"attribute_end">>) /\ D # <<>>
  <2>1. <<"attribute", "a">> \in Seq(Symbols)
    BY <1>3, Pair
  <2>2. (C \o <<"attribute", "a">>) \o w = C \o (<<"attribute", "a">> \o w)
    BY <1>1, <1>13, <2>1, Joined
  <2>3. <<"attribute", "a">> \o w \in Seq(Symbols)
    BY <1>13, <2>1, Longer
  <2> DEFINE z == <<"attribute", "a">> \o w
             c == <<"attribute_end">>
             y == z \o c
  <2>4. y \in Seq(Symbols) /\ D = C \o y
    <3>1. z \in Seq(Symbols) /\ D3 = C \o z /\ c \in Seq(Symbols)
      BY <1>7, <1>14, <2>2, <2>3
    <3> HIDE DEF z, c, D3
    <3>2. z \o c \in Seq(Symbols) /\ (C \o z) \o c = C \o (z \o c)
      BY <1>1, <3>1, Longer, Joined
    <3>3. D = D3 \o c
      BY DEF c
    <3> QED BY <3>1, <3>2, <3>3
  <2> HIDE DEF y, D
  <2>5. C \o y # <<>>
    BY <1>1, <2>4, ConcatEqualIffEmpty
  <2> QED BY <2>4, <2>5 DEF y
<1>16. Told("xml", g, t6, D, N, "tag")
  <2>1. Read("xml", R(D3, N, "attribute_text"), "quote") = R(D, N, "tag")
    BY <1>14, AtAttribute
  <2> HIDE DEF t5, D3, D
  <2> QED BY <1>3, <1>13, <1>14, <2>1, ToldOne
<1> HIDE DEF D3, D
<1>17. x \in Seq(Symbols) /\ b.text \o x = t6
  <2> DEFINE s == b.text
             y == h \o e
  <2>1. s \in Seq(Symbols) /\ e \in Seq(Symbols)
    BY <1>1, <1>13, ToldText
  <2> HIDE DEF e
  <2>2. h \in Seq(Symbols)
    BY <1>3, Four
  <2>3. t4 = s \o h
    <3>1. s \in Seq(Symbols)
      BY <2>1
    <3> HIDE DEF s
    <3>2. (((s \o <<"space">>) \o <<"a">>) \o <<"equals">>) \o <<"quote">>
             = s \o <<"space", "a", "equals", "quote">>
      BY ONLY <3>1, AttributeHead
    <3> QED BY <3>2 DEF s
  <2> HIDE DEF s, h, t4
  <2>4. y \in Seq(Symbols) /\ (s \o h) \o e = s \o y
    BY <2>1, <2>2, Longer, Joined
  <2> HIDE DEF y
  <2>5. y \o <<"quote">> \in Seq(Symbols) /\ (s \o y) \o <<"quote">> = s \o (y \o <<"quote">>)
    BY <1>3, <2>1, <2>4, Longer, Joined
  <2> QED BY <2>3, <2>4, <2>5 DEF y, s
<1> HIDE DEF x, t6
<1>18. q \in Builders /\ q.text = t6 /\ q.stack = N /\ q.mode = "IN_ELEMENT"
  <2>1. b.mode \in Modes
    BY <1>1 DEF Builders
  <2>2. q \in Builders /\ q.text = b.text \o x /\ q.stack = b.stack /\ q.mode = b.mode
    BY ONLY <1>1, <1>17, <2>1, WriteIs
  <2> HIDE DEF q
  <2> QED BY <1>1, <1>17, <2>2
<1> HIDE DEF q
<1>19. XmlRead(g, q, D, N)
  BY <1>16, <1>18 DEF XmlRead, XmlModes, XmlAt
<1>20. Xml(g, q, D, N, TRUE, FALSE)
  BY <1>1, <1>15, <1>18, <1>19 DEF Xml
<1> QED BY <1>2, <1>15, <1>20 DEF w

(* indent()                                                                *)
LEMMA XmlIndents ==
  ASSUME NEW g, NEW b, NEW C, NEW N, NEW keyed, NEW string, Xml(g, b, C, N, keyed, string), C # <<>>
  PROVE  Xml(g, XmlIndent(b), C, N, FALSE, FALSE)
<1> DEFINE n == XmlNormalize(b)
           m == IF b.mode = "IN_ELEMENT" THEN n ELSE b
           q == [m EXCEPT !.mode = "NEED_INDENT"]
<1>1. XmlRead(g, b, C, N) /\ N \in Seq(Names) /\ b.stack = N
  BY DEF Xml
<1>2. XmlIndent(b) = q
  BY DEF XmlIndent
<1>3. m \in Builders /\ m.stack = N /\ Told("xml", g, m.text, C, N, "value")
  <2>1. n \in Builders /\ n.stack = N /\ Told("xml", g, n.text, C, N, "value")
    BY <1>1, XmlNormalized
  <2> HIDE DEF n
  <2>2. b \in Builders /\ Told("xml", g, b.text, C, N, XmlAt(b))
    BY <1>1, XmlParts
  <2>3. CASE b.mode = "IN_ELEMENT"
    BY <2>1, <2>3
  <2>4. CASE b.mode # "IN_ELEMENT"
    <3>1. XmlAt(b) = "value"
      BY <2>4 DEF XmlAt
    <3> QED BY <1>1, <2>2, <2>4, <3>1
  <2> QED BY <2>3, <2>4
<1> HIDE DEF m
<1>4. q \in Builders /\ q.text = m.text /\ q.stack = N /\ q.mode = "NEED_INDENT"
  <2>1. "NEED_INDENT" \in Modes
    BY ModesHere
  <2> QED BY <1>3, <2>1, ModeIs
<1> HIDE DEF q
<1>5. XmlRead(g, q, C, N)
  BY <1>3, <1>4 DEF XmlRead, XmlModes, XmlAt
<1>6. Xml(g, q, C, N, FALSE, FALSE)
  BY <1>1, <1>4, <1>5 DEF Xml
<1> QED BY <1>2, <1>6

(* close()                                                                 *)
ClosedTag(n, name) ==
  IF n.mode = "IN_ELEMENT" THEN Write(n, <<"slash", "greater">>, "NORMAL")
  ELSE Write(n, <<"less", "slash", name, "greater">>, n.mode)

Ended(C) == C \o <<"end">>

IsClosed(g, n, q, D, M) ==
  /\ q \in Builders /\ q.stack = n.stack /\ q.mode = "NORMAL"
  /\ D \in Seq(Symbols) /\ D # <<>> /\ Told("xml", g, q.text, D, M, "value")

LEMMA XmlClosedTag ==
  ASSUME NEW g, NEW n, NEW C, NEW N, NEW name, n \in Builders, N # <<>>, name = Last(N),
         name \in Symbols, Told("xml", g, n.text, C, N, XmlAt(n)), n.mode \in XmlModes,
         n.mode # "NEED_INDENT"
  PROVE  IsClosed(g, n, ClosedTag(n, name), Ended(C), Front(N))
<1> DEFINE D == Ended(C)
           M == Front(N)
<1>1. /\ "slash" \in Symbols /\ "greater" \in Symbols /\ "less" \in Symbols
      /\ <<"end">> \in Seq(Symbols) /\ <<"end">> # <<>>
  <2>1. "end" \in Symbols
    BY DEF Symbols, Literals
  <2> QED BY <2>1, SymbolsHere
<1>2. C \in Seq(Symbols) /\ IsText(C) /\ n.text \in Seq(Symbols) /\ "NORMAL" \in Modes
  BY ToldText, ModesHere
<1>3. D \in Seq(Symbols) /\ D # <<>>
  BY <1>1, <1>2, Longer, NotEmpty DEF Ended
<1>4. Read("xml", R(C, N, "end_tag"), "greater") = R(D, M, "value")
  BY <1>2, AtTag DEF Ended
<1> HIDE DEF D, M
<1>5. CASE n.mode = "IN_ELEMENT"
  <2> DEFINE x == <<"slash", "greater">>
             q == Write(n, x, "NORMAL")
             u == n.text \o <<"slash">>
  <2>1. Told("xml", g, n.text, C, N, "tag")
    BY <1>5 DEF XmlAt
  <2>2. Read("xml", R(C, N, "tag"), "slash") = R(C, N, "end_tag")
    BY <1>2, AtTag
  <2>3. Told("xml", g, u, C, N, "end_tag")
    BY <1>1, <1>2, <2>1, <2>2, ToldOne
  <2>4. x \in Seq(Symbols) /\ u \o <<"greater">> = n.text \o x
    BY <1>1, <1>2, Pair, TwoMore
  <2> HIDE DEF u, x
  <2>5. Told("xml", g, u \o <<"greater">>, D, M, "value")
    BY <1>1, <1>3, <1>4, <2>3, ToldOne
  <2>6. q \in Builders /\ q.text = n.text \o x /\ q.stack = n.stack /\ q.mode = "NORMAL"
    BY ONLY <1>2, <2>4, n \in Builders, WriteIs
  <2> HIDE DEF q
  <2>7. ClosedTag(n, name) = q
    BY <1>5 DEF ClosedTag, q, x
  <2>8. IsClosed(g, n, q, D, M)
    BY <1>3, <2>4, <2>5, <2>6 DEF IsClosed
  <2> QED BY <2>7, <2>8 DEF D, M
<1>6. CASE n.mode = "NORMAL"
  <2> DEFINE x == <<"less", "slash", name, "greater">>
             q == Write(n, x, n.mode)
             t == n.text
             u == t \o <<"less", "slash">>
             w == u \o <<name>>
  <2>1. Told("xml", g, t, C, N, "value")
    BY <1>6 DEF XmlAt
  <2>2. /\ Read("xml", R(C, N, "value"), "less") = R(C, N, "name")
        /\ Read("xml", R(C, N, "name"), "slash") = R(C, N, "end_name")
        /\ Read("xml", R(C, N, "end_name"), name) = R(C, N, "end_tag")
    BY <1>2, AtOutside, AtTag
  <2>3. Told("xml", g, t \o <<"less">>, C, N, "name")
    BY <1>1, <1>2, <2>1, <2>2, ToldOne
  <2>4. Told("xml", g, u, C, N, "end_name")
    <3> DEFINE y == t \o <<"less">>
    <3>1. Told("xml", g, y, C, N, "name")
      BY <2>3
    <3> HIDE DEF y
    <3>2. Told("xml", g, y \o <<"slash">>, C, N, "end_name")
      BY <1>1, <1>2, <2>2, <3>1, ToldOne
    <3>3. (t \o <<"less">>) \o <<"slash">> = u
      BY <1>1, <1>2, TwoMore
    <3> QED BY <3>2, <3>3 DEF y
  <2>5. Told("xml", g, w, C, N, "end_tag")
    <3> HIDE DEF u
    <3> QED BY <1>2, <2>2, <2>4, ToldOne
  <2>6. Told("xml", g, w \o <<"greater">>, D, M, "value")
    <3> HIDE DEF w
    <3> QED BY <1>1, <1>3, <1>4, <2>5, ToldOne
  <2>7. x \in Seq(Symbols) /\ w \o <<"greater">> = t \o x
    <3> DEFINE y == <<"less", "slash">>
               z == <<name, "greater">>
    <3>1. y \in Seq(Symbols) /\ z \in Seq(Symbols) /\ x \in Seq(Symbols) /\ y \o z = x
      <4> DEFINE a == "less"
                 c == "slash"
                 d == "greater"
      <4>1. a \in Symbols /\ c \in Symbols /\ d \in Symbols
        BY <1>1
      <4> HIDE DEF a, c, d
      <4>2. <<a, c>> \in Seq(Symbols) /\ <<name, d>> \in Seq(Symbols)
        BY <4>1, Pair
      <4>3. <<a, c, name, d>> \in Seq(Symbols) /\ <<a, c>> \o <<name, d>> = <<a, c, name, d>>
        BY <4>1, Four
      <4> QED BY <4>2, <4>3 DEF a, c, d
    <3>2. (u \o <<name>>) \o <<"greater">> = u \o z
      <4>1. u \in Seq(Symbols)
        BY <2>4, ToldText
      <4> HIDE DEF u
      <4> QED BY <1>1, <4>1, TwoMore
    <3> HIDE DEF y, z, x
    <3>3. (t \o y) \o z = t \o (y \o z)
      BY <1>2, <3>1, Joined
    <3>4. u = t \o y
      BY DEF y
    <3> QED BY <3>1, <3>2, <3>3, <3>4
  <2> HIDE DEF w, x
  <2>8. q \in Builders /\ q.text = t \o x /\ q.stack = n.stack /\ q.mode = "NORMAL"
    <3>1. n.mode \in Modes
      BY <1>2, <1>6
    <3>2. q \in Builders /\ q.text = t \o x /\ q.stack = n.stack /\ q.mode = n.mode
      BY ONLY <2>7, <3>1, n \in Builders, WriteIs
    <3> HIDE DEF q
    <3> QED BY <1>6, <3>2
  <2> HIDE DEF q
  <2>9. ClosedTag(n, name) = q
    BY <1>6 DEF ClosedTag, q, x
  <2>10. IsClosed(g, n, q, D, M)
    BY <1>3, <2>6, <2>7, <2>8 DEF IsClosed
  <2> QED BY <2>9, <2>10 DEF D, M
<1> QED BY <1>5, <1>6 DEF XmlModes

LEMMA XmlCloses ==
  ASSUME NEW g, NEW b, NEW C, NEW N, NEW keyed, NEW string, Xml(g, b, C, N, keyed, string), N # <<>>
  PROVE  Xml(g, XmlClose(b), C \o <<"end">>, Front(N), FALSE, FALSE)
<1> DEFINE s == Front(b.stack)
           name == Last(b.stack)
           p == [b EXCEPT !.stack = s]
           n == IF b.mode = "NEED_INDENT" THEN XmlNormalize(p) ELSE p
           q == ClosedTag(n, name)
           D == Ended(C)
           M == Front(N)
<1>1. /\ XmlRead(g, b, C, N) /\ N \in Seq(Names) /\ b.stack = N /\ b \in Builders
      /\ b.stack # <<>> /\ b.mode \in XmlModes /\ Told("xml", g, b.text, C, N, XmlAt(b))
  BY XmlParts DEF Xml
<1>2. XmlClose(b) = q
  BY <1>1 DEF XmlClose, ClosedTag
<1>3. M \in Seq(Names) /\ s = M /\ s \in Seq(Symbols) /\ name \in Symbols /\ name = Last(N)
  <2>1. M \in Seq(Names) /\ s = M
    BY <1>1, FrontIs
  <2>2. s \in Seq(Symbols) /\ Last(b.stack) \in Symbols
    <3>1. b.stack \in Seq(Symbols)
      BY <1>1 DEF Builders
    <3> DEFINE r == b.stack
    <3>2. r \in Seq(Symbols) /\ r # <<>>
      BY <1>1, <3>1
    <3> HIDE DEF r
    <3>3. Front(r) \in Seq(Symbols) /\ Last(r) \in Symbols
      BY <3>2, FrontIs
    <3> QED BY <3>3 DEF r
  <2> QED BY <1>1, <2>1, <2>2
<1>4. p \in Builders /\ p.stack = s /\ p.text = b.text /\ p.mode = b.mode
  <2> HIDE DEF s
  <2> QED BY <1>1, <1>3, StackIs
<1> HIDE DEF s, p, name
<1>5. XmlAt(p) = XmlAt(b)
  BY <1>4 DEF XmlAt
<1>6. XmlRead(g, p, C, N)
  BY <1>1, <1>4, <1>5 DEF XmlRead
<1>7. /\ n \in Builders /\ n.stack = s /\ n.mode \in XmlModes /\ n.mode # "NEED_INDENT"
      /\ Told("xml", g, n.text, C, N, XmlAt(n))
  <2>1. CASE b.mode = "NEED_INDENT"
    <3> DEFINE x == XmlNormalize(p)
    <3>1. x \in Builders /\ x.stack = p.stack /\ x.mode = "NORMAL"
          /\ Told("xml", g, x.text, C, N, "value")
      BY <1>6, XmlNormalized
    <3>2. n = x
      BY <2>1
    <3> HIDE DEF x, n
    <3>3. XmlAt(n) = "value"
      BY <3>1, <3>2 DEF XmlAt
    <3> QED BY <1>4, <3>1, <3>2, <3>3 DEF XmlModes
  <2>2. CASE b.mode # "NEED_INDENT"
    <3>1. n = p
      BY <2>2
    <3> HIDE DEF n
    <3> QED BY <1>1, <1>4, <1>5, <2>2, <3>1
  <2> QED BY <2>1, <2>2
<1> HIDE DEF n
<1>8. /\ q \in Builders /\ q.stack = n.stack /\ q.mode = "NORMAL"
      /\ D \in Seq(Symbols) /\ D # <<>> /\ Told("xml", g, q.text, D, M, "value")
  <2>1. IsClosed(g, n, q, D, M)
    BY <1>3, <1>7, XmlClosedTag
  <2> HIDE DEF q, D, M
  <2> QED BY <2>1 DEF IsClosed
<1> HIDE DEF q, D, M
<1>9. XmlRead(g, q, D, M)
  BY <1>8 DEF XmlRead, XmlModes, XmlAt
<1>10. Xml(g, q, D, M, FALSE, FALSE)
  BY <1>3, <1>7, <1>8, <1>9 DEF Xml
<1> QED BY <1>2, <1>10 DEF D, M, Ended

XmlEndLine(x) ==
  IF x.text # <<>> /\ Last(x.text) # "nl" THEN Write(x, <<"nl">>, x.mode) ELSE x

LEMMA XmlFinishIs ==
  ASSUME NEW b \in Builders, NEW indent
  PROVE  \E f, last : ClosesTo(f, "xml", b, indent, last) /\ XmlFinish(b, indent) = XmlEndLine(last)
<1> DEFINE m == Len(b.stack)
           Fits(h) == h = [n \in 0 .. m |-> IF n = 0 THEN b
                             ELSE XmlClose(IF indent THEN XmlIndent(h[n - 1]) ELSE h[n - 1])]
           f == CHOOSE h : Fits(h)
<1>1. m \in Nat
  BY LenProperties DEF Builders
<1>2. XmlFinish(b, indent) = XmlEndLine(f[m])
  BY DEF XmlFinish, XmlEndLine
<1>3. \E h : Fits(h)
  <2> DEFINE K == "xml"
  <2>2. \A x : CloseStep(K, indent, x) = XmlClose(IF indent THEN XmlIndent(x) ELSE x)
    BY DEF CloseStep
  <2> HIDE DEF m, K
  <2>1. PICK h : ClosesBy(h, K, b, indent, m)
    BY <1>1, ClosesThere
  <2>3. Fits(h)
    BY <2>1, <2>2 DEF ClosesBy
  <2> QED BY <2>3
<1> HIDE DEF m
<1>4. Fits(f)
  BY <1>3
<1> HIDE DEF f
<1>5. f[0] = b /\ \A n \in 1 .. m : f[n] = CloseStep("xml", indent, f[n - 1])
  <2>1. 0 \in 0 .. m /\ \A n \in 1 .. m : n \in 0 .. m /\ n # 0
    BY <1>1
  <2>2. \A x : CloseStep("xml", indent, x) = XmlClose(IF indent THEN XmlIndent(x) ELSE x)
    BY DEF CloseStep
  <2> QED BY <1>4, <2>1, <2>2
<1>6. ClosesTo(f, "xml", b, indent, f[m])
  BY <1>5 DEF ClosesTo, m
<1> QED BY <1>2, <1>6
Ends(N) == [k \in DOMAIN N |-> "end"]

(* finish()                                                                *)
LEMMA XmlEnds ==
  ASSUME NEW g, NEW b, NEW C, Xml(g, b, C, <<>>, FALSE, FALSE), C # <<>>
  PROVE  Xml(g, XmlEndLine(b), C, <<>>, FALSE, FALSE)
<1> DEFINE q == Write(b, <<"nl">>, b.mode)
           t == b.text \o <<"nl">>
           N == <<>>
<1>1. /\ b \in Builders /\ Told("xml", g, b.text, C, N, "value") /\ b.mode # "IN_ELEMENT"
      /\ b.mode \in XmlModes /\ b.stack = N /\ XmlRead(g, b, C, N) /\ N \in Seq(Names)
      /\ Xml(g, b, C, N, FALSE, FALSE)
  <2>1. b.mode # "IN_ELEMENT" /\ XmlRead(g, b, C, N) /\ b.stack = N /\ N \in Seq(Names)
    BY DEF Xml
  <2> HIDE DEF N
  <2> QED BY <2>1, XmlParts DEF XmlAt, N
<1> HIDE DEF N
<1>2. <<"nl">> \in Seq(Blank) /\ <<"nl">> \in Seq(Symbols) /\ b.mode \in Modes
  BY <1>1, SpacesBlank, SymbolsHere, 0 \in Nat DEF Builders
<1>3. Told("xml", g, t, C, N, "value")
  BY <1>1, <1>2, XmlBlanks
<1>4. q \in Builders /\ q.text = t /\ q.stack = b.stack /\ q.mode = b.mode
  BY ONLY <1>1, <1>2, WriteIs
<1> HIDE DEF q, t
<1>5. XmlRead(g, q, C, N)
  BY <1>1, <1>3, <1>4 DEF XmlRead, XmlAt
<1>6. Xml(g, q, C, N, FALSE, FALSE)
  BY <1>1, <1>4, <1>5 DEF Xml
<1> QED BY <1>1, <1>6 DEF XmlEndLine, q, N

LEMMA EndsIs ==
  ASSUME NEW N \in Seq(Names)
  PROVE  /\ Ends(N) \in Seq(Symbols) /\ Len(Ends(N)) = Len(N)
         /\ \A k \in 1 .. Len(N) : Ends(N)[k] = "end"
<1>1. DOMAIN N = 1 .. Len(N) /\ Len(N) \in Nat
  BY LenProperties
<1>2. Ends(N) \in [1 .. Len(N) -> Symbols]
  BY <1>1 DEF Ends, Symbols, Literals
<1>3. Ends(N) \in Seq(Symbols)
  BY <1>1, <1>2, SeqDef
<1>4. Len(Ends(N)) = Len(N)
  BY <1>1, <1>2, <1>3, LenProperties
<1>5. \A k \in 1 .. Len(N) : Ends(N)[k] = "end"
  BY <1>1 DEF Ends
<1> QED BY <1>3, <1>4, <1>5

LEMMA XmlFinishes ==
  ASSUME NEW g, NEW b, NEW C, NEW N, NEW keyed, NEW string, Xml(g, b, C, N, keyed, string),
         C # <<>>, NEW indent \in BOOLEAN
  PROVE  Xml(g, XmlFinish(b, indent), C \o Reverse(Ends(N)), <<>>, FALSE, FALSE)
<1> DEFINE r == Ends(N)
           v == Reverse(r)
           L == Len(N)
<1>1. /\ b \in Builders /\ C \in Seq(Symbols) /\ N \in Seq(Names) /\ b.stack = N
      /\ L \in Nat /\ r \in Seq(Symbols) /\ Len(r) = L /\ \A k \in 1 .. L : r[k] = "end"
  BY XmlParts, EndsIs, LenProperties DEF Xml
<1> HIDE DEF r
<1>2. v \in Seq(Symbols) /\ Len(v) = L /\ \A k \in 1 .. L : v[k] = r[(L - k) + 1]
  BY <1>1, ReverseIs
<1> HIDE DEF v
<1>3. PICK f : /\ f[0] = b /\ XmlFinish(b, indent) = XmlEndLine(f[L])
               /\ \A n \in 1 .. L : f[n] = CloseStep("xml", indent, f[n - 1])
  <2>1. PICK f, last : /\ ClosesTo(f, "xml", b, indent, last)
                       /\ XmlFinish(b, indent) = XmlEndLine(last)
    BY <1>1, XmlFinishIs
  <2>2. Len(b.stack) = L
    BY <1>1
  <2>3. /\ f[0] = b /\ f[Len(b.stack)] = last
        /\ \A n \in 1 .. Len(b.stack) : f[n] = CloseStep("xml", indent, f[n - 1])
    BY <2>1 DEF ClosesTo
  <2> HIDE DEF L
  <2> QED BY <2>1, <2>2, <2>3
<1> DEFINE Holds(n) == \E k, s : Xml(g, f[n], C \o SubSeq(v, 1, n), SubSeq(N, 1, L - n), k, s)
           G == {n \in Nat : n <= L => Holds(n)}
<1> HIDE DEF Holds
<1>4. 0 \in G
  <2>1. SubSeq(v, 1, 0) = <<>> /\ C \o <<>> = C /\ SubSeq(N, 1, L) = N /\ L - 0 = L
    BY <1>1, FirstNone, ConcatEmptySeq, SubSeqFull
  <2>2. Xml(g, f[0], C \o SubSeq(v, 1, 0), SubSeq(N, 1, L - 0), keyed, string)
    BY <1>3, <2>1
  <2> QED BY <2>2 DEF Holds
<1>5. ASSUME NEW n \in Nat, n \in G PROVE n + 1 \in G
  <2>1. SUFFICES ASSUME n + 1 <= L PROVE Holds(n + 1)
    OBVIOUS
  <2> DEFINE m == L - (n + 1)
             M == SubSeq(N, 1, m + 1)
             D == C \o SubSeq(v, 1, n)
             x == f[n]
             y == IF indent THEN XmlIndent(x) ELSE x
  <2>2. /\ m \in Nat /\ m < L /\ m + 1 = L - n /\ n < Len(v) /\ n + 1 \in 1 .. L /\ (n + 1) - 1 = n
        /\ (L - (n + 1)) + 1 = m + 1 /\ m + 1 \in 1 .. L
    BY <1>1, <1>2, <2>1
  <2>3. PICK k, s : Xml(g, x, D, M, k, s)
    <3>1. Holds(n)
      BY <1>1, <1>5, <2>1
    <3> QED BY <2>2, <3>1 DEF Holds
  <2>4. M # <<>> /\ Front(M) = SubSeq(N, 1, m) /\ Last(M) = N[m + 1]
    <3> HIDE DEF m
    <3> QED BY <1>1, <2>2, FirstFront
  <2>5. /\ v[n + 1] \in Symbols /\ SubSeq(v, 1, n) \in Seq(Symbols)
        /\ SubSeq(v, 1, n + 1) = SubSeq(v, 1, n) \o <<v[n + 1]>>
    BY <1>2, <2>2, FirstOneMore
  <2>6. f[n + 1] = XmlClose(y)
    BY <1>3, <2>2 DEF CloseStep
  <2>12. D # <<>>
    BY <1>1, <2>5, ConcatEqualIffEmpty
  <2> HIDE DEF M, D, x
  <2>7. \E k1, u : Xml(g, y, D, M, k1, u)
    <3>1. Xml(g, XmlIndent(x), D, M, FALSE, FALSE)
      BY <2>3, <2>12, XmlIndents
    <3> QED BY <2>3, <3>1
  <2> HIDE DEF y
  <2>8. Xml(g, XmlClose(y), D \o <<"end">>, Front(M), FALSE, FALSE)
    BY <2>4, <2>7, XmlCloses
  <2>9. "end" = v[n + 1]
    <3>1. v[n + 1] = r[m + 1]
      BY <1>2, <2>2
    <3> HIDE DEF m
    <3> QED BY <1>1, <2>2, <3>1
  <2>10. D \o <<v[n + 1]>> = C \o SubSeq(v, 1, n + 1)
    <3> DEFINE c == v[n + 1]
               w == SubSeq(v, 1, n)
    <3>1. c \in Symbols /\ w \in Seq(Symbols) /\ SubSeq(v, 1, n + 1) = w \o <<c>> /\ D = C \o w
      BY <2>5 DEF D
    <3> HIDE DEF c, w
    <3>2. <<c>> \in Seq(Symbols)
      BY <3>1
    <3>3. (C \o w) \o <<c>> = C \o (w \o <<c>>)
      BY <1>1, <3>1, <3>2, Joined
    <3> QED BY <3>1, <3>3 DEF c
  <2>11. Xml(g, f[n + 1], C \o SubSeq(v, 1, n + 1), SubSeq(N, 1, L - (n + 1)), FALSE, FALSE)
    BY <2>4, <2>6, <2>8, <2>9, <2>10
  <2> QED BY <2>11 DEF Holds
<1> HIDE DEF G
<1>6. L \in G
  BY <1>1, <1>4, <1>5, Inductive
<1>7. PICK k, s : Xml(g, f[L], C \o v, <<>>, k, s)
  <2>1. Holds(L)
    BY <1>1, <1>6 DEF G
  <2>2. SubSeq(v, 1, L) = v /\ L - L = 0 /\ SubSeq(N, 1, 0) = <<>>
    BY <1>1, <1>2, FirstNone, SubSeqFull
  <2> QED BY <2>1, <2>2 DEF Holds
<1>8. s = FALSE /\ k = FALSE
  BY <1>7 DEF Xml
<1>10. C \o v # <<>>
  BY <1>1, <1>2, ConcatEqualIffEmpty
<1>9. Xml(g, XmlEndLine(f[L]), C \o v, <<>>, FALSE, FALSE)
  BY <1>7, <1>8, <1>10, XmlEnds
<1> QED BY <1>3, <1>9 DEF v, r

-----------------------------------------------------------------------------
(* The generator: no action loses a part of the document.                  *)

Nests == Containers \cup Names

Docs == [calls : Seq(Symbols), nest : Seq(Nests), keyed : BOOLEAN, string : BOOLEAN, n : Nat]

(* C reads as D, but for the characters that are lost.                     *)
Lost(K) == IF K = "json" THEN {"control"} ELSE {"ampersand"}

Like(K, D, C) ==
  /\ C \in Seq(Symbols) /\ D \in Seq(Symbols) /\ Len(C) = Len(D)
  /\ \A k \in 1 .. Len(D) : D[k] \notin Lost(K) => C[k] = D[k]

LEMMA LikeSame ==
  ASSUME NEW K, NEW x \in Seq(Symbols)
  PROVE  Like(K, x, x)
BY DEF Like

LEMMA LikeMore ==
  ASSUME NEW K, NEW D, NEW C, Like(K, D, C), NEW x, NEW y, Like(K, x, y)
  PROVE  Like(K, D \o x, C \o y) /\ D \o x \in Seq(Symbols)
<1> DEFINE l == Len(D)
           m == Len(x)
<1>1. /\ C \in Seq(Symbols) /\ D \in Seq(Symbols) /\ Len(C) = l /\ l \in Nat
      /\ y \in Seq(Symbols) /\ x \in Seq(Symbols) /\ Len(y) = m /\ m \in Nat
      /\ \A k \in 1 .. l : D[k] \notin Lost(K) => C[k] = D[k]
      /\ \A k \in 1 .. m : x[k] \notin Lost(K) => y[k] = x[k]
  BY LenProperties DEF Like
<1>2. /\ D \o x \in Seq(Symbols) /\ Len(D \o x) = l + m
      /\ \A k \in 1 .. l + m : (D \o x)[k] = IF k <= l THEN D[k] ELSE x[k - l]
  BY <1>1, ConcatProperties
<1>3. /\ C \o y \in Seq(Symbols) /\ Len(C \o y) = l + m
      /\ \A k \in 1 .. l + m : (C \o y)[k] = IF k <= l THEN C[k] ELSE y[k - l]
  <2> HIDE DEF l, m
  <2> QED BY <1>1, ConcatProperties
<1> HIDE DEF l, m
<1>4. ASSUME NEW k \in 1 .. l + m, (D \o x)[k] \notin Lost(K) PROVE (C \o y)[k] = (D \o x)[k]
  <2>1. CASE k <= l
    <3>1. k \in 1 .. l
      BY <1>1, <2>1
    <3> QED BY <1>1, <1>2, <1>3, <1>4, <2>1, <3>1
  <2>2. CASE ~(k <= l)
    <3>1. k - l \in 1 .. m
      BY <1>1, <2>2
    <3> QED BY <1>1, <1>2, <1>3, <1>4, <2>2, <3>1
  <2> QED BY <2>1, <2>2
<1> QED BY <1>2, <1>3, <1>4 DEF Like

LEMMA LikeAdds ==
  ASSUME NEW K, NEW D, NEW C, Like(K, D, C), NEW x \in Seq(Symbols)
  PROVE  Like(K, D \o x, C \o x)
BY LikeSame, LikeMore

LEMMA LikeNone ==
  ASSUME NEW K, NEW D, NEW C, Like(K, D, C)
  PROVE  /\ C \in Seq(Symbols) /\ D \in Seq(Symbols) /\ (C = <<>> <=> D = <<>>)
BY EmptySeq DEF Like

LEMMA LikeAsRead ==
  ASSUME NEW v \in Seq(Symbols)
  PROVE  Like("json", v, AsRead(v))
<1>1. /\ AsRead(v) \in Seq(Symbols) /\ Len(AsRead(v)) = Len(v)
      /\ \A n \in 1 .. Len(v) : AsRead(v)[n] = Kept(v[n])
  BY AsReadIn
<1>2. \A n \in 1 .. Len(v) : v[n] \notin Lost("json") => Kept(v[n]) = v[n]
  BY DEF Lost, Kept
<1> QED BY <1>1, <1>2 DEF Like

LEMMA LikeFromXml ==
  ASSUME NEW v, XmlValue(v)
  PROVE  Like("xml", v, FromXml(v))
<1>1. /\ v \in Seq(Symbols) /\ FromXml(v) \in Seq(Symbols) /\ Len(FromXml(v)) = Len(v)
      /\ \A n \in 1 .. Len(v) : FromXml(v)[n] = Lasting(v[n])
  BY XmlEncodeIs DEF XmlValue
<1>2. \A n \in 1 .. Len(v) : v[n] \notin Lost("xml") => Lasting(v[n]) = v[n]
  BY DEF Lost, Lasting
<1> QED BY <1>1, <1>2 DEF Like

JsonLike(g, b, D, N, k, s) == \E C : Like("json", D, C) /\ Json(g, b, C, N, k, s)
XmlLike(g, b, D, N, k, s)  == \E C : Like("xml", D, C) /\ Xml(g, b, C, N, k, s)

(* The text that has been discarded and the one that is held read as the   *)
(* calls that were made.                                                   *)
DocumentInv ==
  /\ kind \in {"json", "xml", "plain"} /\ doc \in Docs
  /\ kind = "json" => JsonLike(gone, builder, doc.calls, doc.nest, doc.keyed, doc.string)
  /\ kind = "xml" => XmlLike(gone, builder, doc.calls, doc.nest, doc.keyed, doc.string)
  /\ kind # "plain" => generator.len = Len(builder.text)
  /\ kind = "plain" => doc.nest = <<>> /\ doc.string = FALSE

LEMMA DocumentReads == DocumentInv => ReadsAsWritten
<1> SUFFICES ASSUME DocumentInv, kind # "plain" PROVE ReadsAsWritten
  BY DEF ReadsAsWritten
<1> DEFINE D == doc.calls
           N == doc.nest
           r == Reading(kind, gone \o builder.text)
<1>1. PICK A, C : /\ At(kind, gone \o builder.text, C, N, A) /\ Like(kind, D, C)
                  /\ D # <<>> /\ N = <<>> => A \in AtRest
  <2>1. CASE kind = "json"
    <3>1. PICK C : Like("json", D, C) /\ Json(gone, builder, C, N, doc.keyed, doc.string)
      BY <2>1 DEF DocumentInv, JsonLike
    <3> DEFINE A == JsonAt(builder, N, doc.keyed)
    <3>2. At("json", gone \o builder.text, C, N, A)
      BY <3>1 DEF Json, JsonRead, Told
    <3>3. D # <<>> => C # <<>>
      BY <3>1, LikeNone
    <3>4. C # <<>> /\ N = <<>> => A = "next"
      <4>1. C # <<>> /\ N = <<>> => builder.mode = "AFTER_VALUE"
        BY <3>1 DEF Json, JsonRead, JsonModes
      <4> QED BY <4>1 DEF JsonAt
    <3> HIDE DEF A, D, N
    <3> QED BY <2>1, <3>1, <3>2, <3>3, <3>4 DEF AtRest
  <2>2. CASE kind = "xml"
    <3>1. PICK C : Like("xml", D, C) /\ Xml(gone, builder, C, N, doc.keyed, doc.string)
      BY <2>2 DEF DocumentInv, XmlLike
    <3> DEFINE A == XmlAt(builder)
    <3>2. At("xml", gone \o builder.text, C, N, A)
      BY <3>1 DEF Xml, XmlRead, Told
    <3>3. N = <<>> => A = "value"
      <4>1. N = <<>> => builder.mode # "IN_ELEMENT"
        BY <3>1 DEF Xml
      <4> QED BY <4>1 DEF XmlAt
    <3> HIDE DEF A, D, N
    <3> QED BY <2>2, <3>1, <3>2, <3>3 DEF AtRest
  <2> QED BY <2>1, <2>2 DEF DocumentInv
<1>2. r = R(C, N, A)
  BY <1>1 DEF At
<1>3. r.ok /\ r.calls = C /\ r.nest = N /\ r.at = A
  <2> HIDE DEF r, N
  <2> QED BY <1>2 DEF R
<1>4. Lost(kind) = Spoiled
  BY DEF Lost, Spoiled
<1>5. Len(C) = Len(D) /\ DOMAIN D = 1 .. Len(D)
  BY <1>1, LenProperties DEF Like
<1>6. \A k \in DOMAIN D : D[k] \notin Spoiled => r.calls[k] = D[k]
  <2> HIDE DEF r, D, N
  <2> QED BY <1>1, <1>3, <1>4, <1>5 DEF Like
<1>7. D # <<>> /\ N = <<>> => r.at \in AtRest
  <2> HIDE DEF r, D, N
  <2> QED BY <1>1, <1>3
<1>8. r.ok /\ r.nest = N /\ Len(r.calls) = Len(D)
  <2> HIDE DEF r, D, N
  <2> QED BY <1>3, <1>5
<1> QED BY <1>6, <1>7, <1>8 DEF ReadsAsWritten

LEMMA ToldNothing ==
  ASSUME NEW K
  PROVE  Told(K, <<>>, <<>>, <<>>, <<>>, "value")
<1>1. Reading(K, <<>>) = R(<<>>, <<>>, "value")
  BY ReadingNothing DEF Start, R
<1>2. <<>> \in Seq(Symbols) /\ <<>> \o <<>> = <<>>
  OBVIOUS
<1> QED BY <1>1, <1>2 DEF Told, At

LEMMA DocumentInit == DocInit => DocumentInv
<1> SUFFICES ASSUME DocInit PROVE DocumentInv
  OBVIOUS
<1>1. /\ builder = NewJson /\ doc.calls = <<>> /\ doc.nest = <<>> /\ doc.keyed = FALSE
      /\ doc.string = FALSE /\ gone = <<>>
      /\ doc \in Docs
      /\ (kind # "plain" => generator.len = 0) /\ kind \in {"json", "xml", "plain"}
  BY DocumentAssumption DEF DocInit, Docs, DocumentAssumption
<1>2. /\ builder \in Builders /\ builder.text = <<>> /\ builder.stack = <<>>
      /\ builder.mode = "NORMAL"
      /\ Len(builder.text) = 0
  BY <1>1 DEF NewJson, Builders, Modes
<1> DEFINE E == <<>>
<1>3. \A K : Told(K, E, E, E, E, "value")
  BY ToldNothing
<1>4. E \in Seq(Containers) /\ E \in Seq(Names) /\ Closers(E) = E /\ E \in Seq(Symbols)
  BY DEF Closers
<1>5. Json(gone, builder, E, E, FALSE, FALSE)
  <2>1. JsonAt(builder, E, FALSE) = "value"
    BY <1>2 DEF JsonAt
  <2>2. JsonRead(E, builder, E, E, "value")
    <3> HIDE DEF E
    <3>1. builder.text = E
      BY <1>2 DEF E
    <3> QED BY <1>2, <1>3, <3>1 DEF JsonRead, JsonModes, JsonTexts
  <2> QED BY <1>1, <1>2, <1>4, <2>1, <2>2 DEF Json
<1>6. Xml(gone, builder, E, E, FALSE, FALSE)
  <2>1. XmlAt(builder) = "value"
    BY <1>2 DEF XmlAt
  <2>2. XmlRead(E, builder, E, E)
    <3> HIDE DEF E
    <3>1. builder.text = E
      BY <1>2 DEF E
    <3> QED BY <1>2, <1>3, <2>1, <3>1 DEF XmlRead, XmlModes
  <2> QED BY <1>1, <1>2, <1>4, <2>2 DEF Xml
<1>7. Like("json", E, E) /\ Like("xml", E, E)
  BY <1>4, LikeSame
<1>8. /\ JsonLike(gone, builder, E, E, FALSE, FALSE)
      /\ XmlLike(gone, builder, E, E, FALSE, FALSE)
  <2> HIDE DEF E
  <2> QED BY <1>5, <1>6, <1>7 DEF JsonLike, XmlLike
<1> QED BY <1>1, <1>2, <1>8 DEF DocumentInv

(* One generate() that makes a call of a builder.                          *)
LEMMA WrittenInv ==
  ASSUME DocumentInv, NEW b, NEW d \in Docs, Written(b, d), kind # "plain",
         kind = "json" => JsonLike(gone, b, d.calls, d.nest, d.keyed, d.string),
         kind = "xml" => XmlLike(gone, b, d.calls, d.nest, d.keyed, d.string)
  PROVE  DocumentInv'
<1>1. /\ builder' = b /\ doc' = [d EXCEPT !.n = @ + 1]
      /\ generator'.len = Len(b.text) /\ gone' = gone /\ kind' = kind
  BY DEF Written
<1>2. /\ doc' \in Docs /\ doc'.calls = d.calls /\ doc'.nest = d.nest
      /\ doc'.keyed = d.keyed /\ doc'.string = d.string
  BY <1>1 DEF Docs
<1> QED BY <1>1, <1>2 DEF DocumentInv

(* What a call makes of the fields of doc.                                 *)
LEMMA CalledIs ==
  ASSUME doc \in Docs, NEW x \in Seq(Symbols)
  PROVE  /\ Called(x) \in Docs /\ Called(x).calls = doc.calls \o x /\ Called(x).nest = doc.nest
         /\ Called(x).keyed = FALSE /\ Called(x).string = FALSE
<1> DEFINE y == doc.calls \o x
           d == Called(x)
<1>1. doc.calls \in Seq(Symbols)
  BY DEF Docs
<1>2. y \in Seq(Symbols) /\ d = [doc EXCEPT !.calls = y, !.keyed = FALSE, !.string = FALSE]
  BY <1>1, Longer DEF Called
<1> HIDE DEF y, d
<1>3. /\ d \in Docs /\ d.calls = y /\ d.nest = doc.nest /\ d.keyed = FALSE /\ d.string = FALSE
  BY <1>2 DEF Docs
<1> QED BY <1>3 DEF y, d

LEMMA NestIs ==
  ASSUME NEW d \in Docs, NEW N \in Seq(Nests)
  PROVE  LET q == [d EXCEPT !.nest = N] IN
         /\ q \in Docs /\ q.calls = d.calls /\ q.nest = N
         /\ q.keyed = d.keyed /\ q.string = d.string
BY DEF Docs

LEMMA KeyedIs ==
  ASSUME NEW d \in Docs, NEW k \in BOOLEAN
  PROVE  LET q == [d EXCEPT !.keyed = k] IN
         /\ q \in Docs /\ q.calls = d.calls /\ q.nest = d.nest
         /\ q.keyed = k /\ q.string = d.string
BY DEF Docs

LEMMA StringIs ==
  ASSUME NEW d \in Docs, NEW s \in BOOLEAN
  PROVE  LET q == [d EXCEPT !.string = s] IN
         /\ q \in Docs /\ q.calls = d.calls /\ q.nest = d.nest
         /\ q.keyed = d.keyed /\ q.string = s
BY DEF Docs

LEMMA ElementIs ==
  ASSUME NEW d \in Docs, NEW N \in Seq(Nests)
  PROVE  LET q == [d EXCEPT !.keyed = TRUE, !.nest = N] IN
         /\ q \in Docs /\ q.calls = d.calls /\ q.nest = N
         /\ q.keyed = TRUE /\ q.string = d.string
BY DEF Docs

LEMMA IndentedIs ==
  ASSUME NEW d \in Docs, NEW k \in BOOLEAN
  PROVE  LET q == [d EXCEPT !.string = FALSE, !.keyed = k] IN
         /\ q \in Docs /\ q.calls = d.calls /\ q.nest = d.nest
         /\ q.keyed = k /\ q.string = FALSE
BY DEF Docs

LEMMA NestsMore ==
  ASSUME NEW N \in Seq(Nests), NEW o \in Nests
  PROVE  Append(N, o) \in Seq(Nests) /\ (N # <<>> => Front(N) \in Seq(Nests))
BY FrontIs, AppendLast

LEMMA ContainerInv ==
  ASSUME DocumentInv, WriteContainer
  PROVE  DocumentInv'
<1> DEFINE B == doc.calls
           N == doc.nest
           k == doc.keyed
           s == doc.string
<1>0. /\ kind = "json" /\ doc \in Docs /\ JsonLike(gone, builder, B, N, k, s)
      /\ k \/ (N # <<>> /\ Last(N) = "array") \/ B = <<>>
      /\ N \in Seq(Nests)
  BY DEF WriteContainer, ValueExpected, In, DocumentInv, Docs
<1>9. PICK C : Like("json", B, C) /\ Json(gone, builder, C, N, k, s)
  BY <1>0 DEF JsonLike
<1>1. /\ kind = "json" /\ doc \in Docs /\ Json(gone, builder, C, N, k, s)
      /\ k \/ (N # <<>> /\ Last(N) = "array") \/ C = <<>>
      /\ N \in Seq(Nests)
  <2> HIDE DEF B, N, k, s
  <2> QED BY <1>0, <1>9, LikeNone
<1>2. ASSUME NEW o \in Containers, NEW c, c = IF o = "object" THEN "rbrace" ELSE "rbracket",
             NEW x, x = IF o = "object" THEN "lbrace" ELSE "lbracket",
             Written(JsonOpen(builder, x, c), [Called(<<o>>) EXCEPT !.nest = Append(@, o)])
      PROVE  DocumentInv'
  <2> DEFINE e == Called(<<o>>)
             M == Append(e.nest, o)
             d == [e EXCEPT !.nest = M]
             b == JsonOpen(builder, x, c)
             D == B \o <<o>>
  <2>1. JsonLike(gone, b, D, Append(N, o), FALSE, FALSE)
    <3> HIDE DEF B, N, k, s
    <3>1. Json(gone, b, C \o <<o>>, Append(N, o), FALSE, FALSE)
      BY ONLY <1>1, <1>2, JsonOpens
    <3>2. <<o>> \in Seq(Symbols)
      BY SymbolsHere DEF Containers
    <3>3. Like("json", D, C \o <<o>>)
      BY <1>9, <3>2, LikeAdds
    <3> HIDE DEF b, D
    <3> QED BY <3>1, <3>3 DEF JsonLike
  <2>2. o \in Symbols /\ o \in Nests
    BY SymbolsHere DEF Containers, Nests
  <2>3. e \in Docs /\ e.calls = D /\ e.nest = N /\ e.keyed = FALSE /\ e.string = FALSE
    <3>1. <<o>> \in Seq(Symbols)
      BY <2>2
    <3> QED BY <1>1, <3>1, CalledIs
  <2> HIDE DEF e, B, N, D
  <2>4. M \in Seq(Nests) /\ M = Append(N, o)
    BY <1>1, <2>2, <2>3, NestsMore
  <2> HIDE DEF M
  <2>5. d \in Docs /\ d.calls = D /\ d.nest = M /\ d.keyed = FALSE /\ d.string = FALSE
    BY <2>3, <2>4, NestIs
  <2>6. Written(b, d)
    BY <1>2 DEF e, M
  <2> HIDE DEF b, d
  <2> QED BY <1>1, <2>1, <2>4, <2>5, <2>6, WrittenInv
<1>3. CASE Written(JsonObject(builder), [Called(<<"object">>) EXCEPT !.nest = Append(@, "object")])
  BY <1>2, <1>3 DEF JsonObject, Containers
<1>4. CASE Written(JsonArray(builder), [Called(<<"array">>) EXCEPT !.nest = Append(@, "array")])
  BY <1>2, <1>4 DEF JsonArray, Containers
<1> QED BY <1>3, <1>4 DEF WriteContainer

LEMMA KeyInv ==
  ASSUME DocumentInv, WriteKey
  PROVE  DocumentInv'
<1> DEFINE B == doc.calls
           N == doc.nest
           k == doc.keyed
           s == doc.string
<1>1. /\ kind = "json" /\ doc \in Docs /\ JsonLike(gone, builder, B, N, k, s)
      /\ N # <<>> /\ Last(N) = "object" /\ k = FALSE
  BY DEF WriteKey, In, DocumentInv, Docs
<1>8. PICK C : Like("json", B, C) /\ Json(gone, builder, C, N, FALSE, s)
  BY <1>1 DEF JsonLike
<1>2. PICK v \in Values :
        Written(JsonKey(builder, v), [Called(<<"key">> \o v) EXCEPT !.keyed = TRUE])
  BY DEF WriteKey
<1> DEFINE x == <<"key">> \o v
           e == Called(x)
           d == [e EXCEPT !.keyed = TRUE]
           b == JsonKey(builder, v)
           D == B \o x
<1>9. v \in Seq(Symbols) /\ <<"key">> \in Seq(Symbols)
  BY ValueSymbols, SymbolsHere
<1>3. x \in Seq(Symbols)
  BY <1>9, Longer
<1>4. JsonLike(gone, b, D, N, TRUE, FALSE)
  <2> DEFINE y == <<"key">> \o AsRead(v)
  <2> HIDE DEF B, N, k, s
  <2>1. Json(gone, b, C \o y, N, TRUE, FALSE)
    BY ONLY <1>1, <1>8, <1>9, JsonKeys
  <2>2. Like("json", x, y)
    BY <1>9, LikeAsRead, LikeSame, LikeMore
  <2> HIDE DEF x, y
  <2>3. Like("json", B \o x, C \o y)
    BY <1>8, <2>2, LikeMore
  <2> HIDE DEF b
  <2> QED BY <2>1, <2>3 DEF JsonLike
<1>5. Written(b, d)
  BY <1>2
<1> HIDE DEF x
<1>6. e \in Docs /\ e.calls = D /\ e.nest = N /\ e.string = FALSE
  BY <1>1, <1>3, CalledIs
<1> HIDE DEF e, B, N, D, b
<1>7. d \in Docs /\ d.calls = D /\ d.nest = N /\ d.keyed = TRUE /\ d.string = FALSE
  BY <1>6, KeyedIs
<1> HIDE DEF d
<1> QED BY <1>1, <1>4, <1>5, <1>7, WrittenInv

LEMMA StringInv ==
  ASSUME DocumentInv, kind = "json", NEW append \in BOOLEAN,
         ValueExpected \/ (append /\ doc.string),
         NEW e \in Seq(Symbols), NEW v \in Seq(Symbols), NEW w \in Seq(Symbols),
         Like("json", v, w), Adds(gone, doc.nest, e, w),
         Written(JsonString(builder, e, append),
                 [Called(Begins(append, doc.string) \o v) EXCEPT !.string = TRUE])
  PROVE  DocumentInv'
<1> DEFINE B == doc.calls
           N == doc.nest
           k == doc.keyed
           s == doc.string
           h == Begins(append, s)
           x == h \o v
           r == Called(x)
           d == [r EXCEPT !.string = TRUE]
           b == JsonString(builder, e, append)
           D == B \o x
<1>1. /\ doc \in Docs /\ JsonLike(gone, builder, B, N, k, s) /\ Adds(gone, N, e, w)
      /\ k \/ (N # <<>> /\ Last(N) = "array") \/ (append /\ s)
  BY DEF ValueExpected, In, DocumentInv
<1>7. PICK C : Like("json", B, C) /\ Json(gone, builder, C, N, k, s)
  BY <1>1 DEF JsonLike
<1>8. h \in Seq(Symbols)
  <2>1. <<"value">> \in Seq(Symbols) /\ <<>> \in Seq(Symbols)
    BY SymbolsHere
  <2> QED BY <2>1 DEF Begins
<1>2. x \in Seq(Symbols)
  <2> HIDE DEF h
  <2> QED BY <1>8, Longer
<1>3. JsonLike(gone, b, D, N, FALSE, TRUE)
  <2> DEFINE y == h \o w
  <2> HIDE DEF B, N, k, s
  <2>1. Json(gone, b, C \o (Begins(append, s) \o w), N, FALSE, TRUE)
    BY <1>1, <1>7, JsonStrings
  <2>4. y = Begins(append, s) \o w
    BY DEF s
  <2> HIDE DEF h
  <2>2. Like("json", x, y)
    BY <1>8, LikeSame, LikeMore
  <2> HIDE DEF x, y
  <2>3. Like("json", B \o x, C \o y)
    BY <1>7, <2>2, LikeMore
  <2> HIDE DEF b
  <2> QED BY <2>1, <2>3, <2>4 DEF JsonLike
<1>4. Written(b, d)
  OBVIOUS
<1> HIDE DEF x
<1>5. r \in Docs /\ r.calls = D /\ r.nest = N /\ r.keyed = FALSE
  BY <1>1, <1>2, CalledIs
<1> HIDE DEF r, B, N, D, b
<1>6. d \in Docs /\ d.calls = D /\ d.nest = N /\ d.keyed = FALSE /\ d.string = TRUE
  BY <1>5, StringIs
<1> HIDE DEF d
<1> QED BY <1>3, <1>4, <1>6, WrittenInv

(* The two ways to encode a string.                                        *)
LEMMA EncodedIn ==
  ASSUME NEW v \in Seq(Symbols)
  PROVE  /\ Encoded(v) \in Seq(Symbols) /\ XmlEncoded(v) \in Seq(Symbols)
         /\ AsRead(v) \in Seq(Symbols) /\ AsRead(AsXml(v)) \in Seq(Symbols)
<1> DEFINE E == <<>>
           D == E \o <<"value">>
<1>1. Told("json", E, E, E, E, "value") /\ E \in Seq(Symbols) /\ IsText(E)
  BY ToldNothing DEF IsText
<1> HIDE DEF E
<1>2. "quote" \in Symbols /\ <<"value">> \in Seq(Symbols)
  BY SymbolsHere
<1>3. D \in Seq(Symbols) /\ Read("json", R(E, E, "value"), "quote") = R(D, E, "text")
  BY <1>1, <1>2, Longer, AtValue
<1> HIDE DEF D
<1>4. Told("json", E, E \o <<"quote">>, D, E, "text")
  BY <1>1, <1>2, <1>3, ToldOne
<1> DEFINE t == E \o <<"quote">>
           A == "text"
<1>5. Told("json", E, t, D, E, A) /\ Inside(A)
  BY <1>4 DEF Inside
<1> HIDE DEF t, A
<1>6. Encoded(v) \in Seq(Symbols) /\ AsRead(v) \in Seq(Symbols)
  BY ONLY <1>5, v \in Seq(Symbols), ToldEncoded
<1>7. XmlEncoded(v) \in Seq(Symbols) /\ AsRead(AsXml(v)) \in Seq(Symbols)
  BY ONLY <1>5, v \in Seq(Symbols), ToldXmlEncoded
<1> QED BY <1>6, <1>7

LEMMA EncodedAdds ==
  ASSUME NEW g, NEW N, NEW v \in Seq(Symbols)
  PROVE  /\ Adds(g, N, Encoded(v), AsRead(v))
         /\ Adds(g, N, XmlEncoded(v), AsRead(AsXml(v)))
<1>1. ASSUME NEW t, NEW D, Told("json", g, t, D, N, "text")
      PROVE  /\ Told("json", g, t \o Encoded(v), D \o AsRead(v), N, "text")
             /\ Told("json", g, t \o XmlEncoded(v), D \o AsRead(AsXml(v)), N, "text")
  <2> DEFINE A == "text"
  <2>1. Told("json", g, t, D, N, A) /\ Inside(A)
    BY <1>1 DEF Inside
  <2> HIDE DEF A
  <2>2. Told("json", g, t \o Encoded(v), D \o AsRead(v), N, A)
    BY ONLY <2>1, v \in Seq(Symbols), ToldEncoded
  <2>3. Told("json", g, t \o XmlEncoded(v), D \o AsRead(AsXml(v)), N, A)
    BY ONLY <2>1, v \in Seq(Symbols), ToldXmlEncoded
  <2> QED BY <2>2, <2>3 DEF A
<1> QED BY <1>1 DEF Adds

LEMMA StringsInv ==
  ASSUME DocumentInv, WriteString
  PROVE  DocumentInv'
<1>1. PICK v \in Values, append \in BOOLEAN :
        /\ ValueExpected \/ (append /\ doc.string)
        /\ Written(JsonString(builder, Encoded(v), append),
                   [Called((IF append /\ doc.string THEN <<>> ELSE <<"value">>) \o v)
                      EXCEPT !.string = TRUE])
  BY DEF WriteString
<1>2. kind = "json"
  <2>1. CASE ValueExpected
    BY <2>1 DEF ValueExpected
  <2>2. CASE doc.string
    BY <2>2 DEF DocumentInv, XmlLike, Xml
  <2> QED BY <1>1, <2>1, <2>2
<1> DEFINE e == Encoded(v)
           w == AsRead(v)
<1>3. v \in Seq(Symbols)
  BY ValueSymbols
<1>4. /\ e \in Seq(Symbols) /\ w \in Seq(Symbols) /\ Like("json", v, w)
      /\ Adds(gone, doc.nest, e, w)
  BY <1>3, EncodedIn, EncodedAdds, LikeAsRead
<1>5. Written(JsonString(builder, e, append),
              [Called(Begins(append, doc.string) \o v) EXCEPT !.string = TRUE])
  BY <1>1 DEF Begins
<1> HIDE DEF e, w
<1> QED BY <1>1, <1>2, <1>3, <1>4, <1>5, StringInv

LEMMA EscapedInv ==
  ASSUME DocumentInv, WriteEscaped
  PROVE  DocumentInv'
<1>1. PICK v \in Values, append \in BOOLEAN :
        /\ ValueExpected \/ (append /\ doc.string)
        /\ Written(JsonString(builder, XmlEncoded(v), append),
                   [Called((IF append /\ doc.string THEN <<>> ELSE <<"value">>) \o AsXml(v))
                      EXCEPT !.string = TRUE])
  BY DEF WriteEscaped
<1>2. kind = "json"
  <2>1. CASE ValueExpected
    BY <2>1 DEF ValueExpected
  <2>2. CASE doc.string
    BY <2>2 DEF DocumentInv, XmlLike, Xml
  <2> QED BY <1>1, <2>1, <2>2
<1> DEFINE e == XmlEncoded(v)
           x == AsXml(v)
           w == AsRead(x)
<1>3. v \in Seq(Symbols) /\ x \in Seq(Symbols)
  BY ValueSymbols, AsXmlIn
<1>4. /\ e \in Seq(Symbols) /\ w \in Seq(Symbols) /\ Adds(gone, doc.nest, e, w)
  BY <1>3, EncodedIn, EncodedAdds
<1>5. Written(JsonString(builder, e, append),
              [Called(Begins(append, doc.string) \o x) EXCEPT !.string = TRUE])
  BY <1>1 DEF Begins
<1> HIDE DEF e, x
<1>6. Like("json", x, w)
  BY <1>3, LikeAsRead
<1> HIDE DEF w
<1> QED BY <1>1, <1>2, <1>3, <1>4, <1>5, <1>6, StringInv

LEMMA LiteralInv ==
  ASSUME DocumentInv, WriteLiteral
  PROVE  DocumentInv'
<1> DEFINE B == doc.calls
           N == doc.nest
           k == doc.keyed
           s == doc.string
<1>1. /\ kind = "json" /\ doc \in Docs /\ JsonLike(gone, builder, B, N, k, s)
      /\ k \/ (N # <<>> /\ Last(N) = "array")
  BY DEF WriteLiteral, ValueExpected, In, DocumentInv
<1>2. PICK c \in {"1", "null"} : Written(JsonLiteral(builder, c), Called(<<c>>))
  BY DEF WriteLiteral
<1> DEFINE x == <<c>>
           d == Called(x)
           b == JsonLiteral(builder, c)
           D == B \o x
<1>4. x \in Seq(Symbols)
  <2>1. c \in Symbols
    BY SymbolsHere
  <2> QED BY <2>1
<1>3. JsonLike(gone, b, D, N, FALSE, FALSE)
  <2> HIDE DEF B, N, k, s
  <2>1. PICK C : Like("json", B, C) /\ Json(gone, builder, C, N, k, s)
    BY <1>1 DEF JsonLike
  <2>2. Json(gone, b, C \o x, N, FALSE, FALSE)
    BY <1>1, <2>1, JsonLiterals
  <2> HIDE DEF x, b
  <2>3. Like("json", B \o x, C \o x)
    BY <1>4, <2>1, LikeAdds
  <2> QED BY <2>2, <2>3 DEF JsonLike
<1>5. Written(b, d)
  BY <1>2
<1> HIDE DEF x
<1>6. d \in Docs /\ d.calls = D /\ d.nest = N /\ d.keyed = FALSE /\ d.string = FALSE
  BY <1>1, <1>4, CalledIs
<1> HIDE DEF d, B, N, D, b
<1> QED BY <1>1, <1>3, <1>5, <1>6, WrittenInv

LEMMA CloseInv ==
  ASSUME DocumentInv, WriteClose
  PROVE  DocumentInv'
<1> DEFINE B == doc.calls
           N == doc.nest
           k == doc.keyed
           s == doc.string
           x == <<Closing(Last(N))>>
           e == Called(x)
           M == Front(e.nest)
           d == [e EXCEPT !.nest = M]
           b == IF kind = "json" THEN JsonClose(builder) ELSE XmlClose(builder)
           D == B \o x
<1>1. /\ doc \in Docs /\ N # <<>> /\ (kind = "json" => k = FALSE) /\ (kind = "json" \/ kind = "xml")
      /\ (kind = "json" => JsonLike(gone, builder, B, N, k, s))
      /\ (kind = "xml" => XmlLike(gone, builder, B, N, k, s)) /\ N \in Seq(Nests)
  BY DEF WriteClose, DocumentInv, Docs
<1>2. Written(b, d)
  BY DEF WriteClose
<1>3. x \in Seq(Symbols)
  BY SymbolsHere DEF Closing
<1>4. kind = "json" => JsonLike(gone, b, D, Front(N), FALSE, FALSE)
  <2> SUFFICES ASSUME kind = "json" PROVE JsonLike(gone, b, D, Front(N), FALSE, FALSE)
    OBVIOUS
  <2>1. b = JsonClose(builder)
    OBVIOUS
  <2>2. x = <<Ender(N)>>
    BY DEF Closing, Ender
  <2>3. PICK C : Like("json", B, C) /\ Json(gone, builder, C, N, FALSE, s)
    BY <1>1 DEF JsonLike
  <2>4. Json(gone, JsonClose(builder), C \o <<Ender(N)>>, Front(N), FALSE, FALSE)
    <3> HIDE DEF B, N, s
    <3> QED BY <1>1, <2>3, JsonCloses
  <2>5. Like("json", B \o x, C \o x)
    <3> HIDE DEF B, x
    <3> QED BY <1>3, <2>3, LikeAdds
  <2> HIDE DEF x, b
  <2> QED BY <2>1, <2>2, <2>4, <2>5 DEF JsonLike
<1>5. kind = "xml" => XmlLike(gone, b, D, Front(N), FALSE, FALSE)
  <2> SUFFICES ASSUME kind = "xml" PROVE XmlLike(gone, b, D, Front(N), FALSE, FALSE)
    OBVIOUS
  <2>1. b = XmlClose(builder)
    OBVIOUS
  <2>2. x = <<"end">>
    BY DEF Closing
  <2>4. PICK C : Like("xml", B, C) /\ Xml(gone, builder, C, N, k, s)
    BY <1>1 DEF XmlLike
  <2>3. Xml(gone, XmlClose(builder), C \o <<"end">>, Front(N), FALSE, FALSE)
    <3> HIDE DEF B, N, s, k
    <3> QED BY <1>1, <2>4, XmlCloses
  <2>5. Like("xml", B \o x, C \o x)
    <3> HIDE DEF B, x
    <3> QED BY <1>3, <2>4, LikeAdds
  <2> HIDE DEF x, b
  <2> QED BY <2>1, <2>2, <2>3, <2>5 DEF XmlLike
<1> HIDE DEF x, b
<1>6. e \in Docs /\ e.calls = D /\ e.nest = N /\ e.keyed = FALSE /\ e.string = FALSE
  BY <1>1, <1>3, CalledIs
<1> HIDE DEF e, B, N, D
<1>7. M \in Seq(Nests) /\ M = Front(N)
  BY <1>1, <1>6, FrontIs
<1> HIDE DEF M
<1>8. d \in Docs /\ d.calls = D /\ d.nest = M /\ d.keyed = FALSE /\ d.string = FALSE
  BY <1>6, <1>7, NestIs
<1> HIDE DEF d
<1> QED BY <1>1, <1>2, <1>4, <1>5, <1>7, <1>8, WrittenInv

LEMMA IndentInv ==
  ASSUME DocumentInv, WriteIndent
  PROVE  DocumentInv'
<1> DEFINE B == doc.calls
           N == doc.nest
           k == doc.keyed
           s == doc.string
           h == k /\ kind = "json"
           d == [doc EXCEPT !.string = FALSE, !.keyed = h]
           b == IF kind = "json" THEN JsonIndent(builder) ELSE XmlIndent(builder)
<1>1. /\ doc \in Docs /\ B # <<>> /\ (kind = "json" \/ kind = "xml") /\ k \in BOOLEAN
      /\ (kind = "json" => JsonLike(gone, builder, B, N, k, s))
      /\ (kind = "xml" => XmlLike(gone, builder, B, N, k, s))
  BY DEF WriteIndent, DocumentInv, Docs
<1>2. Written(b, d)
  BY DEF WriteIndent
<1>3. h \in BOOLEAN /\ (kind = "json" => h = k) /\ (kind = "xml" => h = FALSE)
  BY <1>1
<1>4. kind = "json" => JsonLike(gone, b, B, N, k, FALSE)
  <2> HIDE DEF B, N, k, s
  <2> SUFFICES ASSUME kind = "json" PROVE JsonLike(gone, b, B, N, k, FALSE)
    OBVIOUS
  <2>1. PICK C : Like("json", B, C) /\ Json(gone, builder, C, N, k, s)
    BY <1>1 DEF JsonLike
  <2>2. Json(gone, b, C, N, k, FALSE)
    BY <2>1, JsonIndents
  <2> HIDE DEF b
  <2> QED BY <2>1, <2>2 DEF JsonLike
<1>5. kind = "xml" => XmlLike(gone, b, B, N, FALSE, FALSE)
  <2> HIDE DEF B, N, k, s
  <2> SUFFICES ASSUME kind = "xml" PROVE XmlLike(gone, b, B, N, FALSE, FALSE)
    OBVIOUS
  <2>1. PICK C : Like("xml", B, C) /\ Xml(gone, builder, C, N, k, s)
    BY <1>1 DEF XmlLike
  <2>3. C # <<>>
    BY <1>1, <2>1, LikeNone
  <2>2. Xml(gone, b, C, N, FALSE, FALSE)
    BY <2>1, <2>3, XmlIndents
  <2> HIDE DEF b
  <2> QED BY <2>1, <2>2 DEF XmlLike
<1> HIDE DEF h, b
<1>6. d \in Docs /\ d.calls = B /\ d.nest = N /\ d.keyed = h /\ d.string = FALSE
  BY <1>1, <1>3, IndentedIs
<1> HIDE DEF d, B, N, k
<1> QED BY <1>1, <1>2, <1>3, <1>4, <1>5, <1>6, WrittenInv

LEMMA FinishInv ==
  ASSUME DocumentInv, WriteFinish
  PROVE  DocumentInv'
<1>1. PICK indent \in BOOLEAN :
        Written(IF kind = "json" THEN JsonFinish(builder, indent) ELSE XmlFinish(builder, indent),
                [Called(Reverse([j \in DOMAIN doc.nest |-> Closing(doc.nest[j])]))
                   EXCEPT !.nest = <<>>])
  BY DEF WriteFinish
<1> DEFINE B == doc.calls
           N == doc.nest
           k == doc.keyed
           s == doc.string
           r == [j \in DOMAIN N |-> Closing(N[j])]
           x == Reverse(r)
           e == Called(x)
           E == <<>>
           d == [e EXCEPT !.nest = E]
           b == IF kind = "json" THEN JsonFinish(builder, indent) ELSE XmlFinish(builder, indent)
           D == B \o x
<1>2. /\ doc \in Docs /\ B # <<>> /\ (kind = "json" => k = FALSE) /\ (kind = "json" \/ kind = "xml")
      /\ (kind = "json" => JsonLike(gone, builder, B, N, k, s))
      /\ (kind = "xml" => XmlLike(gone, builder, B, N, k, s))
  BY DEF WriteFinish, DocumentInv, Docs
<1>3. Written(b, d)
  BY <1>1
<1>4. kind = "json" => r = Enders(N)
  BY DEF Closing, Enders
<1>5. kind = "xml" => r = Ends(N)
  BY DEF Closing, Ends
<1>6. x \in Seq(Symbols)
  <2>1. CASE kind = "json"
    <3>1. N \in Seq(Containers)
      BY <1>2, <2>1 DEF JsonLike, Json
    <3> HIDE DEF N, r
    <3>2. Enders(N) \in Seq(Symbols)
      BY <3>1, EndersIs
    <3> QED BY <1>4, <2>1, <3>2, ReverseIs
  <2>2. CASE kind = "xml"
    <3>1. N \in Seq(Names)
      BY <1>2, <2>2 DEF XmlLike, Xml
    <3> HIDE DEF N, r
    <3>2. Ends(N) \in Seq(Symbols)
      BY <3>1, EndsIs
    <3> QED BY <1>5, <2>2, <3>2, ReverseIs
  <2> QED BY <1>2, <2>1, <2>2
<1> HIDE DEF r
<1>7. kind = "json" => JsonLike(gone, b, D, E, FALSE, FALSE)
  <2> SUFFICES ASSUME kind = "json" PROVE JsonLike(gone, b, D, E, FALSE, FALSE)
    OBVIOUS
  <2>1. /\ JsonLike(gone, builder, B, N, FALSE, s) /\ b = JsonFinish(builder, indent)
        /\ x = Reverse(Enders(N))
    BY <1>2, <1>4
  <2> HIDE DEF B, N, s, x, b
  <2>2. PICK C : Like("json", B, C) /\ Json(gone, builder, C, N, FALSE, s)
    BY <2>1 DEF JsonLike
  <2>3. Json(gone, JsonFinish(builder, indent), C \o Reverse(Enders(N)), <<>>, FALSE, FALSE)
    BY <2>2, JsonFinishes
  <2>4. Like("json", B \o x, C \o x)
    BY <1>6, <2>2, LikeAdds
  <2> QED BY <2>1, <2>3, <2>4 DEF JsonLike
<1>8. kind = "xml" => XmlLike(gone, b, D, E, FALSE, FALSE)
  <2> SUFFICES ASSUME kind = "xml" PROVE XmlLike(gone, b, D, E, FALSE, FALSE)
    OBVIOUS
  <2>1. /\ XmlLike(gone, builder, B, N, k, s) /\ b = XmlFinish(builder, indent)
        /\ x = Reverse(Ends(N)) /\ B # <<>>
    BY <1>2, <1>5
  <2> HIDE DEF B, N, s, k, x, b
  <2>2. PICK C : Like("xml", B, C) /\ Xml(gone, builder, C, N, k, s)
    BY <2>1 DEF XmlLike
  <2>5. C # <<>>
    BY <2>1, <2>2, LikeNone
  <2>3. Xml(gone, XmlFinish(builder, indent), C \o Reverse(Ends(N)), <<>>, FALSE, FALSE)
    BY <2>2, <2>5, XmlFinishes
  <2>4. Like("xml", B \o x, C \o x)
    BY <1>6, <2>2, LikeAdds
  <2> QED BY <2>1, <2>3, <2>4 DEF XmlLike
<1> HIDE DEF x, b
<1>9. e \in Docs /\ e.calls = D /\ e.keyed = FALSE /\ e.string = FALSE
  BY <1>2, <1>6, CalledIs
<1>10. E \in Seq(Nests)
  OBVIOUS
<1> HIDE DEF e, B, D, E
<1>11. d \in Docs /\ d.calls = D /\ d.nest = E /\ d.keyed = FALSE /\ d.string = FALSE
  BY <1>9, <1>10, NestIs
<1> HIDE DEF d
<1> QED BY <1>2, <1>3, <1>7, <1>8, <1>11, WrittenInv

LEMMA ValueInXml ==
  ASSUME NEW v \in Values, InXml(v)
  PROVE  XmlValue(v)
<1>1. /\ v \in Seq(Symbols) /\ DOMAIN v = 1 .. Len(v)
      /\ \A n \in 1 .. Len(v) : v[n] \notin Words
  BY ValueSymbols
<1>2. \A n \in 1 .. Len(v) : v[n] \notin Blank
  BY <1>1 DEF InXml
<1> QED BY <1>1, <1>2 DEF XmlValue

LEMMA ElementInv ==
  ASSUME DocumentInv, WriteElement
  PROVE  DocumentInv'
<1>1. PICK name \in Names, declaration \in BOOLEAN :
        /\ declaration => doc.calls = <<>>
        /\ Written(XmlElement(IF declaration THEN XmlDeclaration(builder) ELSE builder, name),
                   [Called(<<"element", name>>) EXCEPT !.keyed = TRUE, !.nest = Append(@, name)])
  BY DEF WriteElement, Names
<1> DEFINE B == doc.calls
           N == doc.nest
           k == doc.keyed
           s == doc.string
           x == <<"element", name>>
           e == Called(x)
           M == Append(e.nest, name)
           d == [e EXCEPT !.keyed = TRUE, !.nest = M]
           a == IF declaration THEN XmlDeclaration(builder) ELSE builder
           b == XmlElement(a, name)
           D == B \o x
<1>2. /\ doc \in Docs /\ kind = "xml" /\ XmlLike(gone, builder, B, N, k, s) /\ N \in Seq(Nests)
      /\ (declaration => B = <<>>) /\ name \in Nests
  BY <1>1 DEF WriteElement, DocumentInv, Docs, Nests
<1>3. Written(b, d)
  BY <1>1
<1>10. PICK C : Like("xml", B, C) /\ Xml(gone, builder, C, N, k, s)
  BY <1>2 DEF XmlLike
<1>11. declaration => C = <<>>
  <2> HIDE DEF B, N, k, s
  <2> QED BY <1>2, <1>10, LikeNone
<1>4. Xml(gone, a, C, N, k, s)
  <2> HIDE DEF B, N, k, s
  <2>1. CASE declaration
    <3>1. Xml(gone, builder, <<>>, N, k, s)
      BY <1>10, <1>11, <2>1
    <3>2. Xml(gone, XmlDeclaration(builder), <<>>, N, k, s)
      BY <3>1, XmlDeclares
    <3> QED BY <1>11, <2>1, <3>2
  <2>2. CASE ~declaration
    BY <1>10, <2>2
  <2> QED BY <2>1, <2>2
<1>6. x \in Seq(Symbols)
  <2>1. name \in Symbols /\ "element" \in Symbols
    BY SymbolsHere DEF Names
  <2> QED BY <2>1, Pair
<1>5. XmlLike(gone, b, D, Append(N, name), TRUE, FALSE)
  <2> HIDE DEF B, N, k, s, a
  <2>1. Xml(gone, b, C \o x, Append(N, name), TRUE, FALSE)
    BY <1>4, XmlOpens
  <2> HIDE DEF x, b
  <2>2. Like("xml", B \o x, C \o x)
    BY <1>6, <1>10, LikeAdds
  <2> QED BY <2>1, <2>2 DEF XmlLike
<1> HIDE DEF x, b
<1>7. e \in Docs /\ e.calls = D /\ e.nest = N /\ e.string = FALSE
  BY <1>2, <1>6, CalledIs
<1> HIDE DEF e, B, N, D
<1>8. M \in Seq(Nests) /\ M = Append(N, name)
  BY <1>2, <1>7, NestsMore
<1> HIDE DEF M
<1>9. d \in Docs /\ d.calls = D /\ d.nest = M /\ d.keyed = TRUE /\ d.string = FALSE
  BY <1>7, <1>8, ElementIs
<1> HIDE DEF d
<1> QED BY <1>2, <1>3, <1>5, <1>8, <1>9, WrittenInv

LEMMA AttributeInv ==
  ASSUME DocumentInv, WriteAttribute
  PROVE  DocumentInv'
<1>1. PICK v \in Values :
        /\ InXml(v)
        /\ Written(XmlAttribute(builder, "a", v),
                   [Called(<<"attribute", "a">> \o v \o <<"attribute_end">>) EXCEPT !.keyed = TRUE])
  BY DEF WriteAttribute
<1> DEFINE B == doc.calls
           N == doc.nest
           s == doc.string
           h == <<"attribute", "a">>
           z == <<"attribute_end">>
           x == h \o v \o z
           e == Called(x)
           d == [e EXCEPT !.keyed = TRUE]
           b == XmlAttribute(builder, "a", v)
           D == B \o x
<1>2. doc \in Docs /\ kind = "xml" /\ XmlLike(gone, builder, B, N, TRUE, s)
  BY DEF WriteAttribute, DocumentInv, Docs
<1>3. PICK C : Like("xml", B, C) /\ Xml(gone, builder, C, N, TRUE, s)
  BY <1>2 DEF XmlLike
<1>4. XmlValue(v) /\ C # <<>>
  <2>1. XmlValue(v)
    BY <1>1, ValueInXml
  <2>2. C # <<>>
    BY <1>3 DEF Xml
  <2> QED BY <2>1, <2>2
<1>5. Written(b, d)
  BY <1>1
<1>6. x \in Seq(Symbols) /\ Like("xml", x, h \o FromXml(v) \o z)
  <2>1. h \in Seq(Symbols) /\ z \in Seq(Symbols)
    BY SymbolsHere, Pair
  <2> HIDE DEF h, z
  <2>2. Like("xml", v, FromXml(v)) /\ Like("xml", h, h) /\ Like("xml", z, z)
    BY <1>4, <2>1, LikeFromXml, LikeSame
  <2>3. Like("xml", h \o v, h \o FromXml(v))
    BY <2>2, LikeMore
  <2> DEFINE m == h \o v
             n == h \o FromXml(v)
  <2>4. Like("xml", m, n)
    BY <2>3
  <2> HIDE DEF m, n
  <2>5. Like("xml", m \o z, n \o z) /\ m \o z \in Seq(Symbols)
    BY <2>2, <2>4, LikeMore
  <2> QED BY <2>5 DEF m, n
<1>9. XmlLike(gone, b, D, N, TRUE, FALSE)
  <2> DEFINE y == h \o FromXml(v) \o z
  <2>1. Xml(gone, b, C \o y, N, TRUE, FALSE)
    <3> HIDE DEF B, N, s
    <3> QED BY ONLY <1>3, <1>4, XmlAttributes
  <2> HIDE DEF x, y, b
  <2>2. Like("xml", B \o x, C \o y)
    <3> HIDE DEF B
    <3> QED BY <1>3, <1>6, LikeMore DEF y
  <2> HIDE DEF B, N
  <2> QED BY <2>1, <2>2 DEF XmlLike
<1> HIDE DEF x, b
<1>7. e \in Docs /\ e.calls = D /\ e.nest = N /\ e.string = FALSE
  BY <1>2, <1>6, CalledIs
<1> HIDE DEF e, B, N, D
<1>8. d \in Docs /\ d.calls = D /\ d.nest = N /\ d.keyed = TRUE /\ d.string = FALSE
  BY <1>7, KeyedIs
<1> HIDE DEF d
<1> QED BY <1>2, <1>5, <1>8, <1>9, WrittenInv

LEMMA TextInv ==
  ASSUME DocumentInv, WriteText
  PROVE  DocumentInv'
<1>1. PICK v \in Values : InXml(v) /\ Written(XmlText(builder, v), Called(v))
  BY DEF WriteText
<1> DEFINE B == doc.calls
           N == doc.nest
           k == doc.keyed
           s == doc.string
           d == Called(v)
           b == XmlText(builder, v)
           D == B \o v
<1>2. doc \in Docs /\ kind = "xml" /\ XmlLike(gone, builder, B, N, k, s) /\ N # <<>>
  BY DEF WriteText, DocumentInv
<1>7. PICK C : Like("xml", B, C) /\ Xml(gone, builder, C, N, k, s)
  BY <1>2 DEF XmlLike
<1>3. C # <<>> /\ v \in Seq(Symbols) /\ XmlValue(v) /\ Like("xml", v, FromXml(v))
  <2>1. C # <<>>
    BY <1>2, <1>7 DEF Xml
  <2>2. XmlValue(v)
    BY <1>1, ValueInXml
  <2> QED BY <2>1, <2>2, LikeFromXml, ValueSymbols
<1>4. XmlLike(gone, b, D, N, FALSE, FALSE)
  <2> HIDE DEF B, N, k, s
  <2>1. Xml(gone, b, C \o FromXml(v), N, FALSE, FALSE)
    BY ONLY <1>2, <1>3, <1>7, XmlTexts
  <2>2. Like("xml", B \o v, C \o FromXml(v))
    BY <1>3, <1>7, LikeMore
  <2> HIDE DEF b
  <2> QED BY <2>1, <2>2 DEF XmlLike
<1>5. Written(b, d)
  BY <1>1
<1>6. d \in Docs /\ d.calls = D /\ d.nest = N /\ d.keyed = FALSE /\ d.string = FALSE
  BY <1>2, <1>3, CalledIs
<1> HIDE DEF d, B, N, D, b
<1> QED BY <1>2, <1>4, <1>5, <1>6, WrittenInv

(* What consume() discards is still what a client has been sent.           *)
LEMMA DiscardIs ==
  ASSUME NEW b \in Builders, NEW n \in 0 .. Len(b.text)
  PROVE  LET q == Discard(b, n) IN
         /\ q \in Builders /\ q.stack = b.stack /\ q.mode = b.mode /\ q.need_indent = b.need_indent
         /\ Len(q.text) = Len(b.text) - n /\ SubSeq(b.text, 1, n) \in Seq(Symbols)
         /\ b.text = SubSeq(b.text, 1, n) \o q.text
<1> DEFINE t == b.text
           y == SubSeq(t, n + 1, Len(t))
           q == Discard(b, n)
<1>1. t \in Seq(Symbols) /\ Len(t) \in Nat /\ \A i \in 1 .. Len(t) : t[i] \in Symbols
  BY LenProperties DEF Builders
<1>2. q = [b EXCEPT !.text = y]
  BY DEF Discard
<1>3. n \in Nat /\ n <= Len(t) /\ n + 1 \in Nat /\ Len(t) \in Nat
  BY <1>1
<1> HIDE DEF t
<1>4. y \in Seq(Symbols) /\ Len(y) = Len(t) - n
  <2> DEFINE m == n + 1
             l == Len(t)
  <2>1. m \in Int /\ l \in Int /\ \A i \in m .. l : t[i] \in Symbols
    BY <1>1, <1>3
  <2>2. m - 1 = n /\ (m <= l => (l - m) + 1 = l - n) /\ (~(m <= l) => l - n = 0)
    BY <1>3
  <2> HIDE DEF m, l
  <2>3. SubSeq(t, m, l) \in Seq(Symbols) /\ Len(SubSeq(t, m, l)) = IF m <= l THEN l - m + 1 ELSE 0
    BY <2>1, SubSeqProperties
  <2> QED BY <2>2, <2>3 DEF m, l
<1>5. SubSeq(t, 1, n) \in Seq(Symbols) /\ t = SubSeq(t, 1, n) \o y
  <2> DEFINE l == Len(t)
             m == 1
  <2>1. m \in 1 .. l + 1 /\ n \in m - 1 .. l /\ l \in n .. l /\ l = Len(t) /\ m = 1
    BY <1>3
  <2> HIDE DEF m, l
  <2>2. SubSeq(t, m, n) \o SubSeq(t, n + 1, l) = SubSeq(t, m, l)
    BY <1>1, <2>1, ConcatAdjacentSubSeq
  <2>3. SubSeq(t, 1, Len(t)) = t
    BY <1>1, SubSeqFull
  <2>4. SubSeq(t, 1, n) \in Seq(Symbols)
    <3>1. \A i \in 1 .. n : t[i] \in Symbols
      BY <1>1, <1>3
    <3> QED BY <1>3, <3>1, SubSeqProperties, 1 \in Int, n \in Int
  <2> QED BY <2>1, <2>2, <2>3, <2>4
<1> HIDE DEF y, q
<1>6. q \in Builders /\ q.text = y /\ q.stack = b.stack /\ q.mode = b.mode
      /\ q.need_indent = b.need_indent
  BY <1>2, <1>4 DEF Builders
<1> QED BY <1>4, <1>5, <1>6 DEF t, q

LEMMA ToldDiscarded ==
  ASSUME NEW K, NEW g, NEW b \in Builders, NEW n \in 0 .. Len(b.text), NEW C, NEW N, NEW A,
         Told(K, g, b.text, C, N, A)
  PROVE  Told(K, g \o SubSeq(b.text, 1, n), Discard(b, n).text, C, N, A)
<1> DEFINE x == SubSeq(b.text, 1, n)
           q == Discard(b, n)
           t == q.text
<1>1. x \in Seq(Symbols) /\ q \in Builders /\ b.text = x \o t
  BY DiscardIs
<1> HIDE DEF x, q
<1>2. t \in Seq(Symbols) /\ g \in Seq(Symbols) /\ At(K, g \o b.text, C, N, A)
  BY <1>1 DEF Builders, Told
<1>3. (g \o x) \o t = g \o (x \o t) /\ g \o x \in Seq(Symbols)
  BY <1>1, <1>2, Joined, Longer
<1>4. Told(K, g \o x, t, C, N, A)
  BY <1>1, <1>2, <1>3 DEF Told
<1> QED BY <1>4 DEF x, q

LEMMA JsonDiscarded ==
  ASSUME NEW g, NEW b, NEW C, NEW N, NEW keyed, NEW string, Json(g, b, C, N, keyed, string),
         NEW n \in 0 .. Len(b.text)
  PROVE  Json(g \o SubSeq(b.text, 1, n), Discard(b, n), C, N, keyed, string)
<1> DEFINE h == g \o SubSeq(b.text, 1, n)
           q == Discard(b, n)
           A == JsonAt(b, N, keyed)
<1>1. b \in Builders /\ Told("json", g, b.text, C, N, A)
  BY DEF Json, JsonRead
<1>2. q \in Builders /\ q.stack = b.stack /\ q.mode = b.mode /\ q.need_indent = b.need_indent
  BY <1>1, DiscardIs
<1>3. Told("json", h, q.text, C, N, A)
  <2> HIDE DEF A
  <2> QED BY <1>1, ToldDiscarded
<1> HIDE DEF h, q
<1>4. JsonAt(q, N, keyed) = A
  BY <1>2 DEF JsonAt
<1>5. JsonRead(h, q, C, N, A)
  <2> HIDE DEF A
  <2>1. JsonRead(g, b, C, N, A)
    BY DEF Json, A
  <2> QED BY <1>2, <1>3, <2>1 DEF JsonRead
<1>6. Json(h, q, C, N, keyed, string)
  BY <1>2, <1>4, <1>5 DEF Json
<1> QED BY <1>6 DEF h, q

LEMMA XmlDiscarded ==
  ASSUME NEW g, NEW b, NEW C, NEW N, NEW keyed, NEW string, Xml(g, b, C, N, keyed, string),
         NEW n \in 0 .. Len(b.text)
  PROVE  Xml(g \o SubSeq(b.text, 1, n), Discard(b, n), C, N, keyed, string)
<1> DEFINE h == g \o SubSeq(b.text, 1, n)
           q == Discard(b, n)
           A == XmlAt(b)
<1>1. b \in Builders /\ Told("xml", g, b.text, C, N, A) /\ b.mode \in XmlModes
  BY DEF Xml, XmlRead
<1>2. q \in Builders /\ q.stack = b.stack /\ q.mode = b.mode
  BY <1>1, DiscardIs
<1>3. Told("xml", h, q.text, C, N, A)
  <2> HIDE DEF A
  <2> QED BY <1>1, ToldDiscarded
<1> HIDE DEF h, q
<1>4. XmlRead(h, q, C, N)
  BY <1>1, <1>2, <1>3 DEF XmlRead, XmlAt
<1>5. Xml(h, q, C, N, keyed, string)
  BY <1>2, <1>4 DEF Xml
<1> QED BY <1>5 DEF h, q

LEMMA CopyDocumentInv ==
  ASSUME StreamInv, DocumentInv, CopyDocument
  PROVE  DocumentInv'
<1> DEFINE n == generator'.base - generator.base
<1>1. /\ Copy /\ kind' = kind /\ doc' = doc /\ builder' = Discard(builder, n)
      /\ gone' = gone \o (IF kind = "plain" THEN <<>> ELSE SubSeq(builder.text, 1, n))
  BY DEF CopyDocument
<1>2. CASE kind = "plain"
  BY <1>1, <1>2 DEF DocumentInv
<1>3. CASE kind # "plain"
  <2>1. /\ generator.base \in Nat /\ generator.len \in Nat /\ generator'.base \in Nat
        /\ generator'.len \in Nat /\ generator'.len <= generator.len
        /\ generator'.base + generator'.len = generator.base + generator.len
    <3>1. StreamInv' /\ Made' = Made /\ generator'.len <= generator.len
      BY <1>1, CopyInv
    <3> QED BY <3>1 DEF StreamInv, TypeOK, Made
  <2>2. generator.len = Len(builder.text)
    BY <1>3 DEF DocumentInv
  <2>3. n \in 0 .. Len(builder.text) /\ generator'.len = Len(builder.text) - n
    <3> DEFINE x == generator.base
               y == generator'.base
               l == generator.len
               m == generator'.len
    <3>1. x \in Nat /\ y \in Nat /\ l \in Nat /\ m \in Nat /\ m <= l /\ y + m = x + l
      BY <2>1
    <3> HIDE DEF x, y, l, m
    <3>2. y - x \in 0 .. l /\ m = l - (y - x)
      BY <3>1
    <3> QED BY <2>2, <3>2 DEF x, y, l, m
  <2>4. builder \in Builders
    <3>1. CASE kind = "json"
      BY <3>1 DEF DocumentInv, JsonLike, Json, JsonRead
    <3>2. CASE kind = "xml"
      BY <3>2 DEF DocumentInv, XmlLike, Xml, XmlRead
    <3> QED BY <1>3, <3>1, <3>2 DEF DocumentInv
  <2>5. gone' = gone \o SubSeq(builder.text, 1, n)
    BY <1>1, <1>3
  <2> HIDE DEF n
  <2>6. Len(Discard(builder, n).text) = Len(builder.text) - n
    BY <2>3, <2>4, DiscardIs
  <2>7. kind = "json" => JsonLike(gone', builder', doc.calls, doc.nest, doc.keyed, doc.string)
    <3> DEFINE C == doc.calls
               N == doc.nest
               k == doc.keyed
               s == doc.string
    <3>1. kind = "json" => JsonLike(gone, builder, C, N, k, s)
      BY DEF DocumentInv
    <3> HIDE DEF C, N, k, s
    <3>2. kind = "json" =>
            JsonLike(gone \o SubSeq(builder.text, 1, n), Discard(builder, n), C, N, k, s)
      BY <2>3, <3>1, JsonDiscarded DEF JsonLike
    <3> QED BY <1>1, <2>5, <3>2 DEF n, C, N, k, s
  <2>8. kind = "xml" => XmlLike(gone', builder', doc.calls, doc.nest, doc.keyed, doc.string)
    <3> DEFINE C == doc.calls
               N == doc.nest
               k == doc.keyed
               s == doc.string
    <3>1. kind = "xml" => XmlLike(gone, builder, C, N, k, s)
      BY DEF DocumentInv
    <3> HIDE DEF C, N, k, s
    <3>2. kind = "xml" =>
            XmlLike(gone \o SubSeq(builder.text, 1, n), Discard(builder, n), C, N, k, s)
      BY <2>3, <3>1, XmlDiscarded DEF XmlLike
    <3> QED BY <1>1, <2>5, <3>2 DEF n, C, N, k, s
  <2>9. generator'.len = Len(builder'.text)
    BY <1>1, <2>3, <2>6 DEF n
  <2> QED BY <1>1, <1>3, <2>7, <2>8, <2>9 DEF DocumentInv
<1> QED BY <1>2, <1>3

LEMMA DocumentNext ==
  ASSUME StreamInv, DocumentInv, [DocNext]_streamVars
  PROVE  DocumentInv'
<1>1. CASE WritePlain
  <2>1. UNCHANGED docVars /\ (kind # "plain" => generator'.len = generator.len)
    BY <1>1 DEF WritePlain
  <2> QED BY <2>1 DEF DocumentInv, docVars
<1>2. CASE Serve \/ DocDone \/ UNCHANGED streamVars
  <2>1. UNCHANGED docVars /\ UNCHANGED generator
    BY <1>2 DEF Serve, DocDone, streamVars, vars, Callback, EndOfStream, Send, Abort, Done
  <2> QED BY <2>1 DEF DocumentInv, docVars
<1> QED BY <1>1, <1>2, ContainerInv, KeyInv, StringsInv, EscapedInv, LiteralInv, CloseInv,
           IndentInv, FinishInv, ElementInv, AttributeInv, TextInv, CopyDocumentInv DEF DocNext

(* A JSON or XML document that is sent while it is being written, with     *)
(* prefixes of it discarded, is well-formed and reads as the calls that    *)
(* were made, with every character of every value in its place but the     *)
(* ones the builders spoil: control characters that have no escape of      *)
(* their own in JSON, ampersands in XML.  When all is closed it is whole.  *)
THEOREM DocumentReadsAsWritten == DocSpec => []ReadsAsWritten
<1>1. DocSpec => []StreamInv
  BY DocumentStream, StreamCorrect, PTL
<1> QED BY <1>1, DocumentInit, DocumentNext, DocumentReads, PTL DEF DocSpec

=============================================================================
