-------------------------- MODULE GeneratorStream --------------------------
(***************************************************************************)
(* A response made by a response_generator, from generate() to the socket: *)
(* generator_callback of the REST server, which asks the generator for     *)
(* data and copies it, and the buffer of the response, which the write     *)
(* handler of the connection sends from (try_ready_normal_body).           *)
(*                                                                         *)
(* A byte is its position in the whole output of the generator, so current *)
(* data are an interval of positions.  The generator itself is the         *)
(* environment.  The request is not a HEAD request.                        *)
(***************************************************************************)
EXTENDS Integers

CONSTANTS
  MinGenerated,   \* min_generated of the server
  BufferSize,     \* the data buffer of the response, 32 kB in the code
  Pieces,         \* how many bytes one generate() may add
  MaxPrefill,     \* bound: bytes the generator holds before the first generate()
  MaxMade         \* bound: bytes the generator makes

ASSUME GeneratorAssumption ==
  /\ MinGenerated \in Nat
  /\ BufferSize \in Nat \ {0}
  /\ Pieces \subseteq Nat
  /\ MaxPrefill \in Nat /\ MaxMade \in Nat

VARIABLES
  pc,                 \* where the thread of the connection is
  generator,          \* the service's generator: current() is [base, base + len)
  generator_end,
  generator_offset,
  data,               \* data_start and data_size of the response; from is the byte at data[0]
  response_write_position

vars == <<pc, generator, generator_end, generator_offset, data, response_write_position>>

Init ==
  /\ pc = "send"
  /\ \E n \in 0 .. MaxPrefill : generator = [base |-> 0, len |-> n, finished |-> FALSE]
  /\ generator_end = FALSE
  /\ generator_offset = 0
  /\ data = [start |-> 0, size |-> 0, from |-> 0]
  /\ response_write_position = 0

Made == generator.base + generator.len
Unsent == generator.len - generator_offset
Minimum == IF MinGenerated < BufferSize THEN MinGenerated ELSE BufferSize

(* The byte the write handler is to send next is in the buffer.            *)
Ready ==
  /\ data.start <= response_write_position
  /\ data.start + data.size > response_write_position

-----------------------------------------------------------------------------
(* try_ready_normal_body calls generator_callback.                         *)
Callback ==
  /\ pc = "send" /\ ~Ready
  /\ pc' = "callback"
  /\ UNCHANGED <<generator, generator_end, generator_offset, data, response_write_position>>

MutWantsMore == Unsent < Minimum   \* bug: generator_end is not looked at

WantsMore == Unsent < Minimum /\ ~generator_end

(* One turn of the loop that calls generate().                             *)
Generate ==
  /\ pc = "callback" /\ WantsMore
  /\ \E n \in Pieces, more \in BOOLEAN :
       /\ Made + n <= MaxMade
       /\ generator' = [generator EXCEPT !.len = @ + n, !.finished = ~more]
       /\ generator_end' = ~more
  /\ UNCHANGED <<pc, generator_offset, data, response_write_position>>

(* No data are left: the connection closes, the response is complete.      *)
EndOfStream ==
  /\ pc = "callback" /\ ~WantsMore /\ Unsent <= 0
  /\ pc' = "completed"
  /\ UNCHANGED <<generator, generator_end, generator_offset, data, response_write_position>>

MutConsume(n) ==   \* bug: the offset is not reset
  /\ generator' = [generator EXCEPT !.base = @ + n, !.len = @ - n]
  /\ generator_offset' = n

(* consume(n) drops the first n bytes of the generator's data.             *)
Consume(n) ==
  /\ generator' = [generator EXCEPT !.base = @ + n, !.len = @ - n]
  /\ generator_offset' = 0

MutEager(n) == TRUE                   \* bug: consumed after every piece

(* Few enough data are left after n bytes have been copied to drop the     *)
(* ones that were copied.                                                  *)
DropCopied(n) == Unsent - n < Minimum

Copied == IF Unsent < BufferSize THEN Unsent ELSE BufferSize

Copy ==
  /\ pc = "callback" /\ ~WantsMore /\ Unsent > 0
  /\ data' = [start |-> response_write_position, size |-> Copied,
              from |-> generator.base + generator_offset]
  /\ IF DropCopied(Copied)
       THEN Consume(generator_offset + Copied)
       ELSE /\ generator_offset' = generator_offset + Copied
            /\ UNCHANGED generator
  /\ pc' = "send"
  /\ UNCHANGED <<generator_end, response_write_position>>

(* The write handler sends a part of what the buffer holds.                *)
Send ==
  /\ pc = "send" /\ Ready
  /\ \E n \in 1 .. data.start + data.size - response_write_position :
       response_write_position' = response_write_position + n
  /\ UNCHANGED <<pc, generator, generator_end, generator_offset, data>>

(* The connection fails or times out.                                      *)
Abort ==
  /\ pc = "send"
  /\ pc' = "aborted"
  /\ UNCHANGED <<generator, generator_end, generator_offset, data, response_write_position>>

Done == pc \in {"completed", "aborted"} /\ UNCHANGED vars

Next == Callback \/ Generate \/ EndOfStream \/ Copy \/ Send \/ Abort \/ Done

Spec == Init /\ [][Next]_vars

(* The thread runs and the client reads.                                   *)
FairSpec == Spec /\ WF_vars(Callback \/ EndOfStream \/ Copy \/ Send)

-----------------------------------------------------------------------------
(* The type invariant.                                                     *)
TypeOK ==
  /\ pc \in {"send", "callback", "completed", "aborted"}
  /\ generator \in [base: Nat, len: Nat, finished: BOOLEAN]
  /\ generator_end \in BOOLEAN
  /\ generator_offset \in Nat
  /\ data \in [start: Nat, size: 0 .. BufferSize, from: Nat]
  /\ response_write_position \in Nat

(* Every byte is sent once and in its place: the byte at position p of the *)
(* response body is byte p of the generator's output.                      *)
InOrder == Ready => data.from - data.start = 0

(* The generator is asked for more only while it holds nothing that has    *)
(* been sent, so it never holds more than the minimum and one piece.       *)
HeldIsBounded ==
  \/ generator.len <= MaxPrefill
  \/ \E n \in Pieces : generator.len < Minimum + n

(* "It is guaranteed generate is never called again after returning false" *)
NeverAfterEnd == [][generator.finished => Made' = Made]_vars

(* "When consume is called, it is guaranteed that length >=                *)
(* current().len / 2": the copies a generator makes stay linear.           *)
ConsumesHalf ==
  [][generator'.base # generator.base
       => 2 * (generator'.base - generator.base) >= generator.len]_vars

(* generate() "Returns false if there are no more data to be generated and *)
(* the end of the response has been reached": a response is complete only  *)
(* then, and with every byte sent.                                         *)
CompleteAtEnd ==
  pc = "completed" => generator.finished /\ response_write_position = Made

(* A generator that has come to its end has its response completed, unless *)
(* the connection fails.                                                   *)
Finishes == generator.finished ~> pc \in {"completed", "aborted"}

(* The inductive invariant behind all of these: what has been copied out   *)
(* of the generator is what the write position and the buffer stand for,   *)
(* and nothing that has been copied is held while more is to be made.      *)
Placed ==
  /\ generator_offset <= generator.len
  /\ generator_offset = 0 \/ Unsent >= Minimum
  /\ generator_end = generator.finished
  /\ data.from = data.start
  /\ data.start <= response_write_position
  /\ response_write_position <= data.start + data.size
  /\ generator.base + generator_offset = data.start + data.size
  /\ pc = "callback" => ~Ready

(* The response as OutputStream describes it.                              *)
Stream == INSTANCE OutputStream
            WITH made <- Made, finished <- generator.finished,
                 sent <- response_write_position, closed <- (pc = "completed")

ImplementsStream == Stream!Spec
=============================================================================
