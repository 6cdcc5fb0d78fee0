------------------------------ MODULE Upstream ------------------------------
(***************************************************************************)
(* The HTTP side of the upstream clients (crates/server/src/upstream): the *)
(* replies that a request can meet and what each adapter makes of them.    *)
(* The content of a body is reduced to what the adapters tell apart; a     *)
(* chunk is its size, in parts of the largest accepted body.               *)
(***************************************************************************)
EXTENDS Integers, Sequences, SequencesExt

CONSTANTS
    MaxBody,         \* max_body_bytes
    RequestTimeout   \* request_timeout of one attempt with its body, in seconds

ASSUME UpstreamAssumption ==
    /\ MaxBody \in Nat \ {0}
    /\ RequestTimeout \in Nat

\* content_length when the reply does not declare it.
Undeclared == -1

\* TransportError without BodyTooLarge, which only the reader of a body finds.
NetworkErrors == {"timeout", "connect", "request"}

\* "blank" is a body of no bytes; an item that is invalid leaves the envelope
\* valid.
Contents == {"blank", "not_json", "bad_envelope", "bad_item", "valid"}

\* What the network can answer: an error, a status without a body of
\* interest, or a body that arrives in chunks and may break off.
Replies ==
    [kind : {"error"}, error : NetworkErrors]
    \cup [kind : {"status"}, status : {204, 302, 401, 403, 404, 422, 500}]
    \cup [kind : {"body"}, declared : {Undeclared, MaxBody, MaxBody + 1},
          chunks : {<<>>, <<MaxBody>>, <<MaxBody, 1>>, <<1, MaxBody - 1>>},
          cut : {"none", "timeout", "request"}, content : Contents]

\* The bytes of all the chunks.
BodySize(reply) == FoldLeft(LAMBDA a, b : a + b, 0, reply.chunks)

\* HttpClient::read_body: a declared length over the limit is refused at once;
\* otherwise the chunks are added up until one would pass the limit.
ReadBody(reply) ==
    LET size == BodySize(reply)
        tooLarge == reply.declared > MaxBody \/ size > MaxBody
    IN  CASE tooLarge -> [ok |-> FALSE, error |-> "body_too_large"]
          [] ~tooLarge /\ reply.cut # "none" ->
               [ok |-> FALSE, error |-> reply.cut]
          [] OTHER ->
               [ok |-> TRUE,
                content |-> IF size = 0 THEN "blank" ELSE reply.content]

Transport(reply) == reply.kind = "error"
NotSuccess(reply) == reply.kind = "status" /\ reply.status # 204

\* A reply 204 has a success status and a body of no bytes.
BodyOf(reply) ==
    IF reply.kind = "status" THEN [ok |-> TRUE, content |-> "blank"]
                             ELSE ReadBody(reply)

-----------------------------------------------------------------------------
(* Fingrid: one invalid item fails the response; there is no retry.        *)

ParseSeries(content) ==
    IF content = "valid" THEN "series" ELSE "degraded"

FetchDatasets(reply) ==
    CASE Transport(reply) \/ NotSuccess(reply) -> "degraded"
      [] OTHER -> LET body == BodyOf(reply)
                  IN  IF body.ok THEN ParseSeries(body.content) ELSE "degraded"

FingridOutcomes == {FetchDatasets(reply) : reply \in Replies}

-----------------------------------------------------------------------------
(* OpenWeatherMap: the hourly and the daily block of one body are checked  *)
(* on their own.  "bad_item" is an invalid hourly entry, "bad_envelope" a  *)
(* missing hourly block; the daily block has a validity of its own.        *)

WeatherDegraded == [hourly |-> FALSE, daily |-> FALSE]

ParseHourly(content) == content = "valid"

ParseDaily(content, dailyValid) == content \notin {"blank", "not_json"} /\ dailyValid

ParseWeather(content, dailyValid) ==
    IF content \in {"blank", "not_json"} THEN WeatherDegraded
    ELSE [hourly |-> ParseHourly(content),
          daily |-> ParseDaily(content, dailyValid)]

FetchWeather(reply, dailyValid) ==
    CASE Transport(reply) \/ NotSuccess(reply) -> WeatherDegraded
      [] OTHER -> LET body == BodyOf(reply)
                  IN  IF body.ok THEN ParseWeather(body.content, dailyValid)
                                 ELSE WeatherDegraded

WeatherOutcomes ==
    {FetchWeather(reply, valid) : reply \in Replies, valid \in BOOLEAN}

-----------------------------------------------------------------------------
(* Nord Pool: an unpublished day is an empty answer, an invalid entry is   *)
(* left out, and an unexpected body has drifted.                           *)

ParseDayAhead(content) ==
    CASE content = "blank" -> "unpublished"
      [] content \in {"not_json", "bad_envelope"} -> "drift"
      [] content = "bad_item" -> "holed"
      [] content = "valid" -> "whole"

Attempt(reply) ==
    CASE reply.kind = "status" /\ reply.status \in {204, 404} -> "unpublished"
      [] Transport(reply) \/ (NotSuccess(reply) /\ reply.status # 404) -> "failed"
      [] OTHER -> LET body == ReadBody(reply)
                  IN  IF body.ok THEN ParseDayAhead(body.content) ELSE "failed"

NordPoolOutcomes == {Attempt(reply) : reply \in Replies}

=============================================================================
