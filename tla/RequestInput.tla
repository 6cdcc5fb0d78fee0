---------------------------- MODULE RequestInput ----------------------------
(* What the API accepts: http/input.rs and query.rs, with the JavaScript    *)
(* rules of js.rs that they follow.                                         *)
(*                                                                          *)
(* A text is a record of what its parsers tell apart. A JavaScript number   *)
(* is [form, twice]: "finite" with twice its value, so that a half is not   *)
(* whole, or "nan", "plus" or "minus" (the infinities).                     *)
EXTENDS Integers, FiniteSets, Sequences, SequencesExt, FiniteSetsExt, Functions, TLC

CONSTANTS
    MaxHistorySpanDays, MaxWindowMinutes, MaxSafeInteger,
    LastHour,           \* Timestamp::MAX, in hours since 1970
    AreaCodes, ZoneNames,
    CheapestInputs,     \* raw queries: sequences of [name, text]
    HistoryInputs,
    SettingsInputs      \* [contentType, body]

ASSUME RequestInputAssumption ==
    \A n \in {MaxHistorySpanDays, MaxWindowMinutes, MaxSafeInteger, LastHour} :
        n \in Nat \ {0}

VARIABLE received       \* the request, and what its parser made of it

NaN == [form |-> "nan", twice |-> 0]
Finite(twice) == [form |-> "finite", twice |-> twice]
NoRequest == [kind |-> "none"]

----------------------------------------------------------------------------
(* js.rs                                                                    *)

(* string_to_number. `body` is the text without the white space around it:  *)
(* a blank text is 0, and a number in hex, octal or binary has no sign.     *)
StringToNumber(text) ==
    CASE text.body = "blank" -> Finite(0)
      [] text.body \in {"plus", "minus"} -> [form |-> text.body, twice |-> 0]
      [] text.body = "decimal" -> Finite(text.twice)
      [] text.body = "radix" /\ ~text.signed -> Finite(text.twice)
      [] OTHER -> NaN

(* days_from_civil: the days from 1970-01-01 to the first of a month.       *)
DaysFromCivil(year, month) ==
    LET y == IF month <= 2 THEN year - 1 ELSE year
        era == y \div 400
        ofEra == y - era * 400
        ofYear == (153 * ((month + 9) % 12) + 2) \div 5
    IN  era * 146097 + ofEra * 365 + ofEra \div 4 - ofEra \div 100 + ofYear - 719468

(* Mutant: the month goes in as it is written, and Date.UTC counts from 0. *)
MonthAsWritten(month) == month

MonthIndex(month) == month - 1

(* date_utc in days, of the digits of a text: a year below 100 is one of    *)
(* the 1900s, and a month or a day out of range rolls over.                 *)
DateUtc(t) ==
    LET year == IF t.year \in 0..99 THEN 1900 + t.year ELSE t.year
        month == MonthIndex(t.month)
    IN  DaysFromCivil(year + month \div 12, 1 + (month % 12)) + t.day - 1

----------------------------------------------------------------------------
(* Dates and instants (query.rs).                                           *)

IsLeap(year) == year % 4 = 0 /\ (year % 100 # 0 \/ year % 400 = 0)
DaysInMonth(year, month) ==
    IF month = 2 THEN (IF IsLeap(year) THEN 29 ELSE 28)
    ELSE IF month \in {4, 6, 9, 11} THEN 30 ELSE 31

(* parse_iso_date: ten characters that are a date of the calendar. A text   *)
(* is [year, month, day, exact]; one that is not exact has more after them. *)
(* A text without digits is "junk".                                         *)
IsIsoDate(t) ==
    /\ t.digits /\ t.exact
    /\ t.month \in 1..12 /\ t.day \in 1..DaysInMonth(t.year, t.month)

(* compare_utf16 of two texts: digits before junk, a prefix before a longer *)
(* text.                                                                    *)
After(a, b) ==
    LET Key(t) == <<t.year, t.month, t.day, IF t.exact THEN 0 ELSE 1>> IN
    IF a.digits # b.digits THEN ~a.digits
    ELSE \E i \in 1..4 :
           Key(a)[i] > Key(b)[i] /\ \A j \in 1..(i - 1) : Key(a)[j] = Key(b)[j]

(* The decoding of a query value: a plus becomes a space, an escaped plus   *)
(* a plus; parse_query_instant makes a plus of every space.                 *)
DecodeComponent(sign) ==
    CASE sign = "+" -> " " [] sign = "%2B" -> "+" [] OTHER -> sign

SpaceAsPlus(sign) == IF sign = " " THEN "+" ELSE sign

(* parse_query_instant: the offset is "Z", or a sign, hours and minutes. An *)
(* instant after the last timestamp becomes it. Minutes only have to be in  *)
(* their range here: an instant is counted in hours.                        *)
IsInstant(t) ==
    /\ IsIsoDate(t.date)
    /\ t.hour \in 0..23 /\ t.minute \in 0..59
    /\ \/ t.sign = "Z"
       \/ SpaceAsPlus(DecodeComponent(t.sign)) \in {"+", "-"} /\ t.offset \in 0..23

Instant(t) ==
    LET local == (DaysFromCivil(t.date.year, t.date.month) + t.date.day - 1) * 24 + t.hour
        ahead == CASE t.sign = "Z" -> 0
                   [] SpaceAsPlus(DecodeComponent(t.sign)) = "-" -> -t.offset
                   [] OTHER -> t.offset
    IN  Min({local - ahead, LastHour})

----------------------------------------------------------------------------
(* Numbers (query.rs). An issue is [field, kind].                           *)

Issue(field, kind) == [field |-> field, kind |-> kind]
IssueIf(condition, field, kind) == IF condition THEN <<Issue(field, kind)>> ELSE <<>>

(* number_issues; `max` is a set, empty for no upper bound. *)
NumberIssues(field, v, min, max) ==
    IF v.form = "nan" THEN <<Issue(field, "NotANumber")>>
    ELSE IF v.form # "finite" THEN <<Issue(field, "NotFinite")>>
    ELSE IssueIf(v.twice < 2 * min, field, "TooSmall")
           \o IssueIf(\E m \in max : v.twice > 2 * m, field, "TooBig")

IntegerIssues(field, v, min, max) ==
    IF v.form # "finite" THEN NumberIssues(field, v, min, {max})
    ELSE IF v.twice % 2 # 0 THEN <<Issue(field, "NotAnInteger")>>
    ELSE IssueIf(v.twice > 2 * MaxSafeInteger, field, "AboveSafeInteger")
           \o IssueIf(v.twice < -(2 * MaxSafeInteger), field, "BelowSafeInteger")
           \o NumberIssues(field, v, min, {max})

----------------------------------------------------------------------------
(* Query parameters (input.rs).                                             *)

(* Query::get: <<>>, the one value, or more of them. *)
Get(query, name) ==
    LET named == SelectSeq(query, LAMBDA pair : pair.name = name)
    IN  [i \in DOMAIN named |-> named[i].text]

Absent(param) == Len(param) = 0
Many(param) == Len(param) > 1

(* join_issues: by field, in the order of `order`; the issues of one field  *)
(* as they were found, those of the domain first.                           *)
JoinIssues(order, domain, extra) ==
    FlattenSeq([i \in DOMAIN order |->
        SelectSeq(domain \o extra, LAMBDA found : found.field = order[i])])

(* The value when there is no issue of either kind, and else all of them. *)
Answer(order, issues, extra, value) ==
    IF issues = <<>> /\ extra = <<>> THEN [accepted |-> TRUE, value |-> value]
    ELSE [accepted |-> FALSE, issues |-> JoinIssues(order, issues, extra)]

CheapestOrder == <<"duration", "startTime", "endTime", "maxPrice">>

(* parse_cheapest_query of the values; <<>> is an absent one. *)
CheapestIssues(duration, start, end, maxPrice) ==
    IntegerIssues("duration", duration, 1, MaxWindowMinutes)
      \o IssueIf(\E i \in DOMAIN start : ~IsInstant(start[i]), "startTime", "InvalidDateTime")
      \o IssueIf(\E i \in DOMAIN end : ~IsInstant(end[i]), "endTime", "InvalidDateTime")
      \o (IF Absent(maxPrice) THEN <<>>
          ELSE IF maxPrice[1].body = "blank" THEN <<Issue("maxPrice", "MaxPriceEmpty")>>
          ELSE IssueIf(StringToNumber(maxPrice[1]).form # "finite", "maxPrice", "MaxPriceNotFinite"))

(* cheapest_query: an array is never a number, and of any other type than   *)
(* expected.                                                                *)
CheapestQuery(query) ==
    LET duration == Get(query, "duration")
        number == IF Len(duration) = 1 THEN StringToNumber(duration[1]) ELSE NaN
        One(name) == IF Many(Get(query, name)) THEN <<>> ELSE Get(query, name)
        extra == FlattenSeq([i \in 1..3 |->
                   IssueIf(Many(Get(query, CheapestOrder[i + 1])), CheapestOrder[i + 1], "Array")])
        parsed == ("duration" :> number.twice \div 2)
          @@ [field \in {f \in {"startTime", "endTime"} : ~Absent(One(f))} |-> Instant(One(field)[1])]
          @@ [field \in {f \in {"maxPrice"} : ~Absent(One(f))} |-> StringToNumber(One(field)[1])]
        issues == CheapestIssues(number, One("startTime"), One("endTime"), One("maxPrice"))
    IN  Answer(CheapestOrder, issues, extra, parsed)

(* inclusive_day_span; a text without digits has no span. *)
InclusiveDaySpan(from, to) == DateUtc(to) - DateUtc(from) + 1

DateIssues(field, text) ==
    IF Absent(text) THEN <<Issue(field, "Missing")>>
    ELSE IssueIf(~IsIsoDate(text[1]), field, "InvalidDate")

(* parse_history_query: the order and the span are checked on the raw texts *)
(* when both are there.                                                     *)
HistoryIssues(from, to) ==
    DateIssues("from", from) \o DateIssues("to", to)
      \o (IF Absent(from) \/ Absent(to) THEN <<>>
          ELSE IssueIf(After(from[1], to[1]), "from", "FromAfterTo")
                 \o IssueIf(~(from[1].digits /\ to[1].digits)
                              \/ InclusiveDaySpan(from[1], to[1]) > MaxHistorySpanDays,
                            "to", "SpanTooLong"))

(* history_query: an array stops the order and span checks. *)
HistoryQuery(query) ==
    LET from == Get(query, "from")
        to == Get(query, "to")
        Typed(field, text) == IF Many(text) THEN <<>> ELSE DateIssues(field, text)
        issues == HistoryIssues(from, to)
    IN  IF ~Many(from) /\ ~Many(to)
          THEN IF issues = <<>> THEN [accepted |-> TRUE, value |-> [from |-> from[1], to |-> to[1]]]
               ELSE [accepted |-> FALSE, issues |-> issues]
          ELSE [accepted |-> FALSE,
                issues |-> JoinIssues(<<"from", "to">>, Typed("from", from) \o Typed("to", to),
                             IssueIf(Many(from), "from", "Array") \o IssueIf(Many(to), "to", "Array"))]

----------------------------------------------------------------------------
(* The settings body (input.rs, query.rs).                                  *)

Money == {"marginCentsKwh", "transferDayCentsKwh", "transferNightCentsKwh", "taxCentsKwh"}
Hours == {"nightStartHour", "nightEndHour"}
SettingsOrder ==
    <<"marginCentsKwh", "transferDayCentsKwh", "transferNightCentsKwh", "taxCentsKwh",
      "vatPercent", "nightStartHour", "nightEndHour", "timezone", "area">>

(* openapi_json_type reads the type as it is written, hono_json_type in     *)
(* lower case and to its end; a body that either does not know is ignored.  *)
OpenapiJsonType(type) == type.subtype \in {"json", "x+json", "jsonp"}
HonoJsonType(type) ==
    type.subtype \in {"json", "JSON", "x+json"} /\ type.parameters \in {"none", "valid"}

(* js_number: a number, also one out of the range of doubles. *)
IsNumber(json) == json.type = "number"

(* validate_settings_update of one field that has its JSON type. *)
FieldIssues(field, json) ==
    CASE field \in Money -> NumberIssues(field, json.number, 0, {})
      [] field = "vatPercent" -> NumberIssues(field, json.number, 0, {100})
      [] field \in Hours -> IntegerIssues(field, json.number, 0, 23)
      [] field = "timezone" -> IssueIf(json.text \notin ZoneNames, field, "UnknownTimezone")
      [] field = "area" -> IssueIf(json.text \notin AreaCodes, field, "UnknownArea")

HasItsType(field, json) ==
    IF field \in {"timezone", "area"} THEN json.type = "string" ELSE IsNumber(json)

WrongType(field) ==
    Issue(field, CASE field = "timezone" -> "UnknownTimezone"
                   [] field = "area" -> "UnknownArea" [] OTHER -> "WrongType")

(* settings_update: unknown fields are not looked at. *)
SettingsUpdate(object) ==
    LET known == SelectSeq(SettingsOrder, LAMBDA field : field \in DOMAIN object)
        typed == SelectSeq(known, LAMBDA field : HasItsType(field, object[field]))
        untyped == SelectSeq(known, LAMBDA field : ~HasItsType(field, object[field]))
    IN  Answer(SettingsOrder,
               FlattenSeq([i \in DOMAIN typed |-> FieldIssues(typed[i], object[typed[i]])]),
               [i \in DOMAIN untyped |-> WrongType(untyped[i])],
               Restrict(object, ToSet(known)))

SettingsBody(input) ==
    IF input.contentType.subtype = "absent" \/ ~OpenapiJsonType(input.contentType)
         \/ ~HonoJsonType(input.contentType)
      THEN [accepted |-> TRUE, value |-> <<>>]
    ELSE CASE input.body.type = "malformed" -> [accepted |-> FALSE, issues |-> <<Issue("body", "Malformed")>>]
           [] input.body.type = "object" -> SettingsUpdate(input.body.fields)
           [] OTHER -> [accepted |-> FALSE, issues |-> <<Issue("body", "NotAnObject")>>]

----------------------------------------------------------------------------
InputInit == received = NoRequest

Cheapest(query) ==
    received' = [kind |-> "cheapest", input |-> query, answer |-> CheapestQuery(query)]
History(query) ==
    received' = [kind |-> "history", input |-> query, answer |-> HistoryQuery(query)]
Settings(input) ==
    received' = [kind |-> "settings", input |-> input, answer |-> SettingsBody(input)]

InputNext ==
    /\ received = NoRequest
    /\ \/ \E query \in CheapestInputs : Cheapest(query)
       \/ \E query \in HistoryInputs : History(query)
       \/ \E input \in SettingsInputs : Settings(input)

----------------------------------------------------------------------------
(* What the contract calls valid, said without the code.                    *)

WholeIn(v, least, most) == v.form = "finite" /\ \E n \in least..most : v.twice = 2 * n

WrongInCheapest(query) ==
    LET One(name) == Len(Get(query, name)) = 1
        Right(field) ==
          CASE field = "duration" ->
                 One(field) /\ WholeIn(StringToNumber(Get(query, field)[1]), 1, MaxWindowMinutes)
            [] field \in {"startTime", "endTime"} ->
                 One(field) => IsInstant(Get(query, field)[1])
            [] field = "maxPrice" ->
                 One(field) => LET text == Get(query, field)[1] IN
                   text.body # "blank" /\ StringToNumber(text).form = "finite"
    IN  {field \in ToSet(CheapestOrder) :
           ~Right(field) \/ Many(Get(query, field))}

WrongInSettings(object) ==
    LET Right(field, json) ==
          CASE field \in Money -> json.type = "number" /\ json.number.form = "finite" /\ json.number.twice >= 0
            [] field = "vatPercent" ->
                 json.type = "number" /\ json.number.form = "finite" /\ json.number.twice \in 0..200
            [] field \in Hours -> json.type = "number" /\ WholeIn(json.number, 0, 23)
            [] field = "timezone" -> json.type = "string" /\ json.text \in ZoneNames
            [] field = "area" -> json.type = "string" /\ json.text \in AreaCodes
    IN  {field \in ToSet(SettingsOrder) \cap DOMAIN object : ~Right(field, object[field])}

NextDay(d) ==
    IF d.day < DaysInMonth(d.year, d.month) THEN [d EXCEPT !.day = @ + 1]
    ELSE IF d.month < 12 THEN [d EXCEPT !.day = 1, !.month = @ + 1]
    ELSE [d EXCEPT !.day = 1, !.month = 1, !.year = @ + 1]

\* The days of the longest history that begins on a day.
HistoryFrom(d) ==
    ToSet(FoldLeft(LAMBDA days, i : Append(days, NextDay(Last(days))), <<d>>,
                   [i \in 1..(MaxHistorySpanDays - 1) |-> i]))

(* The years below 100 are left out: their span is that of the 1900s, so    *)
(* that a history from 0050 to 0150 is accepted.                            *)
IsHistory(from, to) ==
    /\ Len(from) = 1 /\ Len(to) = 1
    /\ IsIsoDate(from[1]) /\ IsIsoDate(to[1])
    /\ to[1] \in HistoryFrom(from[1])

InOrder(order, issues) ==
    \A i, j \in DOMAIN issues :
      i < j => \E m, n \in DOMAIN order :
        order[m] = issues[i].field /\ order[n] = issues[j].field /\ m <= n

Reports(answer, order, wrong, given) ==
    IF wrong = {} THEN answer.accepted /\ DOMAIN answer.value = given
    ELSE /\ ~answer.accepted
         /\ {found.field : found \in ToSet(answer.issues)} = wrong
         /\ InOrder(order, answer.issues)

(* A request is accepted exactly when every field is right, and otherwise   *)
(* each wrong field, and no other, is reported, in the order of the fields  *)
(* (query.rs: "A request with several problems reports every issue in field *)
(* order"); a history is accepted exactly when its last day is one of the   *)
(* 31 from its first (parse_history_query). The order and span checks of a  *)
(* history come last, so its issues need not be in field order.             *)
AcceptsExactlyWhatIsValid ==
    CASE received.kind = "cheapest" ->
           Reports(received.answer, CheapestOrder, WrongInCheapest(received.input),
                   {pair.name : pair \in ToSet(received.input)})
      [] received.kind = "settings" ->
           received.input.contentType.subtype = "json" /\ received.input.body.type = "object" =>
             LET object == received.input.body.fields IN
             Reports(received.answer, SettingsOrder, WrongInSettings(object),
                     DOMAIN object \cap ToSet(SettingsOrder))
      [] received.kind = "history" ->
           LET from == Get(received.input, "from")
               to == Get(received.input, "to")
           IN  (\A text \in ToSet(from) \union ToSet(to) : text.digits => text.year >= 100) =>
                 (received.answer.accepted <=> IsHistory(from, to))
      [] OTHER -> TRUE
=============================================================================
