-------------------------------- MODULE Tracing --------------------------------
(***************************************************************************)
(* Calls of methods decorated with @Traced of nestjs-open-telemetry and    *)
(* @Instrument of nestjs-shared, or running in WithSpan: their spans, the  *)
(* active context, and what is counted.                                    *)
(*                                                                         *)
(* Code runs on one stack.  A method that awaits leaves it and is resumed  *)
(* from the event loop with an empty stack; the handlers that the          *)
(* decorators chain to a promise run there too.  The context of a call is  *)
(* named by the call whose span is active in it.                           *)
(*                                                                         *)
(* A method has the fields                                                 *)
(*   span       "traced" (outside @Instrument), "withSpan" (in the body)   *)
(*              or "none"                                                  *)
(*   returns    "value", "promise", or "thenable" (not instanceof Promise) *)
(*   timing, counters, errorCounters   the options of @Instrument, lists   *)
(*              of names; all empty without it                             *)
(*   labels     the lists of keys that Labels may give for its arguments   *)
(*   args       its arguments, result what it returns (an object, if a     *)
(*              thenable); see SanitizeArgument                            *)
(*   captureReturn                                                         *)
(* and a call                                                              *)
(*   body       "idle" | "refused" (a conflict of descriptors) |           *)
(*              "running" | "suspended" | "ended"                          *)
(*   did        what the method did: "none" | "ok" | "error"               *)
(*   counting   the registry was there when it was called                  *)
(*   handled    what the handlers of @Instrument took it for               *)
(*   awaited    it has awaited                                             *)
(*   told       what the caller was told                                   *)
(*   ctx        the span that is active while it runs                      *)
(***************************************************************************)
EXTENDS Naturals, FiniteSets, SequencesExt

CONSTANTS
  Calls, NoCall,
  Methods,      \* names of methods
  Decorated,    \* Decorated[m]: see above
  Metrics,      \* names of metrics
  MaxListed,    \* MAX_ARRAY_LENGTH_FOR_LOGGING
  MaxMarks      \* bound on what a call logs

\* What a method is given and returns; see SanitizeArgument.  What looks like the number
\* of a card has sixteen digits.
Digits == {d \in Seq(0 .. 9) : Len(d) \in {0, 16}}
Texts == [is : {"text"}, personal : BOOLEAN, digits : Digits]
Items == Texts \cup [is : {"number"}, digits : Digits] \cup [is : {"boolean", "object", "function", "null"}]
Arguments == Items \cup [is : {"list"}, items : Seq(Items)]

\* The names that a method registers, in order.
Named(m) == Decorated[m].timing \o Decorated[m].counters \o Decorated[m].errorCounters

\* No list of names has one twice.
ASSUME TracingAssumption ==
  /\ NoCall \notin Calls /\ IsFiniteSet(Calls)
  /\ \A m \in Methods :
       /\ \A names \in {Decorated[m].timing, Decorated[m].counters, Decorated[m].errorCounters} :
            names \in Seq(Metrics) /\ IsInjective(names)
       /\ Decorated[m].span \in {"traced", "withSpan", "none"}
       /\ Decorated[m].returns \in {"value", "promise", "thenable"}
       /\ ToSet(Decorated[m].args) \cup {Decorated[m].result} \subseteq Arguments

VARIABLES
  holder,       \* InstrumentationRegistryHolder has an instance
  descriptors,  \* Descriptors of the registry: [help, type, labelNames] of each name
  recorded,     \* history: how often a metric was recorded
  stack, calls, spans,
  marks         \* history: the spans that what a call logged or set attributes on was given to

tracingVars == <<holder, descriptors, recorded, stack, calls, spans, marks>>

NoDescriptor == [help |-> "none", type |-> "none", labelNames |-> <<>>]
NoSpan == [state |-> "none", parent |-> NoCall, status |-> "unset", ends |-> 0, shown |-> {}]
IdleCall == [body |-> "idle", method |-> "none", parent |-> NoCall, labels |-> <<>>, did |-> "none",
             awaited |-> FALSE, counting |-> FALSE, handled |-> "none", told |-> "none", ctx |-> NoCall]

TracingInit ==
  /\ holder \in BOOLEAN
  /\ descriptors = [n \in Metrics |-> NoDescriptor]
  /\ recorded = [n \in Metrics |-> 0]
  /\ stack = <<>>
  /\ calls = [c \in Calls |-> IdleCall]
  /\ spans = [c \in Calls |-> NoSpan]
  /\ marks = [c \in Calls |-> <<>>]

\* context.active() and trace.getSpan of it, in the code at the top of the stack.
Active == IF stack = <<>> THEN NoCall ELSE calls[Last(stack)].ctx
Top == IF stack = <<>> THEN NoCall ELSE Last(stack)
MethodOf(c) == Decorated[calls[c].method]

-----------------------------------------------------------------------------
(* Arguments.  A value is [is |-> "text", personal |-> it holds an address, *)
(* a telephone or a social security number, digits |-> what looks like the  *)
(* number of a card beside them, or <<>>], [is |-> "number", digits |-> of  *)
(* one with sixteen, or <<>>], [is |-> "list", items], or without detail a  *)
(* "boolean", an "object", a "function", or "null" (undefined is one).  No  *)
(* text is so long that it is cut.                                          *)

Nothing == [is |-> "nothing"]
Word == [is |-> "text", personal |-> FALSE, digits |-> <<>>]

\* The digits from right to left, every second one doubled.
IsValidCreditCard(digits) ==
  LET n == Len(digits)
      doubled(d) == IF 2 * d > 9 THEN 2 * d - 9 ELSE 2 * d
      sum == FoldLeftDomain(LAMBDA acc, i :
               acc + (IF (n - i) % 2 = 1 THEN doubled(digits[i]) ELSE digits[i]), 0, digits)
  IN n \in 13 .. 19 /\ sum % 10 = 0

\* A number that fails the check of a card is left as it is.
DetectAndRedactPII(text) ==
  [text EXCEPT !.personal = FALSE, !.digits = IF IsValidCreditCard(@) THEN <<>> ELSE @]

\* A list that is shown item by item.
IsSimple(arg) == Len(arg.items) <= MaxListed /\ \A k \in DOMAIN arg.items : arg.items[k].is \in {"text", "number"}

\* Mutant of SanitizeArgument: the items of a list are shown as they are.
SanitizeTextOnly(arg) ==
  CASE arg.is = "text" -> DetectAndRedactPII(arg)
    [] arg.is = "null" -> Word
    [] arg.is = "object" -> [is |-> "size"]
    [] arg.is \in {"list", "number", "boolean"} -> arg
    [] OTHER -> Nothing

\* Numbers and booleans are shown as they are, 'null' and 'undefined' as words, of objects
\* and of other lists how large they are, and a function not at all.
SanitizeArgument(arg) ==
  CASE arg.is = "text" -> DetectAndRedactPII(arg)
    [] arg.is \in {"number", "boolean"} -> arg
    [] arg.is = "null" -> Word
    [] arg.is = "list" /\ IsSimple(arg) ->
         [arg EXCEPT !.items = [k \in DOMAIN @ |-> IF @[k].is = "text" THEN DetectAndRedactPII(@[k]) ELSE @[k]]]
    [] arg.is = "list" /\ ~ IsSimple(arg) -> [is |-> "size"]
    [] arg.is = "object" -> [is |-> "size"]
    [] OTHER -> Nothing

-----------------------------------------------------------------------------
(* Spans                                                                    *)

\* Mutant of SpanContext: makeActive is false.
SpanContextKept(c, m) == IF Decorated[m].span = "traced" THEN c ELSE Active

\* The context in which @Traced or WithSpan runs the method.
SpanContext(c, m) == IF Decorated[m].span = "none" THEN Active ELSE c

\* What is shown of the arguments of a method: those that can be.
Sanitized(m) == {SanitizeArgument(a) : a \in ToSet(Decorated[m].args)} \ {Nothing}

Started(m) ==
  CASE Decorated[m].span = "none" -> NoSpan
    [] Decorated[m].span = "withSpan" -> [NoSpan EXCEPT !.state = "open", !.parent = Active]
    [] Decorated[m].span = "traced" ->
         [NoSpan EXCEPT !.state = "open", !.parent = Active,
                        !.shown = Sanitized(m)]

\* The value returned, Span.setStatus, and Span.end in its finally.
Ended(c, outcome) ==
  LET m == calls[c].method
      result == IF outcome = "ok" /\ Decorated[m].span = "traced" /\ Decorated[m].captureReturn
                THEN {SanitizeArgument(Decorated[m].result)} \ {Nothing} ELSE {}
  IN IF spans[c].state = "none" THEN spans[c]
     ELSE [spans[c] EXCEPT !.state = "ended", !.status = outcome, !.ends = spans[c].ends + 1,
                          !.shown = spans[c].shown \cup result]

-----------------------------------------------------------------------------
(* @Instrument                                                              *)

\* The descriptors that a call registers, in order: help names the method, and says like
\* the type whether a duration, a success or an error is recorded.
Descriptor(m, k, labels) ==
  LET timed == Len(Decorated[m].timing)
      type == IF k <= timed THEN "histogram"
              ELSE IF k <= timed + Len(Decorated[m].counters) THEN "counter" ELSE "errorCounter"
  IN [help |-> m, type |-> type, labelNames |-> labels]

\* The places of the names that another method, another list of labels, or another option
\* of this one took before.
Conflicts(m, labels) ==
  {k \in DOMAIN Named(m) :
     \/ descriptors[Named(m)[k]] \notin {NoDescriptor, Descriptor(m, k, labels)}
     \/ \E j \in 1 .. k - 1 : Named(m)[j] = Named(m)[k]}

\* What RegisterDescriptor has stored of the names before place k, where it throws.
RegisteredBefore(m, labels, k) ==
  [n \in Metrics |->
     LET places == {j \in 1 .. k - 1 : Named(m)[j] = n}
     IN IF descriptors[n] = NoDescriptor /\ places # {}
        THEN Descriptor(m, CHOOSE j \in places : TRUE, labels) ELSE descriptors[n]]
Registered(m, labels) == RegisteredBefore(m, labels, Len(Named(m)) + 1)

\* What a call of the method is recorded in: its duration too only when it succeeds.
Recorders(c, outcome) ==
  ToSet(IF outcome = "ok" THEN MethodOf(c).timing \o MethodOf(c).counters ELSE MethodOf(c).errorCounters)

\* Mutant of Counted: counters are recorded when the method ends, like durations should be.
CountedFinally(c, outcome) ==
  IF ~ calls[c].counting THEN recorded
  ELSE [n \in Metrics |-> recorded[n] + (IF n \in ToSet(MethodOf(c).counters) \cup Recorders(c, outcome) THEN 1 ELSE 0)]

\* HandleSuccess and HandleError.
Counted(c, outcome) ==
  IF ~ calls[c].counting THEN recorded
  ELSE [n \in Metrics |-> recorded[n] + (IF n \in Recorders(c, outcome) THEN 1 ELSE 0)]

-----------------------------------------------------------------------------
(* Calls                                                                    *)

\* The code at the top of the stack, or the framework, calls method m.  A conflict of
\* descriptors throws before the method runs.
Invoke(c, m, labels) ==
  /\ calls[c].body = "idle" /\ labels \in Decorated[m].labels
  /\ LET call == [IdleCall EXCEPT !.method = m, !.parent = Top, !.labels = labels,
                                  !.counting = holder]
     IN IF call.counting /\ Conflicts(m, labels) # {}
        THEN /\ calls' = [calls EXCEPT ![c] = [call EXCEPT !.body = "refused", !.told = "error"]]
             /\ spans' = [spans EXCEPT ![c] =
                  IF Decorated[m].span = "traced"
                  THEN [Started(m) EXCEPT !.state = "ended", !.status = "error", !.ends = 1] ELSE NoSpan]
             /\ descriptors' = RegisteredBefore(m, labels, Min(Conflicts(m, labels)))
             /\ UNCHANGED stack
        ELSE /\ calls' = [calls EXCEPT ![c] = [call EXCEPT !.body = "running", !.ctx = SpanContext(c, m)]]
             /\ spans' = [spans EXCEPT ![c] = Started(m)]
             /\ descriptors' = IF call.counting THEN Registered(m, labels) ELSE descriptors
             /\ stack' = Append(stack, c)
  /\ UNCHANGED <<holder, recorded, marks>>

\* What the decorators do with a result that is no Promise, or with what was thrown.
Tell(c, outcome) ==
  /\ recorded' = Counted(c, outcome)
  /\ spans' = [spans EXCEPT ![c] = Ended(c, outcome)]
  /\ UNCHANGED <<holder, descriptors, marks>>

\* The method awaits for the first time.  A promise is waited for, a thenable is taken
\* for a value.
Suspend(c) ==
  /\ Top = c /\ MethodOf(c).returns # "value" /\ ~ calls[c].awaited
  /\ stack' = Front(stack)
  /\ IF MethodOf(c).returns = "thenable"
     THEN /\ calls' = [calls EXCEPT ![c].body = "suspended", ![c].awaited = TRUE, ![c].handled = "ok"]
          /\ Tell(c, "ok")
     ELSE /\ calls' = [calls EXCEPT ![c].body = "suspended", ![c].awaited = TRUE]
          /\ UNCHANGED <<holder, descriptors, recorded, spans, marks>>

\* The event loop goes on with the method in the context that it had.
Resume(c) ==
  /\ stack = <<>> /\ calls[c].body = "suspended"
  /\ stack' = <<c>>
  /\ calls' = [calls EXCEPT ![c].body = "running"]
  /\ UNCHANGED <<holder, descriptors, recorded, spans, marks>>

\* The method returns or throws; one that gives a thenable does not return before.
Finish(c, outcome) ==
  /\ Top = c
  /\ MethodOf(c).returns = "thenable" /\ outcome = "ok" => calls[c].awaited
  /\ stack' = Front(stack)
  /\ IF MethodOf(c).returns # "promise" /\ ~ calls[c].awaited
     THEN /\ calls' = [calls EXCEPT ![c].body = "ended", ![c].did = outcome,
                                   ![c].handled = outcome, ![c].told = outcome]
          /\ Tell(c, outcome)
     ELSE /\ calls' = [calls EXCEPT ![c].body = "ended", ![c].did = outcome,
                         ![c].told = IF MethodOf(c).returns = "thenable" THEN outcome ELSE "none"]
          /\ UNCHANGED <<holder, descriptors, recorded, spans, marks>>

\* The promise has settled: the handlers of @Instrument.
HandleInstrument(c) ==
  /\ stack = <<>> /\ calls[c].body = "ended" /\ calls[c].handled = "none"
  /\ calls' = [calls EXCEPT ![c].handled = calls[c].did]
  /\ recorded' = Counted(c, calls[c].did)
  /\ UNCHANGED <<holder, descriptors, stack, spans, marks>>

\* Then those of @Traced, whose promise the caller has.
HandleTraced(c) ==
  /\ stack = <<>> /\ calls[c].body = "ended" /\ calls[c].handled # "none"
  /\ calls[c].told = "none"
  /\ calls' = [calls EXCEPT ![c].told = calls[c].did]
  /\ spans' = [spans EXCEPT ![c] = Ended(c, calls[c].did)]
  /\ UNCHANGED <<holder, descriptors, recorded, stack, marks>>

Mark(c, what) ==
  /\ Top = c /\ Len(marks[c]) < MaxMarks
  /\ marks' = [marks EXCEPT ![c] = Append(@, [what |-> what, span |-> Active])]
  /\ UNCHANGED <<holder, descriptors, recorded, stack, calls, spans>>

\* Without an active span nothing is set.
AddAttributes(c) == Active # NoCall /\ Mark(c, "attributes")

\* An entry of OpenTelemetryLogger has the ids of the active span, or none.
Log(c) == Mark(c, "entry")

RegistryAppears == ~ holder /\ holder' = TRUE /\ UNCHANGED <<descriptors, recorded, stack, calls, spans, marks>>

CallGoesOn(c) ==
  \/ Suspend(c)
  \/ Resume(c)
  \/ \E outcome \in {"ok", "error"} : Finish(c, outcome)
  \/ HandleInstrument(c)
  \/ HandleTraced(c)

Tracing ==
  \/ RegistryAppears
  \/ \E c \in Calls : \/ \E m \in Methods : \E labels \in Decorated[m].labels : Invoke(c, m, labels)
                      \/ CallGoesOn(c)
                      \/ AddAttributes(c)
                      \/ Log(c)

TracingSpec == TracingInit /\ [][Tracing]_tracingVars

-----------------------------------------------------------------------------
(* Properties                                                              *)

\* The nearest caller that has a span, through the calls as they were made.
SpanAbove[c \in Calls \cup {NoCall}] ==
  IF c = NoCall THEN NoCall
  ELSE IF spans[c].state # "none" THEN c ELSE SpanAbove[calls[c].parent]

\* A trace has the shape of the calls: the parent of a span is the span of the nearest
\* traced caller, and what a method logs or sets is given to the nearest span around it,
\* also after an await, while other calls run in between.
TraceFollowsCalls ==
  \A c \in Calls :
    /\ spans[c].state # "none" => spans[c].parent = SpanAbove[calls[c].parent]
    /\ \A mark \in ToSet(marks[c]) : mark.span = SpanAbove[c]

\* When the caller is told, the span has ended, once, with what the caller is told; and
\* it has not ended before.  A thenable is not waited for.
SpanEndsWithCall ==
  \A c \in Calls :
    /\ spans[c].ends <= 1 /\ (spans[c].ends = 1 <=> spans[c].state = "ended")
    /\ spans[c].state # "none" /\ MethodOf(c).returns # "thenable" =>
         IF calls[c].told = "none" THEN spans[c].state = "open"
         ELSE spans[c].state = "ended" /\ spans[c].status = calls[c].told

\* The check of Luhn as it is defined: the sum of the digits of the doubled ones.
LuhnSum(digits) ==
  LET term(i) == IF (Len(digits) - i) % 2 = 0 THEN digits[i]
                 ELSE ((2 * digits[i]) \div 10) + ((2 * digits[i]) % 10)
  IN MapThenSumSet(term, DOMAIN digits)

TextsOf(v) ==
  CASE v.is = "text" -> {v}
    [] v.is = "list" -> {item \in ToSet(v.items) : item.is = "text"}
    [] OTHER -> {}

\* Of the texts that a method is given and returns a span shows no personal data and no
\* number of a card; of other digits that look like one nothing is lost in a text that is
\* shown.  A number is shown as it is, also when its digits are those of a card.
SpansShowNobody ==
  \A c \in Calls :
    /\ \A v \in spans[c].shown : \A text \in TextsOf(v) :
         ~ text.personal /\ (text.digits # <<>> => LuhnSum(text.digits) % 10 # 0)
    /\ spans[c].state # "none" /\ MethodOf(c).span = "traced" =>
         \A a \in ToSet(MethodOf(c).args) : a.is = "text" \/ (a.is = "list" /\ IsSimple(a)) =>
           \A text \in TextsOf(a) : LuhnSum(text.digits) % 10 # 0 =>
             \E v \in spans[c].shown : v.is = a.is /\ \E left \in TextsOf(v) : left.digits = text.digits

\* The calls that @Instrument took for a success or a failure, and of those the ones that
\* n must count, and the ones whose duration it measures.
HandledCalls == {c \in Calls : calls[c].counting /\ calls[c].handled # "none"}
CountedBy(n) == {c \in HandledCalls : n \in Recorders(c, calls[c].handled)}
TimedBy(n) == {c \in HandledCalls : n \in ToSet(MethodOf(c).timing)}

\* Every call under @Instrument is counted once, as what the method did, before its
\* caller is told; one that was refused because of its descriptors is counted nowhere, and
\* methods that share a name of a metric do not disturb each other's counts.  The duration
\* of every success is recorded; that of a failure, which the documentation of timing
\* promises too, is not asked for.
CountsAreCalls ==
  /\ \A n \in Metrics : recorded[n] \in Cardinality(CountedBy(n)) .. Cardinality(CountedBy(n) \cup TimedBy(n))
  /\ \A c \in Calls : calls[c].body = "ended" /\ MethodOf(c).returns # "thenable" =>
       calls[c].handled \in (IF calls[c].told = "none" THEN {"none", calls[c].did} ELSE {calls[c].told})
  /\ \A c \in Calls : calls[c].body = "refused" => calls[c].handled = "none" /\ calls[c].did = "none"

\* Span, counters and caller agree on how a call ended, and when.
EndsAgree == SpanEndsWithCall /\ CountsAreCalls
=============================================================================
