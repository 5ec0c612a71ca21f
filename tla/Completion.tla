----------------------------- MODULE Completion -----------------------------
(***************************************************************************)
(* One packet through the execute() of an API adapter: the loop that       *)
(* doubles the output ceiling of GeminiFlashAdapter.ts and                 *)
(* BuiltinAnthropicAdapter.ts, with the vendor's side of each request.     *)
(*                                                                         *)
(* A request's true consumption is a bill: fresh input, input written to   *)
(* the cache, input read from it, visible output and hidden (thinking)     *)
(* output.  Each vendor reports it through usage fields of its own         *)
(* (Usage), and the adapter turns those into the three counts it prices    *)
(* (AttemptTokens).                                                        *)
(***************************************************************************)
EXTENDS Integers, Sequences

CONSTANTS
    None,
    Budgets,         \* packets' budget.maxOutputTokens
    Absolutes,       \* models' max_output_tokens_absolute
    Inputs,          \* input sides of bills: [fresh, created, read]
    Outputs(_),      \* output sides [visible, hidden] a vendor may reach under a ceiling
    PromptEstimate,  \* estimateTokens(userPrompt)
    TextEstimate     \* estimateTokens(text) of a text that is not empty

MAX_DOUBLINGS == 3

Vendors == {"gemini", "anthropic"}

TerminalReasons == {"success", "output_cap_doubling_budget_exhausted",
                    "output_cap_at_model_absolute", "vendor_error"}

Lower(a, b) == IF a <= b THEN a ELSE b

ASSUME CompletionAssumption ==
    /\ Budgets \subseteq Nat \ {0} /\ Absolutes \subseteq Nat \ {0}
    /\ None \notin TerminalReasons \cup Nat
    /\ PromptEstimate \in Nat /\ TextEstimate \in Nat
    /\ \A i \in Inputs : i \in [fresh : Nat, created : Nat, read : Nat]

\* A vendor never generates past the ceiling it was sent.
ASSUME OutputsAssumption ==
    \A a \in Absolutes : \A c \in 1..a : \A o \in Outputs(c) :
        o \in [visible : Nat, hidden : Nat] /\ o.visible + o.hidden <= c

VARIABLES
    vendor, rejectsTemperature, budget, absolute,   \* fixed: the model and the packet
    pc,        \* "ready", "sent", "sent_bare" (without temperature) or "done"
    ceiling,   \* max tokens of the next or current request
    attempts,  \* the AttemptRecords so far
    result,    \* the ExecutionResult, None before
    invoice    \* history: consumption of the requests answered so far; the
               \* estimate stands in for a bill the vendor did not report

vars == <<vendor, rejectsTemperature, budget, absolute, pc, ceiling, attempts,
          result, invoice>>
fixed == <<vendor, rejectsTemperature, budget, absolute>>

------------------------------------------------------------------------------
NoTokens == [input |-> 0, input_cached |-> 0, output |-> 0]

AddTokens(a, b) ==
    [input |-> a.input + b.input, input_cached |-> a.input_cached + b.input_cached,
     output |-> a.output + b.output]

\* What a vendor's usage block says of a bill.  Gemini's prompt count includes
\* the cached part, its thoughts are a count beside the candidates, and a zero
\* count may be missing; of either vendor the whole block may be.
Usage(input, output, reported) ==
    IF vendor = "gemini"
    THEN LET count(n) == IF reported /\ n > 0 THEN n ELSE None IN
         [promptTokenCount        |-> IF reported
                                      THEN input.fresh + input.created + input.read
                                      ELSE None,
          cachedContentTokenCount |-> count(input.read),
          candidatesTokenCount    |-> count(output.visible),
          thoughtsTokenCount      |-> count(output.hidden)]
    ELSE LET count(n) == IF reported THEN n ELSE None IN
         [input_tokens                |-> count(input.fresh),
          cache_creation_input_tokens |-> count(input.created),
          cache_read_input_tokens     |-> count(input.read),
          output_tokens               |-> count(output.visible + output.hidden)]

\* The same bill in the three counts that are priced.
Bill(input, output) ==
    [input        |-> input.fresh + input.created,
     input_cached |-> input.read,
     output       |-> output.visible + output.hidden]

Or(n, default) == IF n = None THEN default ELSE n

EstimateTokens(text) == IF text = 0 THEN 0 ELSE TextEstimate

\* The disjoint counts the adapter prices, from the usage block and the visible
\* text.  No explicit Gemini cache is ever primed, so a missing cached count is 0.
AttemptTokens(usage, text) ==
    IF vendor = "gemini"
    THEN LET cached == Or(usage.cachedContentTokenCount, 0)
             prompt == Or(usage.promptTokenCount, PromptEstimate)
         IN  [input        |-> IF prompt > cached THEN prompt - cached ELSE 0,
              input_cached |-> cached,
              output       |-> IF /\ usage.candidatesTokenCount = None
                                  /\ usage.thoughtsTokenCount = None
                               THEN EstimateTokens(text)
                               ELSE Or(usage.candidatesTokenCount, 0)
                                      + Or(usage.thoughtsTokenCount, 0)]
    ELSE [input        |-> Or(usage.input_tokens, 0) + Or(usage.cache_creation_input_tokens, 0),
          input_cached |-> Or(usage.cache_read_input_tokens, 0),
          output       |-> Or(usage.output_tokens, EstimateTokens(text))]

AttemptRecord(tokens, capped, ok) ==
    [attempt_number |-> Len(attempts) + 1, ceiling_used |-> ceiling,
     hit_output_cap |-> capped, tokens |-> tokens, success |-> ok]

\* Totals of the last attempt only.
FinalizeLastAttempt(records, reason) ==
    [tokens |-> records[Len(records)].tokens, success |-> reason = "success",
     attempts |-> records, terminal_reason |-> reason]

TotalTokens(records) ==
    LET total[n \in 0..Len(records)] ==
          IF n = 0 THEN NoTokens ELSE AddTokens(total[n - 1], records[n].tokens)
    IN  total[Len(records)]

FinalizeResult(records, reason) ==
    [tokens |-> TotalTokens(records),
     success |-> reason = "success",
     attempts |-> records, terminal_reason |-> reason]

------------------------------------------------------------------------------
Init ==
    /\ vendor \in Vendors
    /\ rejectsTemperature \in (IF vendor = "anthropic" THEN BOOLEAN ELSE {FALSE})
    /\ budget \in Budgets
    /\ absolute \in Absolutes
    /\ pc = "ready"
    /\ ceiling = Lower(budget, absolute)
    /\ attempts = <<>>
    /\ result = None
    /\ invoice = NoTokens

\* The next round of the for loop sends the packet.
Send ==
    /\ pc = "ready"
    /\ Len(attempts) <= MAX_DOUBLINGS
    /\ pc' = "sent"
    /\ UNCHANGED <<fixed, ceiling, attempts, result, invoice>>

\* Goes round with the same request, temperature included.
RejectTemperatureForever ==
    /\ pc = "sent"
    /\ rejectsTemperature
    /\ pc' = "ready"
    /\ UNCHANGED <<fixed, ceiling, attempts, result, invoice>>

\* A 400 that names the temperature: the same request goes out without it.
RejectTemperature ==
    /\ pc = "sent"
    /\ rejectsTemperature
    /\ pc' = "sent_bare"
    /\ UNCHANGED <<fixed, ceiling, attempts, result, invoice>>

Finish(records, reason) ==
    /\ pc' = "done"
    /\ attempts' = records
    /\ result' = FinalizeResult(records, reason)
    /\ UNCHANGED ceiling

\* Any other error ends the chain, with the input estimated.
VendorError ==
    /\ pc \in {"sent", "sent_bare"}
    /\ Finish(Append(attempts, AttemptRecord([NoTokens EXCEPT !.input = PromptEstimate],
                                             FALSE, FALSE)),
              "vendor_error")
    /\ UNCHANGED <<fixed, invoice>>

\* Doubles past the model's absolute limit when a retry is left.
AfterCapUnclamped(records) ==
    IF Len(records) > MAX_DOUBLINGS
    THEN Finish(records, "output_cap_doubling_budget_exhausted")
    ELSE /\ pc' = "ready"
         /\ ceiling' = 2 * ceiling
         /\ attempts' = records
         /\ UNCHANGED result

\* Looks at the retries before it looks at the model's limit.
AfterCapRetriesFirst(records) ==
    LET nextCeiling == Lower(2 * ceiling, absolute)
    IN  IF Len(records) > MAX_DOUBLINGS
        THEN Finish(records, "output_cap_doubling_budget_exhausted")
        ELSE IF nextCeiling <= ceiling
        THEN Finish(records, "output_cap_at_model_absolute")
        ELSE /\ pc' = "ready"
             /\ ceiling' = nextCeiling
             /\ attempts' = records
             /\ UNCHANGED result

\* After a max-tokens signal: go round with the doubled ceiling, or stop.
AfterCap(records) ==
    LET nextCeiling      == Lower(2 * ceiling, absolute)
        atModelAbsolute  == nextCeiling <= ceiling
        doublingsExhausted == Len(records) > MAX_DOUBLINGS
    IN  IF doublingsExhausted \/ atModelAbsolute
        THEN Finish(records, IF atModelAbsolute
                             THEN "output_cap_at_model_absolute"
                             ELSE "output_cap_doubling_budget_exhausted")
        ELSE /\ pc' = "ready"
             /\ ceiling' = nextCeiling
             /\ attempts' = records
             /\ UNCHANGED result

\* The vendor answers.  Only its max-tokens signal (capped) is not an end.
Answer(input, output, reported, capped) ==
    LET tokens  == AttemptTokens(Usage(input, output, reported), output.visible)
        records == Append(attempts, AttemptRecord(tokens, capped, ~capped))
    IN
    /\ pc \in {"sent_bare"} \cup (IF rejectsTemperature THEN {} ELSE {"sent"})
    /\ IF capped THEN AfterCap(records) ELSE Finish(records, "success")
    /\ invoice' = AddTokens(invoice, IF reported THEN Bill(input, output) ELSE tokens)
    /\ UNCHANGED fixed

Respond ==
    \/ RejectTemperature
    \/ VendorError
    \/ \E input \in Inputs, output \in Outputs(ceiling), reported, capped \in BOOLEAN :
         Answer(input, output, reported, capped)

Next == Send \/ Respond

\* The loop is never idle, and each vendor client ends a request: with an
\* answer, an error, or its own timeout, which is an error.
Spec == Init /\ [][Next]_vars /\ WF_vars(Send) /\ WF_vars(Respond)

------------------------------------------------------------------------------
Tokens == [input : Nat, input_cached : Nat, output : Nat]

TypeOK ==
    /\ vendor \in Vendors
    /\ rejectsTemperature \in BOOLEAN
    /\ budget \in Budgets
    /\ absolute \in Absolutes
    /\ pc \in {"ready", "sent", "sent_bare", "done"}
    /\ ceiling \in 1..absolute
    /\ attempts \in Seq([attempt_number : Nat, ceiling_used : Nat,
                         hit_output_cap : BOOLEAN, tokens : Tokens, success : BOOLEAN])
    /\ pc = "done" => result.attempts = attempts /\ result.terminal_reason \in TerminalReasons
    /\ invoice \in Tokens

\* The totals that server.ts reports and the events are built from are what
\* the vendor billed over the whole chain of attempts, cached input and
\* thinking included; a request that failed adds its input estimate.
TotalsMatchInvoice ==
    pc = "done" =>
        result.tokens =
          IF result.terminal_reason = "vendor_error"
          THEN AddTokens(invoice, [NoTokens EXCEPT !.input = PromptEstimate])
          ELSE invoice

\* A packet's budget bounds what all its attempts together may generate: with
\* three doublings, 15 times maxOutputTokens, and at most 4 times what the
\* model can produce in one response.
SpendBounded ==
    (\A i \in DOMAIN attempts : attempts[i].tokens.output <= attempts[i].ceiling_used) =>
        /\ invoice.output <= 15 * budget
        /\ invoice.output <= (MAX_DOUBLINGS + 1) * absolute

\* The loop climbs exactly the ladder of ceilings the methodology describes,
\* and its terminal reason tells the truth about why it stopped.
Ladder == INSTANCE OutputLadder WITH
    used   <- Len(attempts),
    top    <- IF attempts = <<>> THEN 0 ELSE attempts[Len(attempts)].ceiling_used,
    reason <- IF pc = "done" THEN result.terminal_reason ELSE None

ClimbsTheLadder == Ladder!Spec

\* Every packet is answered: no run of rejections and truncations keeps a
\* dispatch open for ever.
EveryPacketEnds == <>(pc = "done")
==============================================================================
