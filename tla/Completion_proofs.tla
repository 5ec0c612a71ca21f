------------------------- MODULE Completion_proofs -------------------------
(***************************************************************************)
(* The doubling loop for every budget, every model limit and every         *)
(* sequence of vendor answers: it is well typed, it climbs the ladder of   *)
(* docs/methodology.md, and a packet's budget bounds its total output.     *)
(***************************************************************************)
EXTENDS Completion, WellFoundedInduction, TLAPS

AttemptType ==
    [attempt_number : Nat, ceiling_used : Nat, hit_output_cap : BOOLEAN,
     tokens : Tokens, success : BOOLEAN]

\* Output that n dispatches under the ladder's ceilings can add up to, in
\* units of the budget.
Spent == <<0, 1, 3, 7, 15>>

Honest(records) ==
    \A i \in DOMAIN records : records[i].tokens.output <= records[i].ceiling_used

\* While the loop runs it stands below the top of the ladder, at the rung that
\* the number of attempts determines.
OnTheLadder ==
    LET n == Len(attempts) IN
    /\ n \in 0..4
    /\ n > 0 => attempts[n].ceiling_used = Ladder!Rung(n)
    /\ pc # "done" => /\ n \in 0..3
                      /\ ceiling = Ladder!Rung(n + 1)
                      /\ n > 0 => ~Ladder!Last(n)

\* The consumption so far is within what the climbed rungs allow.
Accounted ==
    Honest(attempts) =>
        /\ invoice.output <= budget * Spent[Len(attempts) + 1]
        /\ invoice.output <= Len(attempts) * absolute

IInv == TypeOK /\ OnTheLadder /\ Accounted

\* The three counts the adapter makes of any usage block are natural numbers.
LEMMA TokensAreCounts ==
    ASSUME TypeOK, NEW input \in Inputs, NEW output \in Outputs(ceiling),
           NEW reported \in BOOLEAN
    PROVE  /\ AttemptTokens(Usage(input, output, reported), output.visible) \in Tokens
           /\ Bill(input, output) \in Tokens
           /\ Bill(input, output).output <= ceiling
<1>1. /\ input \in [fresh : Nat, created : Nat, read : Nat]
      /\ PromptEstimate \in Nat /\ TextEstimate \in Nat
  BY CompletionAssumption
<1>2. /\ output \in [visible : Nat, hidden : Nat]
      /\ output.visible + output.hidden <= ceiling
  BY OutputsAssumption DEF TypeOK
<1>3. Bill(input, output) \in Tokens /\ Bill(input, output).output <= ceiling
  BY <1>1, <1>2 DEF Bill, Tokens
<1>4. CASE vendor = "gemini"
  <2> DEFINE u == Usage(input, output, reported)
  <2>1. /\ Or(u.promptTokenCount, PromptEstimate) \in Nat
        /\ Or(u.cachedContentTokenCount, 0) \in Nat
        /\ Or(u.candidatesTokenCount, 0) \in Nat
        /\ Or(u.thoughtsTokenCount, 0) \in Nat
    BY <1>1, <1>2, <1>4 DEF Usage, Or
  <2> HIDE DEF u
  <2> QED
    BY <1>1, <1>3, <1>4, <2>1 DEF AttemptTokens, EstimateTokens, Tokens, u
<1>5. CASE vendor # "gemini"
  BY <1>1, <1>2, <1>3, <1>5 DEF Usage, Or, AttemptTokens, EstimateTokens, Tokens
<1> QED
  BY <1>4, <1>5

\* Sums of counts are counts.
LEMMA SumsAreCounts ==
    ASSUME NEW a \in Tokens, NEW b \in Tokens
    PROVE  AddTokens(a, b) \in Tokens /\ AddTokens(a, b).output = a.output + b.output
BY DEF AddTokens, Tokens

LEMMA InitIInv == Init => IInv
<1> SUFFICES ASSUME Init PROVE IInv
  OBVIOUS
<1>1. budget \in Nat \ {0} /\ absolute \in Nat \ {0}
  BY CompletionAssumption DEF Init
<1>2. TypeOK
  <2>1. ceiling \in 1..absolute
    BY <1>1 DEF Init, Lower
  <2>2. invoice \in Tokens
    BY DEF Init, NoTokens, Tokens
  <2>3. rejectsTemperature \in BOOLEAN
    BY DEF Init
  <2> QED
    BY <2>1, <2>2, <2>3 DEF Init, TypeOK
<1>3. OnTheLadder
  BY <1>1 DEF Init, OnTheLadder, Ladder!Rung, Ladder!Factors, Lower
<1>4. Accounted
  BY <1>1 DEF Init, Accounted, NoTokens, Spent
<1> QED
  BY <1>2, <1>3, <1>4 DEF IInv

\* What n requests may have spent, and the next one.
LEMMA RungsAddUp ==
    ASSUME NEW b \in Nat, NEW n \in 1..4
    PROVE  /\ b * Spent[n] + b * Ladder!Factors[n] = b * Spent[n + 1]
           /\ b * Spent[n] \in Nat /\ b * Ladder!Factors[n] \in Nat
<1>1. CASE n = 1
  BY <1>1 DEF Spent, Ladder!Factors
<1>2. CASE n = 2
  BY <1>2 DEF Spent, Ladder!Factors
<1>3. CASE n = 3
  BY <1>3 DEF Spent, Ladder!Factors
<1>4. CASE n = 4
  BY <1>4 DEF Spent, Ladder!Factors
<1> QED
  BY <1>1, <1>2, <1>3, <1>4

\* One more of the same.
LEMMA OneMoreOf ==
    ASSUME NEW a \in Nat, NEW l \in 0..3
    PROVE  l * a + a = (l + 1) * a /\ l * a \in Nat
<1>1. CASE l = 0
  BY <1>1
<1>2. CASE l = 1
  BY <1>2
<1>3. CASE l = 2
  BY <1>3
<1>4. CASE l = 3
  BY <1>4
<1> QED
  BY <1>1, <1>2, <1>3, <1>4

LEMMA BoundsAddUp ==
    ASSUME NEW i \in Nat, NEW a \in Nat, NEW c \in Nat, NEW x \in Nat, NEW y \in Nat, NEW z,
           i <= x, a <= c, c <= y, x + y = z
    PROVE  i + a <= z
OBVIOUS

\* What every way of ending an attempt leaves: one more record, under the
\* rung it was sent with, and at most that rung's output more.
LEMMA OneMoreAttempt ==
    ASSUME IInv, pc # "done",
           NEW tokens \in Tokens, NEW capped \in BOOLEAN, NEW ok \in BOOLEAN,
           NEW added \in Tokens,
           added.output <= ceiling \/ added.output <= tokens.output
    PROVE  LET records == Append(attempts, AttemptRecord(tokens, capped, ok))
               n       == Len(attempts) + 1
           IN  /\ records \in Seq(AttemptType)
               /\ Len(records) = n /\ n \in 1..4
               /\ records[n].ceiling_used = Ladder!Rung(n)
               /\ AddTokens(invoice, added) \in Tokens
               /\ Honest(records) =>
                    /\ AddTokens(invoice, added).output <= budget * Spent[n + 1]
                    /\ AddTokens(invoice, added).output <= n * absolute
<1> DEFINE record  == AttemptRecord(tokens, capped, ok)
<1> DEFINE records == Append(attempts, record)
<1> DEFINE n       == Len(attempts) + 1
<1>1. /\ budget \in Nat \ {0} /\ absolute \in Nat \ {0}
      /\ ceiling \in 1..absolute /\ invoice \in Tokens
      /\ attempts \in Seq(AttemptType)
  BY CompletionAssumption DEF IInv, TypeOK, AttemptType
<1>2. record \in AttemptType /\ record.ceiling_used = ceiling /\ record.tokens = tokens
  BY <1>1 DEF AttemptRecord, AttemptType
<1>3. Len(attempts) \in 0..3 /\ n \in 1..4 /\ ceiling = Ladder!Rung(n)
  BY DEF IInv, OnTheLadder
<1> HIDE DEF record
<1>4. /\ records \in Seq(AttemptType)
      /\ Len(records) = n
      /\ records[n] = record
      /\ \A i \in DOMAIN attempts : i \in DOMAIN records /\ records[i] = attempts[i]
      /\ n \in DOMAIN records
  BY <1>1, <1>2
<1> HIDE DEF records
<1>5. AddTokens(invoice, added) \in Tokens
      /\ AddTokens(invoice, added).output = invoice.output + added.output
  BY <1>1, SumsAreCounts
<1>6. ASSUME Honest(records)
      PROVE  /\ invoice.output + added.output <= budget * Spent[n + 1]
             /\ invoice.output + added.output <= n * absolute
  <2>1. Honest(attempts) /\ tokens.output <= ceiling
    BY <1>2, <1>4, <1>6 DEF Honest
  <2>2. /\ invoice.output <= budget * Spent[n]
        /\ invoice.output <= Len(attempts) * absolute
    BY <2>1 DEF IInv, Accounted
  <2>3. added.output <= ceiling
    BY <1>1, <2>1 DEF Tokens
  <2>4. invoice.output \in Nat /\ added.output \in Nat
    BY <1>1 DEF Tokens
  <2>5. ceiling <= budget * Ladder!Factors[n]
    BY <1>1, <1>3 DEF Ladder!Rung, Ladder!Factors
  <2>6. /\ budget * Spent[n] + budget * Ladder!Factors[n] = budget * Spent[n + 1]
        /\ budget * Spent[n] \in Nat /\ budget * Ladder!Factors[n] \in Nat
    BY <1>1, <1>3, RungsAddUp
  <2>7. /\ Len(attempts) * absolute + absolute = n * absolute
        /\ Len(attempts) * absolute \in Nat
    BY <1>1, <1>3, OneMoreOf
  <2>8. ceiling \in Nat /\ ceiling <= absolute /\ absolute \in Nat
    BY <1>1
  <2>9. invoice.output + added.output <= budget * Spent[n + 1]
    BY <2>2, <2>3, <2>4, <2>5, <2>6, <2>8, BoundsAddUp
  <2>10. invoice.output + added.output <= n * absolute
    BY <2>2, <2>3, <2>4, <2>7, <2>8, BoundsAddUp
  <2> QED
    BY <2>9, <2>10
<1> QED
  BY <1>2, <1>3, <1>4, <1>5, <1>6 DEF records, record

\* Doubling and clamping goes one rung up, and stays only at the model's limit.
LEMMA NextRung ==
    ASSUME budget \in Nat \ {0}, absolute \in Nat \ {0},
           NEW n \in 1..4, ceiling = Ladder!Rung(n)
    PROVE  /\ ceiling \in 1..absolute
           /\ Lower(2 * ceiling, absolute) \in 1..absolute
           /\ n < 4 => Lower(2 * ceiling, absolute) = Ladder!Rung(n + 1)
           /\ Lower(2 * ceiling, absolute) <= ceiling <=> ceiling = absolute
BY DEF Ladder!Rung, Ladder!Factors, Lower

\* An attempt that ends the packet.
LEMMA FinishKeepsIInv ==
    ASSUME IInv, pc # "done",
           NEW tokens \in Tokens, NEW capped \in BOOLEAN, NEW ok \in BOOLEAN,
           NEW added \in Tokens,
           added.output <= ceiling \/ added.output <= tokens.output,
           NEW reason \in TerminalReasons,
           Finish(Append(attempts, AttemptRecord(tokens, capped, ok)), reason),
           invoice' = AddTokens(invoice, added) \/ (invoice' = invoice /\ added = NoTokens),
           UNCHANGED fixed
    PROVE  IInv'
<1> DEFINE records == Append(attempts, AttemptRecord(tokens, capped, ok))
<1> DEFINE n       == Len(attempts) + 1
<1>1. /\ records \in Seq(AttemptType) /\ Len(records) = n /\ n \in 1..4
      /\ records[n].ceiling_used = Ladder!Rung(n)
      /\ AddTokens(invoice, added) \in Tokens
      /\ Honest(records) =>
           /\ AddTokens(invoice, added).output <= budget * Spent[n + 1]
           /\ AddTokens(invoice, added).output <= n * absolute
  BY OneMoreAttempt
<1>2. /\ attempts' = records /\ pc' = "done" /\ ceiling' = ceiling
      /\ result'.attempts = records /\ result'.terminal_reason = reason
      /\ budget' = budget /\ absolute' = absolute /\ vendor' = vendor
      /\ rejectsTemperature' = rejectsTemperature
  BY DEF Finish, FinalizeResult, fixed
<1>3. invoice' \in Tokens /\ invoice'.output = AddTokens(invoice, added).output
  BY <1>1, SumsAreCounts DEF IInv, TypeOK, NoTokens, Tokens
<1> HIDE DEF records
<1>4. TypeOK'
  BY <1>1, <1>2, <1>3 DEF IInv, TypeOK, AttemptType
<1>5. OnTheLadder'
  BY <1>1, <1>2 DEF OnTheLadder, Ladder!Rung, Ladder!Factors
<1>6. Accounted'
  BY <1>1, <1>2, <1>3 DEF Accounted, Honest
<1> QED
  BY <1>4, <1>5, <1>6 DEF IInv

LEMMA NextIInv == IInv /\ [Next]_vars => IInv'
<1> SUFFICES ASSUME IInv, [Next]_vars PROVE IInv'
  OBVIOUS
<1>1. ASSUME attempts' = attempts, ceiling' = ceiling, invoice' = invoice, UNCHANGED fixed,
             result' = result, pc # "done", pc' \in {"ready", "sent", "sent_bare"}
      PROVE  IInv'
  BY <1>1 DEF IInv, TypeOK, OnTheLadder, Accounted, Honest, fixed,
              Ladder!Rung, Ladder!Last, Ladder!Factors
<1>2. CASE Send
  BY <1>1, <1>2 DEF Send
<1>3. CASE RejectTemperature
  BY <1>1, <1>3 DEF RejectTemperature
<1>4. CASE VendorError
  <2> DEFINE tokens == [NoTokens EXCEPT !.input = PromptEstimate]
  <2>1. tokens \in Tokens /\ NoTokens \in Tokens /\ NoTokens.output <= tokens.output
    BY CompletionAssumption DEF Tokens, NoTokens
  <2>2. /\ pc # "done" /\ invoice' = invoice /\ UNCHANGED fixed
        /\ Finish(Append(attempts, AttemptRecord(tokens, FALSE, FALSE)), "vendor_error")
    BY <1>4 DEF VendorError
  <2> HIDE DEF tokens
  <2> QED
    BY <2>1, <2>2, FinishKeepsIInv DEF TerminalReasons
<1>5. ASSUME NEW input \in Inputs, NEW output \in Outputs(ceiling),
             NEW reported \in BOOLEAN, NEW capped \in BOOLEAN,
             Answer(input, output, reported, capped)
      PROVE  IInv'
  <2> DEFINE tokens  == AttemptTokens(Usage(input, output, reported), output.visible)
  <2> DEFINE added   == IF reported THEN Bill(input, output) ELSE tokens
  <2> PICK ok \in BOOLEAN : ok = ~capped
    <3>1. CASE capped = TRUE
      BY <3>1
    <3>2. CASE capped = FALSE
      BY <3>2
    <3> QED
      BY <3>1, <3>2
  <2> DEFINE records == Append(attempts, AttemptRecord(tokens, capped, ok))
  <2> PICK n \in Nat : n = Len(attempts) + 1
    BY DEF IInv, OnTheLadder
  <2>1. /\ tokens \in Tokens /\ added \in Tokens
        /\ added.output <= ceiling \/ added.output <= tokens.output
    BY TokensAreCounts DEF IInv, Tokens
  <2>2. /\ pc # "done" /\ UNCHANGED fixed /\ invoice' = AddTokens(invoice, added)
        /\ IF capped THEN AfterCap(records) ELSE Finish(records, "success")
    BY <1>5 DEF Answer
  <2> HIDE DEF tokens, added
  <2>3. ASSUME NEW reason \in TerminalReasons, Finish(records, reason)
        PROVE  IInv'
    BY <2>1, <2>2, <2>3, FinishKeepsIInv DEF records
  <2> HIDE DEF records
  <2>4. CASE pc' = "done"
    <3>1. \E reason \in TerminalReasons : Finish(records, reason)
      BY <2>2, <2>4 DEF AfterCap, TerminalReasons
    <3> QED
      BY <2>3, <3>1
  <2>5. CASE pc' # "done"
    <3>1. /\ records \in Seq(AttemptType) /\ Len(records) = n /\ n \in 1..4
          /\ records[n].ceiling_used = Ladder!Rung(n)
          /\ invoice' \in Tokens
          /\ Honest(records) => /\ invoice'.output <= budget * Spent[n + 1]
                                /\ invoice'.output <= n * absolute
      BY <2>1, <2>2, OneMoreAttempt DEF records
    <3>2. /\ attempts' = records /\ pc' = "ready" /\ n <= 3
          /\ ceiling' = Lower(2 * ceiling, absolute) /\ ~(ceiling' <= ceiling)
      BY <2>2, <2>5, <3>1 DEF AfterCap, Finish, MAX_DOUBLINGS
    <3>3. /\ budget' = budget /\ absolute' = absolute /\ vendor' = vendor
          /\ rejectsTemperature' = rejectsTemperature
      BY <2>2 DEF fixed
    <3>4. budget \in Nat \ {0} /\ absolute \in Nat \ {0} /\ ceiling = Ladder!Rung(n)
      BY <2>2, CompletionAssumption DEF IInv, TypeOK, OnTheLadder
    <3>5. /\ ceiling' \in 1..absolute /\ ceiling' = Ladder!Rung(n + 1)
          /\ ceiling # absolute
      BY <3>1, <3>2, <3>4, NextRung
    <3>6. TypeOK'
      BY <3>1, <3>2, <3>3, <3>5 DEF IInv, TypeOK, AttemptType
    <3>7. OnTheLadder'
      <4>1. /\ Ladder!Rung(n)' = Ladder!Rung(n)
            /\ Ladder!Rung(n + 1)' = Ladder!Rung(n + 1)
        BY <3>3 DEF Ladder!Rung, Ladder!Factors
      <4>2. Len(attempts') = n /\ n \in 1..3 /\ attempts'[n].ceiling_used = Ladder!Rung(n)'
        BY <3>1, <3>2, <4>1
      <4>3. ceiling' = Ladder!Rung(n + 1)'
        BY <3>5, <4>1
      <4>4. ~Ladder!Last(n)'
        BY <3>2, <3>3, <3>4, <3>5, <4>1, <4>2 DEF Ladder!Last, Ladder!Factors
      <4> QED
        BY <4>2, <4>3, <4>4 DEF OnTheLadder
    <3>8. Accounted'
      BY <3>1, <3>2, <3>3 DEF Accounted, Honest
    <3> QED
      BY <3>6, <3>7, <3>8 DEF IInv
  <2> QED
    BY <2>4, <2>5
<1>6. CASE UNCHANGED vars
  BY <1>6 DEF IInv, TypeOK, OnTheLadder, Accounted, Honest, vars,
              Ladder!Rung, Ladder!Last, Ladder!Factors
<1> QED
  BY <1>2, <1>3, <1>4, <1>5, <1>6 DEF Next, Respond

\* Attempts, ceilings, counts and the result have their types.
THEOREM TypeCorrect == Spec => []TypeOK
<1>1. IInv => TypeOK
  BY DEF IInv
<1> QED
  BY InitIInv, NextIInv, <1>1, PTL DEF Spec

\* Whatever the vendors answer, all attempts of a packet together generate at
\* most 15 times its maxOutputTokens.
THEOREM OutputIsBounded == Spec => []SpendBounded
<1>1. IInv => SpendBounded
  <2> SUFFICES ASSUME IInv, Honest(attempts)
               PROVE  /\ invoice.output <= 15 * budget
                      /\ invoice.output <= (MAX_DOUBLINGS + 1) * absolute
    BY DEF SpendBounded, Honest
  <2>1. /\ budget \in Nat /\ absolute \in Nat
        /\ Len(attempts) \in 0..4 /\ invoice.output \in Nat
    BY CompletionAssumption DEF IInv, TypeOK, OnTheLadder, Tokens
  <2>2. /\ invoice.output <= budget * Spent[Len(attempts) + 1]
        /\ invoice.output <= Len(attempts) * absolute
    BY DEF IInv, Accounted
  <2>3. CASE Len(attempts) = 0
    BY <2>1, <2>2, <2>3 DEF Spent, MAX_DOUBLINGS
  <2>4. CASE Len(attempts) = 1
    BY <2>1, <2>2, <2>4 DEF Spent, MAX_DOUBLINGS
  <2>5. CASE Len(attempts) = 2
    BY <2>1, <2>2, <2>5 DEF Spent, MAX_DOUBLINGS
  <2>6. CASE Len(attempts) = 3
    BY <2>1, <2>2, <2>6 DEF Spent, MAX_DOUBLINGS
  <2>7. CASE Len(attempts) = 4
    BY <2>1, <2>2, <2>7 DEF Spent, MAX_DOUBLINGS
  <2> QED
    BY <2>1, <2>3, <2>4, <2>5, <2>6, <2>7
<1> QED
  BY InitIInv, NextIInv, <1>1, PTL DEF Spec

LEMMA AppendedLast ==
    ASSUME NEW S, NEW seq \in Seq(S), NEW e
    PROVE  /\ Len(Append(seq, e)) = Len(seq) + 1
           /\ Append(seq, e) # <<>>
<1> DEFINE T == S \cup {e}
<1>1. seq \in Seq(T) /\ e \in T
  OBVIOUS
<1> HIDE DEF T
<1> QED
  BY <1>1

\* An attempt that ends the packet is the last rung the ladder was climbed to.
LEMMA FinishClimbs ==
    ASSUME IInv, IInv', pc # "done", NEW record, NEW reason \in TerminalReasons,
           Finish(Append(attempts, record), reason), UNCHANGED fixed,
           reason = "output_cap_at_model_absolute" => ceiling = absolute,
           reason = "output_cap_doubling_budget_exhausted" =>
              Len(attempts) = 3 /\ ceiling < absolute
    PROVE  Ladder!Next
<1> PICK n \in Nat : n = Len(attempts)
  BY DEF IInv, OnTheLadder
<1>0. /\ attempts' = Append(attempts, record) /\ pc' = "done"
      /\ result'.terminal_reason = reason
      /\ budget' = budget /\ absolute' = absolute
  BY DEF Finish, FinalizeResult, fixed
<1>1. Len(attempts') = n + 1 /\ attempts' # <<>>
  BY <1>0, AppendedLast DEF IInv, TypeOK
<1>2. n \in 0..3 /\ n < 4 /\ ceiling = Ladder!Rung(n + 1)
  BY DEF IInv, OnTheLadder
<1>3. attempts'[n + 1].ceiling_used = Ladder!Rung(n + 1)
  BY <1>0, <1>1, <1>2 DEF IInv, OnTheLadder, Ladder!Rung, Ladder!Factors
<1>4. reason \in {"success", "vendor_error", "output_cap_at_model_absolute",
                  "output_cap_doubling_budget_exhausted"} /\ reason # None
  BY CompletionAssumption DEF TerminalReasons
<1>5. Len(Ladder!Factors) = 4 /\ Len(attempts) < 4
  BY <1>2 DEF Ladder!Factors
<1>6. /\ reason = "output_cap_at_model_absolute" => Ladder!Rung(n + 1) = absolute
      /\ reason = "output_cap_doubling_budget_exhausted" =>
            n + 1 = Len(Ladder!Factors) /\ Ladder!Rung(n + 1) < absolute
  BY <1>2, <1>5
<1>7. Ladder!Climb(reason)
  BY <1>0, <1>1, <1>3, <1>4, <1>5, <1>6 DEF Ladder!Climb
<1> QED
  BY <1>4, <1>7 DEF Ladder!Next

\* The adapters' loop implements the methodology's ladder.
THEOREM ImplementsTheLadder == Spec => ClimbsTheLadder
<1>1. Init => Ladder!Init
  <2> SUFFICES ASSUME Init PROVE Ladder!Init
    OBVIOUS
  <2>1. budget \in Nat \ {0} /\ absolute \in Nat \ {0}
    BY CompletionAssumption DEF Init
  <2> QED
    BY <2>1 DEF Init, Ladder!Init
<1>2. IInv /\ IInv' /\ [Next]_vars => [Ladder!Next]_(Ladder!vars)
  <2> SUFFICES ASSUME IInv, IInv', [Next]_vars
               PROVE  [Ladder!Next]_(Ladder!vars)
    OBVIOUS
  <2>1. CASE Send \/ RejectTemperature \/ UNCHANGED vars
    BY <2>1 DEF Send, RejectTemperature, vars, fixed, Ladder!vars
  <2>2. CASE VendorError
    BY <2>2, FinishClimbs DEF VendorError, TerminalReasons
  <2>3. ASSUME NEW input \in Inputs, NEW output \in Outputs(ceiling),
               NEW reported \in BOOLEAN, NEW capped \in BOOLEAN,
               Answer(input, output, reported, capped)
        PROVE  Ladder!Next
    <3> PICK record : /\ pc # "done" /\ UNCHANGED fixed
                      /\ IF capped THEN AfterCap(Append(attempts, record))
                                   ELSE Finish(Append(attempts, record), "success")
      BY <2>3 DEF Answer
    <3> PICK n \in Nat : n = Len(attempts) /\ (n \in 0..3 => n + 1 \in 1..4)
      BY DEF IInv, OnTheLadder
    <3>1. CASE ~capped
      BY <3>1, FinishClimbs DEF TerminalReasons
    <3>2. CASE capped
      <4>0. /\ budget \in Nat \ {0} /\ absolute \in Nat \ {0}
            /\ n \in 0..3 /\ n + 1 \in 1..4 /\ ceiling = Ladder!Rung(n + 1)
        BY CompletionAssumption DEF IInv, TypeOK, OnTheLadder
      <4>1. /\ Len(Append(attempts, record)) = n + 1
            /\ Append(attempts, record) # <<>>
        BY AppendedLast DEF IInv, TypeOK
      <4>2. /\ ceiling \in 1..absolute
            /\ Lower(2 * ceiling, absolute) \in 1..absolute
            /\ Lower(2 * ceiling, absolute) <= ceiling <=> ceiling = absolute
        BY <4>0, NextRung
      <4>3. CASE Lower(2 * ceiling, absolute) <= ceiling
        <5>1. Finish(Append(attempts, record), "output_cap_at_model_absolute")
          BY <3>2, <4>3 DEF AfterCap
        <5> QED
          BY <4>2, <4>3, <5>1, FinishClimbs DEF TerminalReasons
      <4>4. CASE ~(Lower(2 * ceiling, absolute) <= ceiling) /\ n = 3
        <5>1. Finish(Append(attempts, record), "output_cap_doubling_budget_exhausted")
          BY <3>2, <4>1, <4>4 DEF AfterCap, MAX_DOUBLINGS
        <5>2. ceiling < absolute
          BY <4>0, <4>2, <4>4
        <5> QED
          BY <4>4, <5>1, <5>2, FinishClimbs DEF TerminalReasons
      <4>5. CASE ~(Lower(2 * ceiling, absolute) <= ceiling) /\ n < 3
        <5>1. /\ attempts' = Append(attempts, record) /\ pc' = "ready"
              /\ budget' = budget /\ absolute' = absolute
          BY <3>2, <4>1, <4>5 DEF AfterCap, MAX_DOUBLINGS, fixed
        <5>2. /\ Len(attempts') = n + 1 /\ attempts' # <<>>
              /\ attempts'[n + 1].ceiling_used = Ladder!Rung(n + 1)
          BY <4>0, <4>1, <5>1 DEF IInv, OnTheLadder, Ladder!Rung, Ladder!Factors
        <5>3. ~Ladder!Last(n + 1)
          BY <4>0, <4>2, <4>5 DEF Ladder!Last, Ladder!Factors
        <5>4. n < Len(Ladder!Factors) /\ None \notin TerminalReasons
          BY <4>5, CompletionAssumption DEF Ladder!Factors
        <5>5. Ladder!Climb(None)
          BY <5>1, <5>2, <5>3, <5>4 DEF Ladder!Climb, Ladder!Last, TerminalReasons
        <5> QED
          BY <5>5 DEF Ladder!Next
      <4> QED
        BY <4>0, <4>3, <4>4, <4>5
    <3> QED
      BY <3>1, <3>2
  <2> QED
    BY <2>1, <2>2, <2>3 DEF Next, Respond
<1> QED
  BY InitIInv, NextIInv, <1>1, <1>2, PTL DEF Spec, ClimbsTheLadder, Ladder!Spec

------------------------------------------------------------------------------
(* The totals of a chain of attempts                                         *)

LEMMA LeastOf ==
    ASSUME NEW S, S \subseteq Nat, S # {}
    PROVE  \E n \in S : \A m \in S : n <= m
<1> DEFINE R == {ss \in Nat \X Nat : ss[1] < ss[2]}
<1>1. IsWellFoundedOn(R, Nat)
  BY NatLessThanWellFounded, Zenon DEF OpToRel
<1> HIDE DEF R
<1>2. PICK n \in S : \A m \in S : ~(<<m, n>> \in R)
  BY <1>1, WFMin, Zenon
<1>3. ASSUME NEW m \in S PROVE n <= m
  <2>1. <<m, n>> \in Nat \X Nat => (m < n => <<m, n>> \in R)
    BY DEF R
  <2> QED
    BY <1>2, <2>1
<1> QED
  BY <1>3

\* f[k] is the total of the first k records, for every k up to n.
SumsTo(f, records, n) ==
    f = [k \in 0..n |-> IF k = 0 THEN NoTokens ELSE AddTokens(f[k - 1], records[k].tokens)]

LEMMA SumsStep ==
    ASSUME NEW f, NEW records, NEW n \in Nat, SumsTo(f, records, n)
    PROVE  /\ f[0] = NoTokens
           /\ \A k \in 1..n : f[k] = AddTokens(f[k - 1], records[k].tokens)
<1> DEFINE g == [k \in 0..n |-> IF k = 0 THEN NoTokens
                                ELSE AddTokens(f[k - 1], records[k].tokens)]
<1>1. f = g
  BY DEF SumsTo
<1>2. g[0] = NoTokens
  OBVIOUS
<1>3. ASSUME NEW k \in 1..n PROVE g[k] = AddTokens(f[k - 1], records[k].tokens)
  OBVIOUS
<1> HIDE DEF g
<1>4. \A k \in 1..n : f[k] = AddTokens(f[k - 1], records[k].tokens)
  BY <1>1, <1>3
<1> QED
  BY <1>1, <1>2, <1>4

LEMMA SumsExist ==
    ASSUME NEW records, NEW n \in Nat
    PROVE  \E f : SumsTo(f, records, n)
<1> DEFINE Bad == {k \in Nat : ~\E f : SumsTo(f, records, k)}
<1>1. SUFFICES ASSUME Bad # {} PROVE FALSE
  OBVIOUS
<1>2. PICK k \in Bad : \A m \in Bad : k <= m
  BY <1>1, LeastOf
<1>3. k \in Nat /\ ~\E f : SumsTo(f, records, k)
  OBVIOUS
<1>4. k # 0
  <2> DEFINE f == [j \in 0..0 |-> NoTokens]
  <2>1. SumsTo(f, records, 0)
    BY DEF SumsTo
  <2> QED
    BY <1>3, <2>1
<1>5. k - 1 \in Nat /\ k - 1 \notin Bad
  BY <1>2, <1>3, <1>4
<1>6. PICK f : SumsTo(f, records, k - 1)
  BY <1>5
<1> DEFINE g == [j \in 0..k |-> IF j = k THEN AddTokens(f[k - 1], records[k].tokens) ELSE f[j]]
<1>7. /\ f[0] = NoTokens
      /\ \A j \in 1..(k - 1) : f[j] = AddTokens(f[j - 1], records[j].tokens)
  BY <1>5, <1>6, SumsStep
<1>8. \A j \in 0..k : g[j] = IF j = 0 THEN NoTokens ELSE AddTokens(g[j - 1], records[j].tokens)
  <2>1. \A j \in 0..(k - 1) : g[j] = f[j]
    BY <1>3
  <2>2. g[k] = AddTokens(f[k - 1], records[k].tokens)
    BY <1>3
  <2> HIDE DEF g
  <2>3. g[0] = NoTokens
    BY <1>3, <1>4, <1>7, <2>1
  <2>4. ASSUME NEW j \in 1..k PROVE g[j] = AddTokens(g[j - 1], records[j].tokens)
    <3>1. j - 1 \in 0..(k - 1) /\ (j = k \/ j \in 1..(k - 1))
      BY <1>3
    <3> QED
      BY <1>7, <2>1, <2>2, <3>1
  <2> QED
    BY <2>3, <2>4
<1>9. g = [j \in 0..k |-> g[j]]
  OBVIOUS
<1> HIDE DEF g
<1>10. SumsTo(g, records, k)
  BY <1>8, <1>9 DEF SumsTo
<1> QED
  BY <1>3, <1>10

LEMMA SumsAgree ==
    ASSUME NEW f, NEW g, NEW r, NEW s, NEW n \in Nat, NEW m \in Nat, n <= m,
           SumsTo(f, r, n), SumsTo(g, s, m), \A k \in 1..n : r[k] = s[k]
    PROVE  \A k \in 0..n : f[k] = g[k]
<1> DEFINE Bad == {k \in 0..n : f[k] # g[k]}
<1>1. SUFFICES ASSUME Bad # {} PROVE FALSE
  OBVIOUS
<1>2. PICK k \in Bad : \A j \in Bad : k <= j
  <2>1. Bad \subseteq Nat
    OBVIOUS
  <2> HIDE DEF Bad
  <2> QED
    BY <1>1, <2>1, LeastOf
<1>3. /\ f[0] = NoTokens /\ \A j \in 1..n : f[j] = AddTokens(f[j - 1], r[j].tokens)
      /\ g[0] = NoTokens /\ \A j \in 1..m : g[j] = AddTokens(g[j - 1], s[j].tokens)
  BY SumsStep
<1>4. k \in 0..n /\ f[k] # g[k]
  OBVIOUS
<1>5. k \in 1..n /\ k \in 1..m /\ k - 1 \in 0..n /\ ~(k <= k - 1)
  BY <1>3, <1>4
<1>6. k - 1 \notin Bad
  BY <1>2, <1>5
<1>7. f[k - 1] = g[k - 1]
  BY <1>5, <1>6
<1> QED
  BY <1>3, <1>4, <1>5, <1>7

\* The recursive total is the last of the sums.
LEMMA TotalIsTheLastSum ==
    ASSUME NEW records, Len(records) \in Nat
    PROVE  \E f : SumsTo(f, records, Len(records)) /\ TotalTokens(records) = f[Len(records)]
<1> DEFINE total == CHOOSE f : SumsTo(f, records, Len(records))
<1>1. SumsTo(total, records, Len(records))
  BY SumsExist
<1>2. TotalTokens(records) = total[Len(records)]
  BY DEF TotalTokens, SumsTo
<1> QED
  BY <1>1, <1>2

LEMMA TotalOfNone == TotalTokens(<<>>) = NoTokens
<1>1. Len(<<>>) = 0
  OBVIOUS
<1>2. PICK f : SumsTo(f, <<>>, 0) /\ TotalTokens(<<>>) = f[0]
  BY <1>1, TotalIsTheLastSum
<1> QED
  BY <1>2, SumsStep

\* One more record adds its counts.
LEMMA TotalOfAppend ==
    ASSUME NEW S, NEW records \in Seq(S), NEW r \in S
    PROVE  TotalTokens(Append(records, r)) = AddTokens(TotalTokens(records), r.tokens)
<1> DEFINE n == Len(records)
           s == Append(records, r)
<1>1. n \in Nat /\ Len(s) = n + 1 /\ s[n + 1] = r /\ \A k \in 1..n : records[k] = s[k]
  OBVIOUS
<1> HIDE DEF n, s
<1>2. PICK f : SumsTo(f, records, n) /\ TotalTokens(records) = f[n]
  BY <1>1, TotalIsTheLastSum DEF n
<1>3. PICK g : SumsTo(g, s, n + 1) /\ TotalTokens(s) = g[n + 1]
  BY <1>1, TotalIsTheLastSum
<1>4. f[n] = g[n]
  BY <1>1, <1>2, <1>3, SumsAgree
<1>5. g[n + 1] = AddTokens(g[n], s[n + 1].tokens)
  <2>1. n + 1 \in 1..(n + 1) /\ (n + 1) - 1 = n
    BY <1>1
  <2> QED
    BY <1>1, <1>3, <2>1, SumsStep
<1> QED
  BY <1>1, <1>2, <1>3, <1>4, <1>5 DEF s

------------------------------------------------------------------------------
\* The counts of a reported answer are its bill: Gemini's cached part is in its
\* prompt count and its thoughts are not in its candidates, Anthropic's counts
\* are disjoint, and a count that is missing is zero.
LEMMA ReportedIsBilled ==
    ASSUME TypeOK, NEW input \in Inputs, NEW output \in Outputs(ceiling)
    PROVE  AttemptTokens(Usage(input, output, TRUE), output.visible) = Bill(input, output)
<1>1. /\ input.fresh \in Nat /\ input.created \in Nat /\ input.read \in Nat
      /\ output.visible \in Nat /\ output.hidden \in Nat
  BY CompletionAssumption, OutputsAssumption DEF TypeOK
<1>2. None \notin Nat
  BY CompletionAssumption
<1>3. CASE vendor = "gemini"
  <2> DEFINE u == Usage(input, output, TRUE)
  <2>1. /\ Or(u.promptTokenCount, PromptEstimate) = input.fresh + input.created + input.read
        /\ Or(u.cachedContentTokenCount, 0) = input.read
        /\ Or(u.candidatesTokenCount, 0) = output.visible
        /\ Or(u.thoughtsTokenCount, 0) = output.hidden
    BY <1>1, <1>2, <1>3 DEF Usage, Or
  <2>2. u.candidatesTokenCount = None /\ u.thoughtsTokenCount = None
          => output.visible = 0 /\ output.hidden = 0
    BY <1>1, <1>2, <1>3 DEF Usage
  <2>3. EstimateTokens(0) = 0
    BY DEF EstimateTokens
  <2>4. AttemptTokens(u, output.visible)
          = [input        |-> input.fresh + input.created,
             input_cached |-> input.read,
             output       |-> output.visible + output.hidden]
    <3> HIDE DEF u
    <3>1. LET prompt == input.fresh + input.created + input.read
          IN  (IF prompt > input.read THEN prompt - input.read ELSE 0)
                = input.fresh + input.created
      BY <1>1
    <3>2. (IF u.candidatesTokenCount = None /\ u.thoughtsTokenCount = None
           THEN EstimateTokens(output.visible) ELSE output.visible + output.hidden)
             = output.visible + output.hidden
      BY <1>1, <2>2, <2>3
    <3> QED
      BY <1>3, <2>1, <3>1, <3>2 DEF AttemptTokens
  <2> QED
    BY <2>4 DEF Bill
<1>4. CASE vendor # "gemini"
  BY <1>1, <1>2, <1>4 DEF Usage, Or, AttemptTokens, Bill
<1> QED
  BY <1>3, <1>4

\* While the packet is open, the invoice is the total of its attempts.
Invoiced == pc # "done" => invoice = TotalTokens(attempts)

LEMMA NextInvoiced == IInv /\ Invoiced /\ TotalsMatchInvoice /\ [Next]_vars
                        => Invoiced' /\ TotalsMatchInvoice'
<1> SUFFICES ASSUME IInv, Invoiced, TotalsMatchInvoice, [Next]_vars
             PROVE  Invoiced' /\ TotalsMatchInvoice'
  OBVIOUS
<1>1. ASSUME pc # "done", pc' # "done", UNCHANGED <<attempts, invoice>>
      PROVE  Invoiced' /\ TotalsMatchInvoice'
  BY <1>1 DEF Invoiced, TotalsMatchInvoice
<1>2. CASE Send
  BY <1>1, <1>2 DEF Send
<1>3. CASE RejectTemperature
  BY <1>1, <1>3 DEF RejectTemperature
<1>4. CASE UNCHANGED vars
  BY <1>4 DEF vars, Invoiced, TotalsMatchInvoice
<1>5. attempts \in Seq(AttemptType) /\ Len(attempts) \in Nat /\ ceiling \in Nat
  BY CompletionAssumption DEF IInv, TypeOK, AttemptType
<1>6. ASSUME NEW tokens \in Tokens, NEW capped \in BOOLEAN, NEW ok \in BOOLEAN, pc # "done"
      PROVE  TotalTokens(Append(attempts, AttemptRecord(tokens, capped, ok)))
               = AddTokens(invoice, tokens)
  <2> DEFINE r == AttemptRecord(tokens, capped, ok)
  <2>1. r \in AttemptType /\ r.tokens = tokens
    BY <1>5, <1>6 DEF AttemptRecord, AttemptType
  <2> HIDE DEF r
  <2> QED
    BY <1>5, <1>6, <2>1, TotalOfAppend DEF Invoiced, r
<1>7. CASE VendorError
  <2> DEFINE tokens == [NoTokens EXCEPT !.input = PromptEstimate]
  <2>1. tokens \in Tokens
    BY CompletionAssumption DEF Tokens, NoTokens
  <2>2. /\ pc # "done" /\ pc' = "done" /\ invoice' = invoice
        /\ result'.tokens = TotalTokens(Append(attempts, AttemptRecord(tokens, FALSE, FALSE)))
        /\ result'.terminal_reason = "vendor_error"
    BY <1>7 DEF VendorError, Finish, FinalizeResult
  <2>3. result'.tokens = AddTokens(invoice, tokens)
    BY <1>6, <2>1, <2>2
  <2> QED
    BY <2>2, <2>3 DEF Invoiced, TotalsMatchInvoice
<1>8. ASSUME NEW input \in Inputs, NEW output \in Outputs(ceiling),
             NEW reported \in BOOLEAN, NEW capped \in BOOLEAN,
             Answer(input, output, reported, capped)
      PROVE  Invoiced' /\ TotalsMatchInvoice'
  <2> DEFINE tokens  == AttemptTokens(Usage(input, output, reported), output.visible)
  <2>2. PICK ok \in BOOLEAN : ok = ~capped
    <3>1. CASE capped = TRUE
      BY <3>1
    <3>2. CASE capped = FALSE
      BY <3>2
    <3> QED
      BY <3>1, <3>2
  <2> DEFINE records == Append(attempts, AttemptRecord(tokens, capped, ok))
  <2>1. tokens \in Tokens
    BY TokensAreCounts DEF IInv
  <2>3. IF reported THEN tokens = Bill(input, output) ELSE TRUE
    <3>1. CASE reported = TRUE
      BY <3>1, ReportedIsBilled DEF IInv
    <3>2. CASE reported = FALSE
      BY <3>2
    <3> QED
      BY <3>1, <3>2
  <2>4. /\ pc # "done" /\ invoice' = AddTokens(invoice, tokens)
        /\ IF capped THEN AfterCap(records) ELSE Finish(records, "success")
    BY <1>8, <2>2, <2>3 DEF Answer
  <2> HIDE DEF tokens
  <2>5. TotalTokens(records) = AddTokens(invoice, tokens)
    BY <1>6, <2>1, <2>4
  <2> HIDE DEF records
  <2>6. \/ /\ pc' = "done" /\ result'.tokens = TotalTokens(records)
           /\ result'.terminal_reason # "vendor_error"
        \/ pc' = "ready" /\ attempts' = records
    BY <2>4 DEF AfterCap, Finish, FinalizeResult
  <2> QED
    BY <2>4, <2>5, <2>6 DEF Invoiced, TotalsMatchInvoice
<1> QED
  BY <1>2, <1>3, <1>4, <1>7, <1>8 DEF Next, Respond

\* The totals of a result are what the vendor billed over all its attempts,
\* cached input and thinking included.
THEOREM TotalsAreTheInvoice == Spec => []TotalsMatchInvoice
<1>1. Init => Invoiced /\ TotalsMatchInvoice
  BY TotalOfNone DEF Init, Invoiced, TotalsMatchInvoice
<1> QED
  BY InitIInv, NextIInv, NextInvoiced, <1>1, PTL DEF Spec
==============================================================================
