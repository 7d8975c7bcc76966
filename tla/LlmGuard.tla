------------------------------- MODULE LlmGuard -------------------------------
(***************************************************************************)
(* llm.GuardedExtractor (internal/llm/guarded.go) with the circuit breaker *)
(* it shares between all households (breaker.go) and the monthly token     *)
(* budget of each (usage.go).  Its callers are the receipt workers and the *)
(* HTTP requests for a repair preview.  Durations are whole ticks; an      *)
(* instant is kept as its age, which stops growing once no guard can tell  *)
(* the difference.                                                         *)
(***************************************************************************)
EXTENDS Integers, FiniteSets, Sequences

CONSTANTS
    ReceiptWorkers,
    Repairs,      \* repair previews that may be running
    Households,
    Budget,       \* monthly tokens of a household, 0 for no cap
    MaxTokens,    \* most tokens one call can be billed
    Threshold,    \* failureThreshold
    Window,       \* failureWindow
    Cooldown,     \* cooldown
    MaxCooldown   \* maxCooldown

Callers == ReceiptWorkers \cup Repairs

ASSUME GuardAssumption ==
    /\ IsFiniteSet(Callers)
    /\ Budget \in Nat /\ MaxTokens \in Nat
    /\ Threshold \in Nat \ {0} /\ Window \in Nat \ {0}
    /\ Cooldown \in Nat \ {0} /\ MaxCooldown \in Nat /\ Cooldown <= MaxCooldown

VARIABLES
    state,        \* Breaker.state
    failures,     \* failureCount
    sinceFirst,   \* age of firstFailureAt; Window + 1 when older or unset
    sinceOpened,  \* age of openedAt, at most MaxCooldown
    cooldown,     \* currentCD
    probing,      \* probeInFlight
    calls,        \* where each caller is in ExtractForHousehold
    usage,        \* llm_usage_monthly of the current month
    recent,       \* history: ages of the last 429s with no success since
    sinceProbe    \* history: age of the last probe with no success since

breakerVars == <<state, failures, sinceFirst, sinceOpened, cooldown, probing>>
history == <<recent, sinceProbe>>
guardVars == <<breakerVars, calls, usage, history>>

\* "checked" has passed CheckBudget, "sent" and "probe" wait for the model,
\* "billing" has reported the success and not yet recorded its tokens.
CallState == {"idle", "checked", "sent", "probe", "billing"}

GuardTypeOK ==
    /\ state \in {"closed", "open", "halfOpen"}
    /\ failures \in 0..Threshold
    /\ sinceFirst \in 0..(Window + 1)
    /\ sinceOpened \in 0..MaxCooldown
    /\ cooldown \in Cooldown..MaxCooldown
    /\ probing \in BOOLEAN
    /\ calls \in [Callers -> [pc : CallState, house : Households]]
    /\ usage \in [Households -> Nat]

Lesser(a, b) == IF a <= b THEN a ELSE b

GuardInit ==
    /\ state = "closed" /\ failures = 0 /\ sinceFirst = Window + 1
    /\ sinceOpened = MaxCooldown /\ cooldown = Cooldown /\ probing = FALSE
    /\ calls \in [Callers -> [pc : {"idle"}, house : Households]]
    /\ usage = [h \in Households |-> 0]
    /\ recent = <<>> /\ sinceProbe = 2 * MaxCooldown

Step(c, from, to) ==
    /\ calls[c].pc = from
    /\ calls' = [calls EXCEPT ![c].pc = to]

-----------------------------------------------------------------------------
(* Before the call: CheckBudget, then Breaker.Allow.                       *)

\* Seeded fault: the budget compared with > in place of >=.
WithinBudgetLate(h) == Budget > 0 => usage[h] <= Budget

WithinBudget(h) == Budget > 0 => usage[h] < Budget

\* A refusal changes nothing.
CheckBudget(c, h) ==
    /\ calls[c].pc = "idle"
    /\ WithinBudget(h)
    /\ calls' = [calls EXCEPT ![c] = [pc |-> "checked", house |-> h]]
    /\ UNCHANGED <<breakerVars, usage, history>>

Allowed ==
    \/ state = "closed"
    \/ state = "open" /\ sinceOpened >= cooldown
    \/ state = "halfOpen" /\ ~probing

Allow(c) ==
    /\ Allowed
    /\ IF state = "closed"
       THEN /\ Step(c, "checked", "sent")
            /\ UNCHANGED <<state, probing, sinceProbe>>
       ELSE /\ Step(c, "checked", "probe")
            /\ state' = "halfOpen"
            /\ probing' = TRUE
            /\ sinceProbe' = 0
    /\ UNCHANGED <<failures, sinceFirst, sinceOpened, cooldown, usage, recent>>

Reject(c) ==
    /\ ~Allowed
    /\ Step(c, "checked", "idle")
    /\ UNCHANGED <<breakerVars, usage, history>>

-----------------------------------------------------------------------------
(* After the call.  Every answer is handled alike, whoever was the probe.  *)

Answered(c, to) == Step(c, "sent", to) \/ Step(c, "probe", to)

\* Seeded fault: a success leaves the failure count and its window.
ResetAfterSuccessKeepsCount == UNCHANGED <<failures, sinceFirst>>

ResetAfterSuccess == failures' = 0 /\ sinceFirst' = Window + 1

OnSuccess(c) ==
    /\ Answered(c, "billing")
    /\ ResetAfterSuccess
    /\ state' = "closed"
    /\ IF state = "closed"
       THEN UNCHANGED <<probing, cooldown>>
       ELSE probing' = FALSE /\ cooldown' = Cooldown
    /\ recent' = <<>> /\ sinceProbe' = 2 * MaxCooldown
    /\ UNCHANGED <<sinceOpened, usage>>

\* Seeded fault: no cap on the backoff.
BackoffUncapped == 2 * cooldown

Backoff == Lesser(2 * cooldown, MaxCooldown)

Reopen ==
    /\ state = "halfOpen"
    /\ state' = "open"
    /\ probing' = FALSE
    /\ sinceOpened' = 0
    /\ cooldown' = Backoff
    /\ UNCHANGED <<failures, sinceFirst>>

CountFailure ==
    /\ state = "closed"
    /\ failures' = IF sinceFirst > Window THEN 1 ELSE failures + 1
    /\ sinceFirst' = IF sinceFirst > Window THEN 0 ELSE sinceFirst
    /\ IF failures' >= Threshold
       THEN state' = "open" /\ sinceOpened' = 0 /\ cooldown' = Cooldown
       ELSE UNCHANGED <<state, sinceOpened, cooldown>>
    /\ UNCHANGED probing

\* The last Threshold ages, the newest at the end.
Remember(ages, age) ==
    IF Len(ages) < Threshold THEN Append(ages, age) ELSE Append(Tail(ages), age)

OnRateLimit(c) ==
    /\ Answered(c, "idle")
    /\ \/ Reopen
       \/ CountFailure
       \/ state = "open" /\ UNCHANGED breakerVars
    /\ recent' = Remember(recent, 0)
    /\ UNCHANGED <<usage, sinceProbe>>

\* OnOtherError is a no-op, for a probe too.
OnOtherError(c) ==
    /\ Answered(c, "idle")
    /\ UNCHANGED <<breakerVars, usage, history>>

\* RecordMonthlyUsage, in one upsert; its error is ignored, as if n were 0.
RecordUsage(c) ==
    /\ Step(c, "billing", "idle")
    /\ \E n \in 0..MaxTokens :
          usage' = [usage EXCEPT ![calls[c].house] = @ + n]
    /\ UNCHANGED <<breakerVars, history>>

-----------------------------------------------------------------------------
Tick ==
    /\ sinceFirst' = Lesser(sinceFirst + 1, Window + 1)
    /\ sinceOpened' = Lesser(sinceOpened + 1, MaxCooldown)
    /\ recent' = [i \in DOMAIN recent |-> Lesser(recent[i] + 1, Window + 1)]
    /\ sinceProbe' = Lesser(sinceProbe + 1, 2 * MaxCooldown)
    /\ UNCHANGED <<state, failures, cooldown, probing, calls, usage>>

\* The month in UTC is part of the key, so a new month starts a new row.
NewMonth ==
    /\ usage' = [h \in Households |-> 0]
    /\ UNCHANGED <<breakerVars, calls, history>>

\* A new process: the breaker is not persisted, the usage is.
Restart ==
    /\ state' = "closed" /\ failures' = 0 /\ sinceFirst' = Window + 1
    /\ sinceOpened' = MaxCooldown /\ cooldown' = Cooldown /\ probing' = FALSE
    /\ calls' = [c \in Callers |-> [calls[c] EXCEPT !.pc = "idle"]]
    /\ recent' = <<>> /\ sinceProbe' = 2 * MaxCooldown
    /\ UNCHANGED usage

Attempt(c) ==
    \/ \E h \in Households : CheckBudget(c, h)
    \/ Allow(c) \/ Reject(c) \/ RecordUsage(c)

Answer(c) == OnSuccess(c) \/ OnRateLimit(c) \/ OnOtherError(c)

GuardNext ==
    \/ \E c \in Callers : Attempt(c) \/ Answer(c)
    \/ Tick \/ NewMonth \/ Restart

GuardSpec == GuardInit /\ [][GuardNext]_guardVars

\* Time passes, users keep retrying, and every call comes back: the API client
\* and the CLI both give up in the end.
GuardFairness ==
    /\ WF_guardVars(Tick)
    /\ \A c \in Callers : WF_guardVars(Answer(c)) /\ WF_guardVars(Attempt(c))

LiveGuardSpec == GuardSpec /\ GuardFairness

-----------------------------------------------------------------------------
\* The probe slot is taken exactly while the breaker is half open, whatever late
\* answers of calls sent before the trip do to it: no call ever waits behind a
\* slot that an open or closed breaker forgot to free, and Allow's fallback for
\* a free slot ("shouldn't normally happen", breaker.go:114-118) is dead code.
ProbingExact == probing <=> state = "halfOpen"

\* The breaker's state is well formed, the probe slot with it.
GuardSound == GuardTypeOK /\ ProbingExact

\* The calls of a household that may still be billed.
Unbilled(h) == {c \in Callers : calls[c].house = h /\ calls[c].pc # "idle"}

\* The budget is checked before a call and charged after it, so it can be
\* overshot, by what the concurrent calls of the household cost and no more.
OvershootBounded ==
    Budget > 0 =>
        \A h \in Households :
            usage[h] + MaxTokens * Cardinality(Unbilled(h))
                < Budget + MaxTokens * Cardinality(Callers)

\* The breaker trips only on Threshold 429s received within Window of each
\* other and with no success between them (breaker.go:28-29, 33-37).
TripJustified ==
    [][state = "closed" /\ state' = "open" =>
         Len(recent') = Threshold /\ Head(recent') <= Window]_guardVars

\* Two probes with no success between them are a doubled cooldown apart, or
\* the maximum ("exponential backoff on repeated half-open probe failures").
BackoffGrows ==
    [][\A c \in Callers :
         calls[c].pc # "probe" /\ calls'[c].pc = "probe" =>
            sinceProbe >= Lesser(2 * Cooldown, MaxCooldown)]_guardVars

\* The breaker opens for a reason and lets calls through in good time, never
\* sooner.
BreakerLawful == TripJustified /\ BackoffGrows

\* ErrCircuitOpen "will clear on cooldown" (guarded.go:56-57): a breaker that
\* refuses calls comes to let one through.
ClearsOnCooldown == ~Allowed ~> Allowed

\* "Accepted overshoot is bounded by worker concurrency" (guarded.go:65-66).
OvershootByWorkers ==
    Budget > 0 =>
        \A h \in Households : usage[h] < Budget + MaxTokens * Cardinality(ReceiptWorkers)
=============================================================================
