------------------------------- MODULE Backoff -------------------------------
(***************************************************************************)
(* The backoff strategies of src/retry and their builder, as operators.    *)
(* A backoff is a record tagged with its type; NextDelayMillis(b, n) is    *)
(* the SET of delays b.NextDelayMillis(n) may return, the random draws     *)
(* being nondeterministic.  A float64 rate or multiplier is an integer of  *)
(* hundredths (0.1 is 10, 1.15 is 115), and int64(x) of a float product is *)
(* FloatToInt64.  A spec string is modelled by its parts: whether it holds *)
(* "=", its key, and the fields of its values split at ":".                *)
(***************************************************************************)
EXTENDS Integers, Sequences, SequencesExt, Bitwise

CONSTANT MaxInt64   \* math.MaxInt64 (TLC's integers are narrower)

Nil == [type |-> "nil"]
Failed == [type |-> "error"]    \* a constructor or parse that returned err
\* A field of a spec's values: a number, blank, or text strconv rejects.
Num(n) == [ok |-> TRUE, blank |-> FALSE, v |-> n]
Blank == [ok |-> TRUE, blank |-> TRUE, v |-> 0]
Bad == [ok |-> FALSE, blank |-> FALSE, v |-> 0]
NoSpec == [eq |-> FALSE, key |-> "", fields |-> <<Blank>>]   \* spec ""

\* int64(float64(num) / float64(den)) for num, den >= 0: truncation, except
\* that a product whose exact value is an integer may round to just below it.
FloatToInt64(num, den) ==
    {num \div den} \cup (IF num % den = 0 /\ num > 0 THEN {num \div den - 1} ELSE {})

\* saturatedMultiply(left, right) with right = num / den.
SaturatedMultiply(left, num, den) ==
    IF (left * num) \div den < MaxInt64 THEN FloatToInt64(left * num, den) ELSE {MaxInt64}

\* The draws of randomInt64 that matter: every residue modulo bound and
\* every masked value already occurs among the draws below 2 * bound.
RandomDraws(bound) == 0..(2 * bound - 1)

\* Mutant of NextRandomInt64IncludingZero: the range its comment states,
\* [0, bound], by reducing modulo bound + 1.
NextRandomInt64IncludingZeroAsCommented(bound) ==
    IF bound <= 0 THEN {bound}
    ELSE {u % (bound + 1) : u \in RandomDraws(bound + 1)}

\* nextRandomInt64IncludingZero: a power of two is masked; otherwise a
\* draw u is reduced modulo bound, drawing again while u < u % bound - mask.
NextRandomInt64IncludingZero(bound) ==
    LET mask == bound - 1 IN
    IF bound <= 0 THEN {bound}
    ELSE IF (bound & mask) = 0 THEN {r & mask : r \in RandomDraws(bound)}
    ELSE {u % bound : u \in {x \in RandomDraws(bound) : ~(x < (x % bound) - mask)}}

\* nextRandomInt64
NextRandomInt64(bound) ==
    IF bound <= 0 THEN {bound}
    ELSE {d + 1 : d \in NextRandomInt64IncludingZero(bound - 1)}

(***************************************************************************)
(* Constructors, with their argument checks.                               *)
(***************************************************************************)
NewFixedBackoff(delay) ==
    IF delay >= 0 THEN [type |-> "fixed", delay |-> delay] ELSE Failed

NoDelayBackoff == [type |-> "fixed", delay |-> 0]
NoRetry == [type |-> "fixed", delay |-> -1]

NewExponentialBackoff(initial, max, mult) ==
    IF mult <= 100 \/ initial < 0 \/ initial > max THEN Failed
    ELSE [type |-> "exponential", initial |-> initial, max |-> max, mult |-> mult]

NewRandomBackoff(min, max) ==
    IF min < 0 \/ min > max THEN Failed
    ELSE [type |-> "random", min |-> min, max |-> max, bound |-> max - min]

NewJitterAddingBackoff(delegate, minRate, maxRate) ==
    IF \/ delegate = Nil
       \/ minRate \notin -100..100 \/ maxRate \notin -100..100
       \/ minRate > maxRate
    THEN Failed
    ELSE [type |-> "jitter", minRate |-> minRate, maxRate |-> maxRate,
          delegate |-> delegate]

NewAttemptLimitingBackoff(delegate, limit) ==
    IF delegate = Nil \/ limit <= 0 THEN Failed
    ELSE [type |-> "limit", delegate |-> delegate, limit |-> limit]

(***************************************************************************)
(* NextDelayMillis of each strategy.                                       *)
(***************************************************************************)
\* ExponentialBackoff: initial * multiplier^(n-1), saturated, capped at max.
ExponentialDelays(b, n) ==
    LET k == n - 1
        num == IF k >= 0 THEN b.mult ^ k ELSE 100 ^ (-k)
        den == IF k >= 0 THEN 100 ^ k ELSE b.mult ^ (-k)
    IN IF n = 1 THEN {b.initial}
       ELSE {IF d > b.max THEN b.max ELSE d :
               d \in SaturatedMultiply(b.initial, num, den)}

RandomDelays(b) ==
    IF b.min /= b.max THEN {d + b.min : d \in NextRandomInt64(b.bound)}
    ELSE {b.min}

\* JitterAddingBackoff, given the delegate's delay tmp.
JitterDelays(b, tmp) ==
    IF tmp <= 0 THEN {tmp}
    ELSE UNION {{IF lo + d < 0 THEN 0 ELSE lo + d :
                   d \in NextRandomInt64IncludingZero(hi - lo + 1)} :
                 lo \in FloatToInt64(tmp * (100 + b.minRate), 100),
                 hi \in FloatToInt64(tmp * (100 + b.maxRate), 100)}

\* Mutant of LimitReached: the attempt at the limit is still allowed.
LimitReachedAfter(b, n) == n > b.limit

\* AttemptLimitingBackoff: numAttemptsSoFar >= limit returns -1.
LimitReached(b, n) == n >= b.limit

RECURSIVE NextDelayMillis(_, _)
NextDelayMillis(b, n) ==
    CASE b.type = "fixed" -> {b.delay}
      [] b.type = "exponential" -> ExponentialDelays(b, n)
      [] b.type = "random" -> RandomDelays(b)
      [] b.type = "jitter" ->
            UNION {JitterDelays(b, tmp) : tmp \in NextDelayMillis(b.delegate, n)}
      [] b.type = "limit" ->
            IF LimitReached(b, n) THEN {-1} ELSE NextDelayMillis(b.delegate, n)

(***************************************************************************)
(* parseFromSpec and its parsers.  Defaults are those of consts.go.        *)
(***************************************************************************)
\* A field of the values: its number, or the default when it is blank.
FieldOr(f, default) == IF f.blank THEN default ELSE f.v

\* strconv fails on one of the fields.
AnyBad(fields) == \E i \in DOMAIN fields : ~fields[i].ok

\* fixed=delayMillis: the values are not split, so a ":" is a parse error.
ParseFixedBackoff(fields) ==
    IF Len(fields) /= 1 \/ AnyBad(fields) THEN Failed
    ELSE NewFixedBackoff(FieldOr(fields[1], 200))

\* random=minDelayMillis:maxDelayMillis
ParseRandomBackoff(fields) ==
    IF Len(fields) /= 2 \/ AnyBad(fields) THEN Failed
    ELSE NewRandomBackoff(FieldOr(fields[1], 0), FieldOr(fields[2], 10000))

\* exponential=initialDelayMillis:maxDelayMillis:multiplier
ParseExponentialBackoff(fields) ==
    IF Len(fields) /= 3 \/ AnyBad(fields) THEN Failed
    ELSE NewExponentialBackoff(FieldOr(fields[1], 200), FieldOr(fields[2], 10000),
                               FieldOr(fields[3], 200))

ParseFromSpec(spec) ==
    CASE ~spec.eq -> Failed
      [] spec.key = "exponential" -> ParseExponentialBackoff(spec.fields)
      [] spec.key = "fixed" -> ParseFixedBackoff(spec.fields)
      [] spec.key = "random" -> ParseRandomBackoff(spec.fields)
      [] OTHER -> Failed

(***************************************************************************)
(* BackoffBuilder: [spec, base, layer]; each setter returns the builder.   *)
(***************************************************************************)
NewBackoffBuilder == [spec |-> NoSpec, base |-> Nil, layer |-> <<>>]

BaseBackoffSpec(bld, spec) == [bld EXCEPT !.spec = spec]

BaseBackoff(bld, base) == IF base /= Nil THEN [bld EXCEPT !.base = base] ELSE bld

WithLimit(bld, limit) ==
    [bld EXCEPT !.layer = Append(@, [kind |-> "limit", limit |-> limit])]

WithJitterBound(bld, minRate, maxRate) ==
    [bld EXCEPT !.layer = Append(@, [kind |-> "jitter", min |-> minRate, max |-> maxRate])]

WithJitter(bld, rate) == WithJitterBound(bld, -rate, rate)

\* One layer of Build's loop wrapped around r; an error ends the loop.
Wrap(r, l) ==
    IF r = Failed THEN Failed
    ELSE IF l.kind = "limit" THEN NewAttemptLimitingBackoff(r, l.limit)
    ELSE NewJitterAddingBackoff(r, l.min, l.max)

\* Build: the stored base, or the base parsed from the spec, which is then
\* stored; then every layer in order.  [r |-> the result, bld |-> the
\* builder after the call].
Build(bld) ==
    LET base == IF bld.base /= Nil THEN bld.base
                ELSE IF bld.spec = NoSpec THEN Failed
                ELSE ParseFromSpec(bld.spec)
    IN [r |-> FoldLeft(Wrap, base, bld.layer),
        bld |-> IF base = Failed THEN bld ELSE [bld EXCEPT !.base = base]]

\* defaultBackoff of the client (util.go): exponential 50..5000 ms by 1.15,
\* jitter 0.1, limit 3; the errors are dropped, so a failure would give nil.
DefaultBackoff ==
    Build(WithLimit(WithJitter(BaseBackoff(NewBackoffBuilder,
                       NewExponentialBackoff(50, 5000, 115)), 10), 3)).r
====
