------------------------------ MODULE Display ------------------------------
(***************************************************************************)
(* What the interface shows for an amount and for a server error: the       *)
(* formatters that pick a unit or a precision by the size of the amount,    *)
(* and the lookup of a known message inside one the server wrapped.  A      *)
(* behaviour walks over the amounts from a starting point.                  *)
(***************************************************************************)
EXTENDS Integers, Sequences, FiniteSets, FiniteSetsExt

CONSTANTS Starts,   \* kind -> the amounts a walk begins at
          Span,     \* bound: amounts of a walk
          K         \* bytes of a kilobyte (1024 in the code; smaller keeps gigabytes in TLC's integers)

VARIABLES kind,     \* "duration" (ms), "bytes", "credits" (1/10000), "uptime" (s) or "error"
          first, n, \* where the walk began, and the amount it is at
          message   \* the server's message, as words

vars == <<kind, first, n, message>>

\* Math.round of a non-negative quotient.
Round(a, b) == (2 * a + b) \div (2 * b)

(***************************************************************************)
(* Amounts (lib/format.ts): the unit, and what is shown in units of step    *)
(***************************************************************************)
\* Rounded to the precision shown, and by that value the unit is chosen; minutes and seconds are
\* the whole seconds, divided.
FormatDurationMs(ms) ==
  LET step    == IF ms < 10000 THEN 10 ELSE 100
      rounded == Round(ms, step) * step
      again   == IF rounded < 10000 THEN 10 ELSE 100
  IN  IF ms < 1000 THEN [unit |-> "ms", step |-> 1, shown |-> ms]
      ELSE IF rounded < 60000 THEN [unit |-> "s", step |-> again, shown |-> Round(rounded, again)]
      ELSE [unit |-> "min_s", step |-> 1000, shown |-> Round(ms, 1000)]

\* Faulty variant: the unit goes by the amount before rounding.
StaysUnrounded(bytes, size) == bytes < K * size

\* A unit is kept while the rounded value is below the next one.
Stays(bytes, size) == Round(10 * bytes, size) < 10 * K

\* Tenths of the unit; gigabytes are the last unit.
FormatBytes(bytes) ==
  LET size == IF Stays(bytes, K) THEN K
              ELSE IF Stays(bytes, K * K) THEN K * K
              ELSE K * K * K
  IN  IF bytes < K THEN [unit |-> "B", step |-> 1, shown |-> bytes]
      ELSE [unit  |-> IF size = K THEN "kB" ELSE IF size = K * K THEN "MB" ELSE "GB",
            step  |-> size, shown |-> Round(10 * bytes, size)]

\* Above zero, and below half a cent of a credit.
RoundsToZero(c) == c > 0 /\ c < 50
FormatCredits(c) == IF RoundsToZero(c) THEN [unit |-> "<", step |-> 100, shown |-> 1]
                    ELSE [unit |-> "plain", step |-> 100, shown |-> Round(c, 100)]

\* The two largest units, the smaller one cut off.
FormatUptime(s) ==
  LET cut == IF s >= 86400 THEN 3600 ELSE 60
  IN  [unit |-> IF s >= 86400 THEN "d_h" ELSE IF s >= 3600 THEN "h_min" ELSE "min", step |-> cut, shown |-> s \div cut]

(***************************************************************************)
(* Errors (lib/api/server-errors.ts)                                        *)
(***************************************************************************)
\* The phrases, as words, in the order of the table.
Table == << [words |-> <<"session", "missing", "or", "expired">>, key |-> "ssoSessionExpired"],
            [words |-> <<"session", "expired">>,                  key |-> "ssoSessionExpired"],
            [words |-> <<"authorization", "timeout">>,            key |-> "ssoTimeout"],
            [words |-> <<"authorization", "failed">>,             key |-> "ssoDenied"],
            [words |-> <<"device", "authorization", "failed">>,   key |-> "ssoRegisterFailed"],
            [words |-> <<"approve", "authorization", "failed">>,  key |-> "ssoTokenFlowFailed"] >>

Inside(p, text) == \E i \in 0 .. (Len(text) - Len(p)) : SubSeq(text, i + 1, i + Len(p)) = p

\* The longest phrase that is in the message, the earlier one of two as long.
Phrase(text) ==
  LET found == {i \in DOMAIN Table : Inside(Table[i].words, text)}
      best  == {i \in found : \A j \in found : Len(Table[j].words) <= Len(Table[i].words)}
  IN  IF found = {} THEN "none" ELSE Table[Min(best)].key

\* Parts joined by ";" are looked up one by one; a part that is not known is shown as it is.
Parts(text) ==
  LET cuts == {0, Len(text) + 1} \cup {i \in DOMAIN text : text[i] = "semicolon"}
      next(i) == Min({j \in cuts : j > i})
  IN  {SubSeq(text, i + 1, next(i) - 1) : i \in cuts \ {Len(text) + 1}}
ErrorMessage(text) == {Phrase(p) : p \in Parts(text)}

(***************************************************************************)
(* The walk                                                                 *)
(***************************************************************************)
Kinds == {"duration", "bytes", "credits", "uptime"}

Shown(k, a) == CASE k = "duration" -> FormatDurationMs(a)
                 [] k = "bytes"    -> FormatBytes(a)
                 [] k = "credits"  -> FormatCredits(a)
                 [] k = "uptime"   -> FormatUptime(a)

\* What the reader takes the text for, in the amount's own unit.
Reading(k, r) == IF k = "bytes" /\ r.unit # "B" THEN (r.shown * r.step) \div 10 ELSE r.shown * r.step

Init == \/ /\ kind \in Kinds /\ first \in Starts[kind] /\ n = first /\ message = <<>>
        \/ /\ kind = "error" /\ first = 0 /\ n = 0
           /\ message \in {<<w>> : w \in {"token", "unknown"}}

More == /\ kind # "error" /\ n < first + Span
        /\ n' = n + 1
        /\ UNCHANGED <<kind, first, message>>

\* The server wraps a phrase, and joins one error for each token.
Wrap(i) == /\ kind = "error" /\ Len(message) < 9
           /\ message' = message \o Table[i].words
           /\ UNCHANGED <<kind, first, n>>
Join    == /\ kind = "error" /\ Len(message) < 8 /\ message[Len(message)] # "semicolon"
           /\ message' = message \o <<"semicolon", "token">>
           /\ UNCHANGED <<kind, first, n>>

Next == More \/ Join \/ \E i \in DOMAIN Table : Wrap(i)
Spec == Init /\ [][Next]_vars

(***************************************************************************)
(* Properties                                                               *)
(***************************************************************************)
TypeOK == kind \in Kinds \cup {"error"} /\ n \in Nat /\ first \in Nat

\* An amount is shown within its last digit, never with a unit at its limit ("60.0 s",
\* "1,024.0 kB"), and only zero is shown as zero (lib/format.ts:99-174).
ShownHonestly ==
  kind # "error" =>
    LET r == Shown(kind, n)
    IN  /\ r.unit = "s" => r.shown * r.step < 60000
        /\ (r.unit = "s" /\ r.step = 10) => r.shown < 1000
        /\ r.unit \in {"kB", "MB"} => r.shown < 10 * K
        /\ kind = "credits" => (r.shown = 0 <=> n = 0)
        /\ kind = "duration" => 2 * Max({Reading(kind, r) - n, n - Reading(kind, r)}) <= r.step
        /\ kind = "uptime" => Reading(kind, r) <= n /\ n < Reading(kind, r) + r.step

\* A phrase the server wrapped or joined with others is told as what it is: "device authorization
\* failed" never reads as "authorization failed", which is inside it (server-errors.ts:87-126).
PhraseToldApart ==
  \A i \in DOMAIN Table : \A p \in Parts(message) :
     (kind = "error" /\ Len(p) >= Len(Table[i].words)
        /\ SubSeq(p, 1 + Len(p) - Len(Table[i].words), Len(p)) = Table[i].words
        /\ (\A j \in DOMAIN Table : (j # i /\ Inside(Table[j].words, p)) => Inside(Table[j].words, Table[i].words)))
     => Table[i].key \in ErrorMessage(message)

\* What is told of an amount and of an error is true of it.
AmountsToldRight == TypeOK /\ ShownHonestly /\ PhraseToldApart
=============================================================================
