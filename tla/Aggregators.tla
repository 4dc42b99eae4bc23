----------------------------- MODULE Aggregators -----------------------------
(***************************************************************************)
(* Aggregators, src/natives/aggregator_natives: integers that a session    *)
(* can change and compare without reading them, so that transactions that  *)
(* change the same aggregator can run in parallel.                         *)
(*                                                                         *)
(* One session works on one aggregator, one snapshot and one derived       *)
(* string, the fields of a resource.  The resolver predicts the number of  *)
(* the aggregator; other sessions commit meanwhile (OthersCommit).  At the *)
(* end the executor validates what the session learnt against the number   *)
(* as it is then and lets the session run again where it does not fit.     *)
(*                                                                         *)
(* The natives of aggregator_v2.rs have two branches: without delayed      *)
(* fields the struct holds the number, which the session reads with the    *)
(* resource; with them it holds an identifier.  plain is a ghost: what the *)
(* first branch would have done in the same session for every number that  *)
(* the aggregator could have had.                                          *)
(*                                                                         *)
(* A string is the texts around a number; only their length matters.       *)
(***************************************************************************)
EXTENDS Integers, Deltas

CONSTANTS
  MaxOf,        \* the largest value of the types u64 and u128
  Inputs,       \* numbers that callers pass
  Texts, TextLength,   \* prefix and suffix together
  DerivedStringInputMaxLength,
  Nothing,      \* there is no snapshot, string or answer
  MaxOps        \* bound: natives a session calls

IntElement == {"u64", "u128"}
Bases == 0 .. MaxOf["u128"]
Aggregator == [type : IntElement, max : Bases, value : Bases]

\* An aggregator or a snapshot in a session, DelayedFieldData: a known number, or a
\* delta to the one in storage.
DelayedField == [known : BOOLEAN, value : Int]
DerivedString == [text : Texts, of : {Nothing} \cup DelayedField]

ASSUME MaxAssumption ==
  /\ MaxOf \in [IntElement -> Nat] /\ MaxOf["u64"] <= MaxOf["u128"]
  /\ Inputs \subseteq Bases
ASSUME TextAssumption ==
  TextLength \in [Texts -> Nat] /\ DerivedStringInputMaxLength \in Nat
ASSUME NoBoundAssumption == NoBound \notin Int
ASSUME NothingAssumption ==
  Nothing \notin Int \cup Aggregator \cup DelayedField \cup DerivedString \cup {"committed"}
ASSUME OpsAssumption == MaxOps \in Nat

VARIABLES
  version,      \* "v1": aggregator.move, "v2": aggregator_v2.move
  aggregator_v2_api_enabled,
  agg,          \* the aggregator in storage: its type, max_value and value
  snap,         \* the snapshot in storage
  string,       \* the derived string in storage
  mode,         \* "idle", or how the session runs: "plain" or "delayed"
  work,         \* what the session has
  plain,        \* ghost: the plain session, by the number it started from
  outcome       \* how the last session ended

storedVars == <<agg, snap, string>>
aggVars == <<version, aggregator_v2_api_enabled, storedVars, mode, work, plain, outcome>>

-----------------------------------------------------------------------------
(* The data of a session *)

Known(n) == [known |-> TRUE, value |-> n]
Delta(n) == [known |-> FALSE, value |-> n]

\* A field for the number b in storage.
At(field, b) == IF field.known THEN field.value ELSE b + field.value

\* base is what the resolver predicts, exact that the session read it, made
\* and destroyed what happened to aggregators of version 1.
Start(a) ==
  LET there == a # Nothing
  IN  [type |-> IF there THEN a.type ELSE "u128",
       max |-> IF there THEN a.max ELSE 0,
       agg |-> IF there THEN Delta(0) ELSE Nothing,
       base |-> IF there THEN a.value ELSE 0,
       history |-> EmptyHistory, exact |-> FALSE,
       made |-> FALSE, destroyed |-> FALSE,
       snap |-> Nothing, snapRead |-> Nothing, string |-> Nothing, ops |-> 0]

Now == At(work.agg, work.base)

\* The session reads the number.
ReadExactly(w) == [w EXCEPT !.agg = IF @.known THEN @ ELSE Known(At(@, w.base)),
                            !.exact = @ \/ ~w.agg.known]

\* Mutant: the resource is read but not its dependence recorded.
GetContextData_Untracked(w) ==
  IF mode = "delayed" THEN w ELSE [ReadExactly(w) EXCEPT !.exact = FALSE]

\* get_context_data: without delayed fields the number itself is at hand.
GetContextData(w) == IF mode = "delayed" THEN w ELSE ReadExactly(w)

PlainStart(a) ==
  [b \in Bases |-> [agrees |-> TRUE, value |-> IF a = Nothing THEN Nothing ELSE b,
                    snap |-> Nothing, string |-> Nothing]]

\* One that answered something else.
Disagrees == [agrees |-> FALSE, value |-> Nothing, snap |-> Nothing, string |-> Nothing]

\* The plain sessions go on to next if they answer as the session does.
PlainStep(next, answers, answer) ==
  plain' = [b \in Bases |-> IF plain[b].agrees /\ answers[b] = answer THEN next[b]
                            ELSE Disagrees]

NoAnswers == [b \in Bases |-> Nothing]

-----------------------------------------------------------------------------
(* How a native ends *)

Dropped(how) ==
  /\ mode' = "idle" /\ work' = Start(agg) /\ plain' = PlainStart(agg)
  /\ outcome' = how
  /\ UNCHANGED <<version, aggregator_v2_api_enabled, storedVars>>

Goes(w) ==
  /\ work' = [w EXCEPT !.ops = @ + 1]
  /\ outcome' = Nothing
  /\ UNCHANGED <<version, aggregator_v2_api_enabled, storedVars, mode>>

Runs(v) == version = v /\ mode # "idle" /\ work.ops < MaxOps

\* abort_if_aggregator_api_not_enabled.
V2 == Runs("v2") /\ aggregator_v2_api_enabled

ApiNotEnabled ==
  Runs("v2") /\ ~aggregator_v2_api_enabled /\ Dropped("EAGGREGATOR_API_NOT_ENABLED")

-----------------------------------------------------------------------------
(* aggregator_v2.rs: the aggregator *)

\* create_aggregator and create_unbounded_aggregator; the new one takes the
\* place of the old.
CreateAggregatorWithMaxValue(type, max) ==
  /\ Goes([work EXCEPT !.type = type, !.max = max, !.agg = Known(0)])
  /\ PlainStep([b \in Bases |-> [plain[b] EXCEPT !.value = 0]],
               NoAnswers, Nothing)

CreateAggregator ==
  /\ V2
  /\ \/ \E type \in IntElement, max \in Inputs :
          max <= MaxOf[type] /\ CreateAggregatorWithMaxValue(type, max)
     \/ Dropped("EUNSUPPORTED_AGGREGATOR_TYPE")

CreateUnboundedAggregator ==
  /\ V2
  /\ \/ \E type \in IntElement : CreateAggregatorWithMaxValue(type, MaxOf[type])
     \/ Dropped("EUNSUPPORTED_AGGREGATOR_TYPE")

\* Mutant: a failed try is not recorded.
TryAddDelta_SuccessOnly(w, input) ==
  LET ok == InBounds(At(w.agg, w.base), input, w.max)
      h == Tried(w.history, w.base, w.agg.value + input, w.max)
  IN  IF ~ok THEN w
      ELSE IF w.agg.known THEN [w EXCEPT !.agg = Known(@.value + input)]
      ELSE [w EXCEPT !.agg = Delta(@.value + input), !.history = h]

\* Mutant: a failed try is recorded as if it had succeeded.
TryAddDelta_NeverFails(w, input) ==
  LET ok == InBounds(At(w.agg, w.base), input, w.max)
      h == RecordSuccess(w.history, w.agg.value + input)
  IN  IF w.agg.known THEN [w EXCEPT !.agg = IF ok THEN Known(@.value + input) ELSE @]
      ELSE [w EXCEPT !.agg = IF ok THEN Delta(@.value + input) ELSE @, !.history = h]

\* DelayedFieldData::try_add_delta.
TryAddDelta(w, input) ==
  LET ok == InBounds(At(w.agg, w.base), input, w.max)
      h == Tried(w.history, w.base, w.agg.value + input, w.max)
  IN  IF w.agg.known THEN [w EXCEPT !.agg = IF ok THEN Known(@.value + input) ELSE @]
      ELSE [w EXCEPT !.agg = IF ok THEN Delta(@.value + input) ELSE @, !.history = h]

\* An input over the maximum is refused without a look at the number.
Try(input) ==
  LET w == GetContextData(work)
      in(value) == InBounds(value, input, work.max)
  IN  /\ V2 /\ input <= MaxOf[work.type]
      /\ Goes(TryAddDelta(w, input))
      /\ PlainStep([b \in Bases |-> IF in(plain[b].value)
                                    THEN [plain[b] EXCEPT !.value = @ + input]
                                    ELSE plain[b]],
                   [b \in Bases |-> in(plain[b].value)],
                   in(At(w.agg, w.base)))

TryAdd(n) == Try(n)
TrySub(n) == Try(0 - n)

\* DelayedFieldCompare.
Compares(method, value, n) ==
  CASE method = "LessThan" -> value < n
    [] method = "LessThanOrEqual" -> value <= n
    [] method = "GreaterThan" -> value > n
    [] method = "GreaterThanOrEqual" -> value >= n

\* A comparison asks whether the number less this would be under zero.
Probe(method, n) ==
  IF method \in {"LessThan", "GreaterThanOrEqual"} THEN n ELSE n + 1

Probed(w, n) ==
  IF w.agg.known THEN w
  ELSE [w EXCEPT !.history = Tried(@, w.base, w.agg.value - n, w.max)]

CompareImpl(method, n) ==
  LET w == GetContextData(work)
  IN  /\ V2 /\ n <= MaxOf[work.type]
      /\ Goes(Probed(w, Probe(method, n)))
      /\ PlainStep(plain, [b \in Bases |-> Compares(method, plain[b].value, n)],
                   Compares(method, At(w.agg, w.base), n))

LessThan(n) == CompareImpl("LessThan", n)
LessThanOrEqual(n) == CompareImpl("LessThanOrEqual", n)
GreaterThan(n) == CompareImpl("GreaterThan", n)
GreaterThanOrEqual(n) == CompareImpl("GreaterThanOrEqual", n)

Read ==
  LET w == ReadExactly(work)
  IN  /\ V2
      /\ Goes(w)
      /\ PlainStep(plain, [b \in Bases |-> plain[b].value], w.agg.value)

-----------------------------------------------------------------------------
(* aggregator_v2.rs: snapshots and derived strings *)

\* DelayedFieldData::snapshot: what the aggregator is now, whatever becomes of
\* it.
SnapshotOf(w) == w.agg

Snapshot ==
  LET w == GetContextData(work)
  IN  /\ V2
      /\ Goes([w EXCEPT !.snap = SnapshotOf(w)])
      /\ PlainStep([b \in Bases |-> [plain[b] EXCEPT !.snap = plain[b].value]],
                   NoAnswers, Nothing)

CreateSnapshot(n) ==
  /\ V2
  /\ \/ /\ Goes([work EXCEPT !.snap = Known(n)])
        /\ PlainStep([b \in Bases |-> [plain[b] EXCEPT !.snap = n]],
                     NoAnswers, Nothing)
     \/ Dropped("EUNSUPPORTED_AGGREGATOR_SNAPSHOT_TYPE")

\* copy_snapshot and string_concat.
NotYetSupported == V2 /\ Dropped("EAGGREGATOR_FUNCTION_NOT_YET_SUPPORTED")

\* A snapshot of an unknown number can only be read with the number.
ReadSnapshot ==
  LET w == IF work.snap.known THEN work ELSE [work EXCEPT !.exact = TRUE]
  IN  /\ V2 /\ work.snap # Nothing
      /\ Goes(w)
      /\ PlainStep(plain, [b \in Bases |-> plain[b].snap], At(w.snap, w.base))

\* A snapshot that an earlier transaction left.
ReadStoredSnapshot ==
  /\ V2 /\ snap # Nothing
  /\ Goes([work EXCEPT !.snapRead = snap])
  /\ UNCHANGED plain

TooLong(text) == TextLength[text] > DerivedStringInputMaxLength

CreateDerivedString(text) ==
  /\ V2
  /\ IF TooLong(text) THEN Dropped("EINPUT_STRING_LENGTH_TOO_LARGE")
     ELSE /\ Goes([work EXCEPT !.string = [text |-> text, of |-> Nothing]])
          /\ PlainStep([b \in Bases |-> [plain[b] EXCEPT !.string =
                          [text |-> text, of |-> Nothing]]],
                       NoAnswers, Nothing)

\* The string is made of the snapshot when the number is known.
DeriveStringConcat(text) ==
  /\ V2 /\ work.snap # Nothing
  /\ IF TooLong(text) THEN Dropped("EINPUT_STRING_LENGTH_TOO_LARGE")
     ELSE /\ Goes([work EXCEPT !.string = [text |-> text, of |-> work.snap]])
          /\ PlainStep([b \in Bases |-> [plain[b] EXCEPT !.string =
                          [text |-> text, of |-> plain[b].snap]]],
                       NoAnswers, Nothing)

StringAt(s, b) ==
  IF s.of = Nothing THEN s ELSE [s EXCEPT !.of = At(@, b)]

ReadDerivedString ==
  LET w == IF work.string.of = Nothing \/ work.string.of.known THEN work
           ELSE [work EXCEPT !.exact = TRUE]
  IN  /\ V2 /\ work.string # Nothing
      /\ Goes(w)
      /\ PlainStep(plain, [b \in Bases |-> plain[b].string], StringAt(w.string, w.base))

-----------------------------------------------------------------------------
(* aggregator.rs and aggregator_factory.rs *)

V1 == Runs("v1") /\ work.agg # Nothing

\* new_aggregator.  Its key is the hash of the session's hash and the number
\* of aggregators made so far.
NewAggregator(max) ==
  /\ Runs("v1") /\ work.agg = Nothing
  /\ Goes([work EXCEPT !.agg = Known(0), !.max = max, !.made = TRUE])
  /\ PlainStep([b \in Bases |-> [plain[b] EXCEPT !.value = 0]],
               NoAnswers, Nothing)

\* In the plain session add and sub abort where the sum is out of bounds, and
\* the session that goes on disagrees.
Sum(w, input) ==
  IF w.agg.known
  THEN /\ InBounds(w.agg.value, input, w.max)
       /\ Goes([w EXCEPT !.agg = Known(@.value + input)])
  ELSE LET sum == w.agg.value + input
       IN  /\ sum <= w.max /\ 0 - sum <= w.max
           /\ Goes([w EXCEPT !.agg = Delta(sum), !.history = RecordSuccess(@, sum)])

AddOrSub(input) ==
  /\ V1
  /\ PlainStep([b \in Bases |-> [plain[b] EXCEPT !.value = @ + input]],
               [b \in Bases |-> InBounds(plain[b].value, input, work.max)], TRUE)
  /\ Sum(work, input)

\* The sum is out of bounds for every number: extension_error.
Fails(input) ==
  LET sum == work.agg.value + input
  IN  /\ V1
      /\ IF work.agg.known THEN ~InBounds(work.agg.value, input, work.max)
         ELSE sum > work.max \/ 0 - sum > work.max
      /\ Dropped("OUT_OF_BOUNDS")

Add(n) == AddOrSub(n) \/ Fails(n)
Sub(n) == AddOrSub(0 - n) \/ Fails(0 - n)

\* read_and_materialize: the number is read, and what was added is checked.
ReadV1 ==
  LET w == ReadExactly(work)
  IN  /\ V1
      /\ IF ~work.agg.known /\ ~Fits(work.history, work.base, work.max)
         THEN Dropped("OUT_OF_BOUNDS")
         ELSE /\ Goes(w)
              /\ PlainStep(plain, [b \in Bases |-> plain[b].value], w.agg.value)

\* AggregatorData::remove_aggregator; what was added is not checked any more.
RemoveAggregator(w) ==
  [w EXCEPT !.agg = Nothing, !.history = EmptyHistory,
            !.made = FALSE, !.destroyed = @ \/ ~w.made]

Destroy ==
  /\ V1
  /\ Goes(RemoveAggregator(work))
  /\ PlainStep([b \in Bases |-> [plain[b] EXCEPT !.value = Nothing]], NoAnswers, Nothing)

-----------------------------------------------------------------------------
(* Sessions *)

AggregatorsInit ==
  /\ version \in {"v1", "v2"}
  /\ aggregator_v2_api_enabled \in BOOLEAN
  /\ \E type \in IntElement, max \in Inputs :
       /\ 0 < max /\ max <= MaxOf[type]
       /\ version = "v1" => type = "u128"
       /\ agg = [type |-> type, max |-> max, value |-> 0]
  /\ snap = Nothing /\ string = Nothing
  /\ mode = "idle" /\ work = Start(agg) /\ plain = PlainStart(agg)
  /\ outcome = Nothing

\* Governance switches the API on or off.
SetFeature ==
  /\ mode = "idle" /\ outcome # Nothing
  /\ aggregator_v2_api_enabled' = ~aggregator_v2_api_enabled
  /\ outcome' = Nothing
  /\ UNCHANGED <<version, storedVars, mode, work, plain>>

Begin ==
  /\ mode = "idle"
  /\ mode' \in {"plain", "delayed"}
  /\ version = "v1" => mode' = "delayed"
  /\ work' = Start(agg) /\ plain' = PlainStart(agg)
  /\ outcome' = Nothing
  /\ UNCHANGED <<version, aggregator_v2_api_enabled, storedVars>>

\* Other sessions, which began before or run at the same time, commit: they
\* leave the number within its bounds and other snapshots.
OthersCommit ==
  /\ mode # "idle" /\ agg # Nothing
  /\ \E n \in 0 .. agg.max : agg' = [agg EXCEPT !.value = n]
  /\ snap' \in {snap, agg'.value}
  /\ UNCHANGED <<version, aggregator_v2_api_enabled, string, mode, work, plain, outcome>>

\* What the session learnt of the number holds for b.
Valid(b, max) == (work.exact => b = work.base) /\ Fits(work.history, b, max)

ValidNow ==
  /\ agg # Nothing => Valid(agg.value, agg.max)
  /\ work.snapRead # Nothing => work.snapRead = snap

Ends ==
  /\ mode' = "idle" /\ work' = Start(agg') /\ plain' = PlainStart(agg')
  /\ outcome' = "committed"
  /\ UNCHANGED <<version, aggregator_v2_api_enabled>>

Number == IF agg = Nothing THEN 0 ELSE agg.value

\* into_change_set, applied by the executor: delayed_field_changes.
DelayedFieldChanges ==
  /\ version = "v2" /\ mode # "idle"
  /\ IF ~ValidNow THEN Dropped("RUN_AGAIN")
     ELSE /\ agg' = [type |-> work.type, max |-> work.max, value |-> At(work.agg, Number)]
          /\ snap' = IF work.snap = Nothing THEN snap ELSE At(work.snap, Number)
          /\ string' = IF work.string = Nothing THEN string
                       ELSE StringAt(work.string, Number)
          /\ Ends

\* aggregator_v1_changes: a known number is written, a delta merged with the
\* number in storage, which fails where the plain session would have failed.
AggregatorV1Changes ==
  /\ version = "v1" /\ mode # "idle"
  /\ IF work.exact /\ agg # Nothing /\ agg.value # work.base THEN Dropped("RUN_AGAIN")
     ELSE IF work.agg # Nothing /\ ~work.agg.known /\ ~Fits(work.history, Number, work.max)
     THEN Dropped("OUT_OF_BOUNDS")
     ELSE /\ agg' = IF work.agg = Nothing THEN Nothing
                    ELSE [type |-> work.type, max |-> work.max,
                          value |-> At(work.agg, Number)]
          /\ Ends
          /\ UNCHANGED <<snap, string>>

AggregatorsNext ==
  \/ ApiNotEnabled \/ CreateAggregator \/ CreateUnboundedAggregator \/ Read
  \/ Snapshot \/ NotYetSupported \/ ReadSnapshot \/ ReadStoredSnapshot \/ ReadDerivedString
  \/ \E n \in Inputs :
       \/ TryAdd(n) \/ TrySub(n) \/ CreateSnapshot(n)
       \/ LessThan(n) \/ LessThanOrEqual(n) \/ GreaterThan(n) \/ GreaterThanOrEqual(n)
       \/ Add(n) \/ Sub(n) \/ NewAggregator(n)
  \/ \E text \in Texts : CreateDerivedString(text) \/ DeriveStringConcat(text)
  \/ ReadV1 \/ Destroy
  \/ SetFeature \/ Begin \/ OthersCommit
  \/ DelayedFieldChanges \/ AggregatorV1Changes

AggregatorsSpec == AggregatorsInit /\ [][AggregatorsNext]_aggVars

-----------------------------------------------------------------------------
(* Properties *)

\* A delayed session answers what the plain session would have answered, and
\* holds what it would have held, for every number that fits what it learnt,
\* whatever the resolver predicted: the two branches of every native are the
\* same function.
PlainAgrees ==
  mode # "idle" /\ agg # Nothing /\ ~work.destroyed =>
    \A b \in 0 .. agg.max :
      Valid(b, agg.max) =>
        /\ plain[b].agrees
        /\ work.agg # Nothing /\ plain[b].value = At(work.agg, b)
        /\ work.snap # Nothing => plain[b].snap = At(work.snap, b)
        /\ work.string # Nothing => plain[b].string = StringAt(work.string, b)

\* The paranoid check of native_read, and the conversions to the type of the
\* aggregator, hold: the number is never over max_value, as predicted and in
\* storage.
ReadsWithinMax ==
  /\ version = "v2" /\ mode # "idle" =>
       Now \in 0 .. work.max /\ work.max <= MaxOf[work.type]
  /\ agg # Nothing => agg.value \in 0 .. agg.max /\ agg.max <= MaxOf[agg.type]

\* A session never stops at a check that should hold (ReadsWithinMax), runs
\* again only if the number was not as predicted, and in version 1 fails only
\* where the plain session would have failed.
NoNeedlessFailure ==
  /\ ReadsWithinMax
  /\ mode # "idle" /\ agg # Nothing =>
       /\ version = "v2" => Fits(work.history, work.base, agg.max)
       /\ version = "v1" /\ ~work.destroyed =>
            \A b \in 0 .. agg.max :
              plain[b].agrees /\ (work.exact => b = work.base) =>
                Fits(work.history, b, agg.max)

\* A session that commits leaves in storage what the plain session leaves
\* that runs alone at that moment: commits are atomic and ordered.
CommitsAreSerial ==
  [][mode # "idle" /\ outcome' = "committed" /\ agg # Nothing /\ ~work.destroyed =>
       /\ plain[agg.value].agrees
       /\ agg'.value = plain[agg.value].value
       /\ work.snap # Nothing => snap' = plain[agg.value].snap
       /\ work.string # Nothing => string' = plain[agg.value].string]_aggVars
=============================================================================
