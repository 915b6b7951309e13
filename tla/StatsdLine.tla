----------------------------- MODULE StatsdLine -----------------------------
(***************************************************************************)
(* The StatsD line parser of package line (LineToEvents and its helpers,  *)
(* src/pkg/listener/listener.go lines 139-379).                           *)
(*                                                                         *)
(* A line is a sequence of symbols.  A symbol is either one of the        *)
(* characters the parser tests for (":", "|", "#", ",", "=", "@", "+",    *)
(* "-"), the invalid UTF-8 byte BadByte, or an atom: a run of ordinary    *)
(* characters the parser never looks inside ("f", "a", "1", "0.5", "ms", *)
(* ...).  Text(s) is the Go string a sequence of symbols spells; the      *)
(* comparisons the code makes on whole strings (the stat type, the float  *)
(* literal) are made on Text.  Floats are exact rationals with IEEE's     *)
(* special values; the literals used are those for which IEEE division    *)
(* and truncation give the rational result.                               *)
(***************************************************************************)
EXTENDS Integers, Sequences, SequencesExt, TLC

\* The invalid UTF-8 byte 0xC3 followed by '(' as in the repository's tests.
BadByte == "<xc3>"

\* Characters the parser splits on or tests for.
SepChars == {":", "|", "#", ",", "=", "@", "+", "-"}

\* Atoms made of label-name characters that start with a digit.
DigitAtoms == {"0", "1", "2", "9", "1e999"}

\* The Go string a sequence of symbols spells.
Text(s) == IF s = <<>> THEN "" ELSE FlattenSeq(s)

-----------------------------------------------------------------------------
(* Floats.  A finite float is [num, den] in lowest terms with den > 0;    *)
(* den = 0 encodes NaN (num 0) and the two infinities (num 1 / -1).       *)

RECURSIVE GCD(_, _)
GCD(a, b) == IF b = 0 THEN a ELSE GCD(b, a % b)

AbsInt(x) == IF x < 0 THEN -x ELSE x

Rat(n, d) ==
    LET s == IF d < 0 THEN -1 ELSE 1
        g == GCD(AbsInt(n), AbsInt(d))
    IN  [num |-> (s * n) \div g, den |-> (s * d) \div g]

NaN    == [num |-> 0, den |-> 0]
PosInf == [num |-> 1, den |-> 0]
NegInf == [num |-> -1, den |-> 0]
Zero   == Rat(0, 1)
One    == Rat(1, 1)

IsFinite(x) == x.den # 0

Negate(x) == [x EXCEPT !.num = -@]

\* x / y as float64 division; y is never zero where the parser divides.
FDiv(x, y) ==
    CASE x = NaN \/ y = NaN                  -> NaN
      [] ~IsFinite(x) /\ ~IsFinite(y)        -> NaN
      [] ~IsFinite(x)                        -> IF x.num * y.num > 0 THEN PosInf ELSE NegInf
      [] ~IsFinite(y)                        -> Zero
      [] OTHER                               -> Rat(x.num * y.den, x.den * y.num)

\* int(1 / f): Go truncates toward zero.  1/Inf is 0.  Converting NaN to int
\* is implementation-defined; amd64 yields MinInt64 and arm64 yields 0, and
\* either makes the copy loop of LineToEvents run zero times, hence 0 here.
IntOfRecip(f) ==
    CASE f = NaN          -> 0
      [] ~IsFinite(f)     -> 0
      [] OTHER            -> LET q == AbsInt(f.den) \div AbsInt(f.num)
                             IN  IF f.num < 0 THEN -q ELSE q

\* strconv.ParseFloat(s, 64) on the literals the models use.  A syntax error
\* returns 0, a range error returns the infinity of the literal's sign; both
\* with err set.  A sign is allowed before numbers and Inf, not before NaN.
UnsignedLit == ("0" :> Zero) @@ ("1" :> One) @@ ("2" :> Rat(2, 1))
               @@ ("0.5" :> Rat(1, 2)) @@ ("0.1" :> Rat(1, 10))
               @@ ("Inf" :> PosInf)

ParseFloat(s) ==
    CASE s \in DOMAIN UnsignedLit
            -> [val |-> UnsignedLit[s], err |-> FALSE]
      [] \E u \in DOMAIN UnsignedLit : s = "+" \o u
            -> [val |-> UnsignedLit[CHOOSE u \in DOMAIN UnsignedLit : s = "+" \o u], err |-> FALSE]
      [] \E u \in DOMAIN UnsignedLit : s = "-" \o u
            -> [val |-> Negate(UnsignedLit[CHOOSE u \in DOMAIN UnsignedLit : s = "-" \o u]), err |-> FALSE]
      [] s = "NaN"                  -> [val |-> NaN, err |-> FALSE]
      [] s \in {"1e999", "+1e999"}  -> [val |-> PosInf, err |-> TRUE]
      [] s = "-1e999"               -> [val |-> NegInf, err |-> TRUE]
      [] OTHER                      -> [val |-> Zero, err |-> TRUE]

-----------------------------------------------------------------------------
(* String helpers of package strings and unicode/utf8.                    *)

\* strings.Split(s, sep): the pieces between occurrences of sep.
RECURSIVE SplitOn(_, _)
SplitOn(s, sep) ==
    LET i == SelectInSeq(s, LAMBDA c : c = sep)
    IN  IF i = 0 THEN <<s>>
        ELSE <<SubSeq(s, 1, i - 1)>> \o SplitOn(SubSeq(s, i + 1, Len(s)), sep)

\* strings.SplitN(s, sep, 2)
SplitFirst(s, sep) ==
    LET i == SelectInSeq(s, LAMBDA c : c = sep)
    IN  IF i = 0 THEN <<s>> ELSE <<SubSeq(s, 1, i - 1), SubSeq(s, i + 1, Len(s))>>

\* strings.Contains(s, "|#")
ContainsPipeHash(s) == \E i \in 1 .. Len(s) - 1 : s[i] = "|" /\ s[i + 1] = "#"

\* utf8.ValidString
ValidUTF8(s) == \A i \in DOMAIN s : s[i] # BadByte

-----------------------------------------------------------------------------
(* Counters the parser increments, kept with the labels map it fills.     *)

Reasons == {"malformed_line", "malformed_component", "malformed_value",
            "invalid_sample_factor", "mixed_tagging_styles", "illegal_event"}

NoLabels == [k \in {} |-> ""]

InitResult == [events    |-> <<>>,
               sampleErrors |-> [r \in Reasons |-> 0],
               samplesReceived |-> 0,
               tagErrors |-> 0,
               tagsReceived |-> 0,
               labels    |-> NoLabels]

CountError(acc, reason) == [acc EXCEPT !.sampleErrors[reason] = @ + 1]

HasLabels(acc) == DOMAIN acc.labels # {}

\* mapper.EscapeMetricName (package mapper is not in this repository): a
\* leading digit gets a "_" prefix, and every character outside
\* [a-zA-Z0-9_] becomes "_".
EscapeChar(c) ==
    CASE c \in SepChars \cup {BadByte} -> "_"
      [] c = "0.5"                     -> "0_5"
      [] c = "0.1"                     -> "0_1"
      [] OTHER                         -> c

EscapeMetricName(k) ==
    (IF k # <<>> /\ k[1] \in DigitAtoms THEN "_" ELSE "")
        \o Text([i \in DOMAIN k |-> EscapeChar(k[i])])

-----------------------------------------------------------------------------
(* Variants with plausible faults, for mutation analysis of the           *)
(* properties: sets accepted as events (buildEvent), a tag split at its   *)
(* last separator (parseTag), the sampling factor multiplied instead of   *)
(* divided, or an unparseable rate not counted (LineToEvents), a        *)
(* mixed-style line not counted.                                          *)

BuildEventWithSets(statType, metric, value, relative, labels) ==
    IF statType = "s"
    THEN [ok |-> TRUE, event |-> [kind |-> "set", name |-> metric, value |-> value,
                                  relative |-> FALSE, labels |-> labels]]
    ELSE [ok |-> FALSE]

ParseTagLastSep(tag, separator, acc) ==
    LET i == SelectLastInSeq(tag, LAMBDA c : c = separator)
        k == SubSeq(tag, 1, i - 1)
        v == SubSeq(tag, i + 1, Len(tag))
    IN  IF tag = <<>> \/ i = 0 \/ k = <<>> \/ v = <<>>
        THEN [acc EXCEPT !.tagErrors = @ + 1]
        ELSE [acc EXCEPT !.labels = (EscapeMetricName(k) :> Text(v)) @@ @]

-----------------------------------------------------------------------------
(* buildEvent: the event of a stat type, or an error for sets and unknown *)
(* types.                                                                 *)
BuildEvent(statType, metric, value, relative, labels) ==
    LET ev(kind, rel) == [kind |-> kind, name |-> metric, value |-> value,
                          relative |-> rel, labels |-> labels]
    IN  CASE statType = "c"                   -> [ok |-> TRUE, event |-> ev("counter", FALSE)]
          [] statType = "g"                   -> [ok |-> TRUE, event |-> ev("gauge", relative)]
          [] statType \in {"ms", "h", "d"}    -> [ok |-> TRUE, event |-> ev("timer", FALSE)]
          [] OTHER                            -> [ok |-> FALSE]

\* parseTag: split a tag at the first separator; an empty tag, a missing
\* separator, or an empty key or value counts a tag error, otherwise the
\* escaped key is set to the value (overwriting an earlier one).
ParseTag(tag, separator, acc) ==
    LET i == SelectInSeq(tag, LAMBDA c : c = separator)
        k == SubSeq(tag, 1, i - 1)
        v == SubSeq(tag, i + 1, Len(tag))
    IN  IF tag = <<>> \/ i = 0 \/ k = <<>> \/ v = <<>>
        THEN [acc EXCEPT !.tagErrors = @ + 1]
        ELSE [acc EXCEPT !.labels = (EscapeMetricName(k) :> Text(v)) @@ @]

\* The tags of a comma-separated list as parseNameTags and
\* ParseDogStatsDTags cut them: every piece before a comma, and the piece
\* after the last comma only when it is not empty.
TagPieces(component) ==
    LET p == SplitOn(component, ",")
    IN  IF Last(p) = <<>> THEN Front(p) ELSE p

\* parseNameTags: librato and InfluxDB tags, key=value.
ParseNameTags(component, acc) ==
    FoldLeft(LAMBDA a, tag : ParseTag(tag, "=", a), acc, TagPieces(component))

\* trimLeftHash
TrimLeftHash(s) == IF s # <<>> /\ s[1] = "#" THEN Tail(s) ELSE s

\* ParseDogStatsDTags: DogStatsD tags, key:value, a leading '#' dropped.
ParseDogStatsDTags(component, acc) ==
    FoldLeft(LAMBDA a, tag : ParseTag(TrimLeftHash(tag), ":", a), acc,
             TagPieces(component))

\* parseNameAndTags: the name ends at the first '#' or ','; what follows
\* is a list of name tags.
ParseNameAndTags(name, acc) ==
    LET i == SelectInSeq(name, LAMBDA c : c \in {"#", ","})
    IN  IF i = 0 THEN [metric |-> name, acc |-> acc]
        ELSE [metric |-> SubSeq(name, 1, i - 1),
              acc    |-> ParseNameTags(SubSeq(name, i + 1, Len(name)), acc)]

-----------------------------------------------------------------------------
(* LineToEvents.  A sample's working state is s = [value, mult, acc]:     *)
(* its value, the number of copies (multiplyEvents) and the line's        *)
(* counters and labels.                                                   *)

ApplyModifierMul(statType, s, component) ==
    CASE component[1] = "@" ->
            LET pf  == ParseFloat(Text(Tail(component)))
                sf  == IF pf.val = Zero THEN One ELSE pf.val
                s1  == IF pf.err THEN [s EXCEPT !.acc = CountError(@, "invalid_sample_factor")]
                                 ELSE s
            IN  CASE statType = "c"                -> [s1 EXCEPT !.value = FDiv(@, FDiv(One, sf))]
                  [] statType \in {"ms", "h", "d"} -> [s1 EXCEPT !.mult = IntOfRecip(sf)]
                  [] OTHER                         -> s1
      [] component[1] = "#" -> [s EXCEPT !.acc = ParseDogStatsDTags(Tail(component), @)]
      [] OTHER              -> [s EXCEPT !.acc = CountError(@, "invalid_sample_factor")]

ApplyModifierNoRateError(statType, s, component) ==
    CASE component[1] = "@" ->
            LET pf  == ParseFloat(Text(Tail(component)))
                sf  == IF pf.val = Zero THEN One ELSE pf.val
            IN  CASE statType = "c"                -> [s EXCEPT !.value = FDiv(@, sf)]
                  [] statType \in {"ms", "h", "d"} -> [s EXCEPT !.mult = IntOfRecip(sf)]
                  [] OTHER                         -> s
      [] component[1] = "#" -> [s EXCEPT !.acc = ParseDogStatsDTags(Tail(component), @)]
      [] OTHER              -> [s EXCEPT !.acc = CountError(@, "invalid_sample_factor")]

\* One component of components[2:] (the switch on component[0]).  The
\* sampling factor is what ParseFloat returned, error or not, and 1 when 0.
ApplyModifier(statType, s, component) ==
    CASE component[1] = "@" ->
            LET pf  == ParseFloat(Text(Tail(component)))
                sf  == IF pf.val = Zero THEN One ELSE pf.val
                s1  == IF pf.err THEN [s EXCEPT !.acc = CountError(@, "invalid_sample_factor")]
                                 ELSE s
            IN  CASE statType = "c"                -> [s1 EXCEPT !.value = FDiv(@, sf)]
                  [] statType \in {"ms", "h", "d"} -> [s1 EXCEPT !.mult = IntOfRecip(sf)]
                  [] OTHER                         -> s1
      [] component[1] = "#" -> [s EXCEPT !.acc = ParseDogStatsDTags(Tail(component), @)]
      [] OTHER              -> [s EXCEPT !.acc = CountError(@, "invalid_sample_factor")]

\* The events of multiplyEvents copies, or one illegal_event per copy.
EmitCopies(acc, statType, metric, value, relative, mult) ==
    LET b == BuildEvent(statType, metric, value, relative, acc.labels)
    IN  IF b.ok THEN [acc EXCEPT !.events = @ \o [i \in 1 .. mult |-> b.event]]
        ELSE [acc EXCEPT !.sampleErrors["illegal_event"] = @ + (IF mult > 0 THEN mult ELSE 0)]

\* One iteration of the samples loop.
ProcessSample(metric, acc, sample) ==
    LET a0         == [acc EXCEPT !.samplesReceived = @ + 1]
        components == SplitOn(sample, "|")
        valueStr   == components[1]
        statType   == Text(components[2])
        relative   == valueStr # <<>> /\ valueStr[1] \in {"+", "-"}
        pv         == ParseFloat(Text(valueStr))
        mods       == SubSeq(components, 3, Len(components))
        s          == FoldLeft(LAMBDA st, c : ApplyModifier(statType, st, c),
                               [value |-> pv.val, mult |-> 1, acc |-> a0], mods)
        a1         == IF HasLabels(s.acc) THEN [s.acc EXCEPT !.tagsReceived = @ + 1]
                      ELSE s.acc
    IN  CASE Len(components) < 2 \/ Len(components) > 4
                -> CountError(a0, "malformed_component")
          [] pv.err
                -> CountError(a0, "malformed_value")
          [] \E j \in DOMAIN mods : mods[j] = <<>>
                -> CountError(a0, "malformed_component")
          [] OTHER
                -> EmitCopies(a1, statType, metric, s.value, relative, s.mult)

LineToEventsMixedUncounted(line) ==
    LET elements == SplitFirst(line, ":")
        nt       == ParseNameAndTags(elements[1], InitResult)
        dogstatsd == ContainsPipeHash(elements[2])
        samples  == IF dogstatsd THEN <<elements[2]>> ELSE SplitOn(elements[2], ":")
    IN  CASE line = <<>>
                -> InitResult
          [] Len(elements) < 2 \/ elements[1] = <<>> \/ ~ValidUTF8(line)
                -> CountError(InitResult, "malformed_line")
          [] dogstatsd /\ HasLabels(nt.acc)
                -> nt.acc
          [] OTHER
                -> FoldLeft(LAMBDA a, smp : ProcessSample(Text(nt.metric), a, smp),
                            nt.acc, samples)

\* LineToEvents: the events of one line and the counters it increments.
LineToEvents(line) ==
    LET elements == SplitFirst(line, ":")
        nt       == ParseNameAndTags(elements[1], InitResult)
        dogstatsd == ContainsPipeHash(elements[2])
        samples  == IF dogstatsd THEN <<elements[2]>> ELSE SplitOn(elements[2], ":")
    IN  CASE line = <<>>
                -> InitResult
          [] Len(elements) < 2 \/ elements[1] = <<>> \/ ~ValidUTF8(line)
                -> CountError(InitResult, "malformed_line")
          [] dogstatsd /\ HasLabels(nt.acc)
                -> CountError(nt.acc, "mixed_tagging_styles")
          [] OTHER
                -> FoldLeft(LAMBDA a, smp : ProcessSample(Text(nt.metric), a, smp),
                            nt.acc, samples)

=============================================================================
