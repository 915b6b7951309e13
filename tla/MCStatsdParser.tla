---------------------------- MODULE MCStatsdParser ----------------------------
(***************************************************************************)
(* Model checking of the datagram listener and the line parser against   *)
(* the protocol as spec.md states it.  Every initial state is one         *)
(* datagram written out from a line of the grammar (source); the one step *)
(* is HandlePacket; the invariants compare what was queued with what the  *)
(* spec says the line means.                                              *)
(***************************************************************************)
EXTENDS StatsdListener, StatsdProtocol, FiniteSets

CONSTANTS
    Lines,       \* the grammar lines a run writes into datagrams
    MoreLines    \* more of them, enumerated on their own

VARIABLE source    \* the line the datagram was written from

mcVars == <<vars, source>>

-----------------------------------------------------------------------------
(* Parts of lines.                                                        *)

Tag(k, v, h) == [key |-> k, sep |-> TRUE, val |-> v, hash |-> h]
NoSepTag(k)  == [key |-> k, sep |-> FALSE, val |-> <<>>, hash |-> FALSE]

\* A tag with a value, one with a digit-led key, one whose key needs
\* escaping, one whose value holds the separator again, and the malformed
\* ones: no separator, empty key, empty value, empty tag.
TagForms(sep) ==
    { Tag(<<"a">>, <<"b">>, FALSE), Tag(<<"9">>, <<"b">>, FALSE),
      Tag(<<"a", "-", "0.5">>, <<"c">>, FALSE), Tag(<<"a">>, <<"c", sep, "b">>, FALSE),
      NoSepTag(<<"a">>), Tag(<<>>, <<"b">>, FALSE),
      Tag(<<"a">>, <<>>, FALSE), NoSepTag(<<>>) }

BadTag == Tag(<<"a">>, <<BadByte>>, FALSE)

NameTagLists == {<<>>} \cup {<<t>> : t \in TagForms("=")}
                \cup {<<t, u>> : t, u \in TagForms("=") \cup {BadTag}}

DogTagLists == {<<t>> : t \in TagForms(":") \cup {Tag(<<"a">>, <<"c">>, TRUE), BadTag}}
               \cup {<<t, u>> : t \in TagForms(":"), u \in TagForms(":") \cup {Tag(<<"9">>, <<"c">>, TRUE)}}

Rate(lit) == [kind |-> "rate", body |-> lit]
Junk      == [kind |-> "junk"]
EmptyMod  == [kind |-> "empty"]
DogTags(ts) == [kind |-> "tags", tags |-> ts]

Sample(v, t, ms) == [value |-> v, type |-> t, mods |-> ms]

Line(nm, st, nts, smps) == [name |-> nm, style |-> st, ntags |-> nts, samples |-> smps]

-----------------------------------------------------------------------------
(* The lines of each run.                                                 *)

\* Tagging dialects: name tags of both styles, DogStatsD tags, and both
\* mixed, on a counter and on a sampled timer.
DialectLines ==
    LET names  == {Line(<<"f">>, "none", <<>>, <<>>)}
                  \cup {Line(<<"f">>, st, nts, <<>>) : st \in {"librato", "influx"}, nts \in NameTagLists}
        tails  == {<<>>} \cup {<<DogTags(ts)>> : ts \in DogTagLists}
                  \cup {<<Rate(<<"0.5">>), DogTags(ts)>> : ts \in DogTagLists}
    IN  {[n EXCEPT !.samples = <<Sample(<<"1">>, t, ms)>>] :
            n \in names, t \in {"c", "ms"}, ms \in tails}

Values == {<<"1">>, <<"-", "1">>, <<"+", "0.5">>, <<"x">>}
\* Values strconv.ParseFloat accepts that are not numbers: NaN and -Inf.
SpecialValues == {<<"NaN">>, <<"-", "Inf">>}
Types  == {"c", "g", "ms", "h", "d", "s", "t"}
RateLits == {<<"1">>, <<"0.5">>, <<"0.1">>, <<"0">>, <<"2">>, <<"-", "1">>, <<"x">>}
OneMods  == {Rate(r) : r \in RateLits} \cup {Junk, EmptyMod}

\* Sample grammar: values, types, sample rates, modifiers that are
\* neither, empty components; one sample with up to two modifiers, or two
\* samples with up to one.
SampleLines ==
    LET small == {Sample(v, t, ms) : v \in Values, t \in Types,
                                     ms \in {<<>>} \cup {<<m>> : m \in OneMods}}
        single == {Sample(v, t, ms) : v \in SpecialValues, t \in Types,
                                      ms \in {<<>>} \cup {<<m>> : m \in OneMods}}
        wide  == {Sample(v, t, <<m1, m2>>) : v \in Values, t \in Types,
                                             m1, m2 \in OneMods}
        oneRate(s) == Cardinality({j \in DOMAIN s.mods : s.mods[j].kind = "rate"}) <= 1
    IN  {Line(<<"f">>, "none", <<>>, <<s>>) : s \in {x \in small \cup single \cup wide : oneRate(x)}}
        \cup {Line(<<"f">>, "none", <<>>, <<s1, s2>>) : s1, s2 \in small}

\* Line framing (spec.md 4.1 steps 2 and 5): lines with no ':', with
\* nothing before it, and samples of one component or of five (three
\* modifiers), alone or beside a well-formed sample.
FrameLines ==
    LET good     == Sample(<<"1">>, "c", <<>>)
        untyped  == {Sample(v, Untyped, <<>>) : v \in Values}
        mods3    == {<<m1, m2, m3>> : m1, m2, m3 \in {Rate(<<"0.5">>), Junk, EmptyMod}}
        long     == {Sample(<<"1">>, t, ms) : t \in {"c", "ms"},
                        ms \in {m \in mods3 : Len(SelectSeq(m, LAMBDA x : x.kind = "rate")) <= 1}}
    IN  {Line(<<"f">>, st, nts, <<>>) : st \in {"none", "librato"}, nts \in {<<Tag(<<"a">>, <<"b">>, FALSE)>>}}
        \cup {Line(<<>>, "none", <<>>, <<good>>)}
        \cup {Line(<<"f">>, "none", <<>>, <<s>>) : s \in untyped \cup long}
        \cup {Line(<<"f">>, "none", <<>>, <<s, good>>) : s \in untyped \cup long}

\* The dialect and framing lines of the parser run.
ParserLines == DialectLines \cup FrameLines

\* A sample rate whose literal overflows float64.
RangeRateLines ==
    {Line(<<"f">>, "none", <<>>, <<Sample(<<"1">>, t, <<Rate(r)>>)>>) :
        t \in {"c", "g", "ms"}, r \in {<<"1e999">>, <<"-", "1e999">>, <<"0.5">>}}

\* Names that are empty once in-name tags are cut off.
EmptyNameLines ==
    {Line(nm, st, <<Tag(<<"a">>, <<"b">>, FALSE)>>, <<Sample(<<"1">>, "c", <<>>)>>) :
        nm \in {<<"f">>, <<>>}, st \in {"librato", "influx"}}

-----------------------------------------------------------------------------
MCInit ==
    /\ source \in Lines \/ source \in MoreLines
    /\ socket = <<Render(source)>>
    /\ queued = <<>>
    /\ metrics = NoMetrics

MCNext == HandlePacket /\ UNCHANGED source

MCSpec == MCInit /\ [][MCNext]_mcVars

-----------------------------------------------------------------------------
(* Properties.                                                            *)

\* Once the datagram is handled, the events LineToEvents produced and the
\* listener queued are exactly, and in order, the events spec.md's grammar
\* gives the line: tag dialects and sanitized keys (parseNameAndTags,
\* ParseDogStatsDTags, parseTag), the mixed-style rejection, sample-rate
\* scaling of counters, timer copies, gauges ignoring the rate, and the
\* stat-type dispatch of buildEvent.
ParsesAsSpecified ==
    socket = <<>> => FlattenSeq(queued) = SpecEvents(source)

\* The sample_errors counters LineToEvents increments are those the spec
\* gives the line, reason by reason: one malformed_line or
\* mixed_tagging_styles for a rejected line, and per sample one
\* malformed_value, malformed_component or illegal_event, and one
\* invalid_sample_factor per bad modifier.  The copy loop of line 368
\* counts illegal_event once per copy, and only timers have more than
\* one copy.
SampleErrorsAsSpecified ==
    socket = <<>> =>
        \A r \in Reasons :
            metrics.sampleErrors[r] = Len(SelectSeq(SpecLineErrors(source), LAMBDA e : e = r))

\* Every event the listener queues has a non-empty metric name (spec.md
\* section 3); parseNameAndTags cuts the name at the first '#' or ','.
EventNamesNonEmpty ==
    \A i \in DOMAIN queued : \A j \in DOMAIN queued[i] : queued[i][j].name # ""

=============================================================================
