---------------------------- MODULE StatsdProtocol ----------------------------
(***************************************************************************)
(* The StatsD line protocol as spec.md states it (sections 4.1, 4.2 and   *)
(* 4.4): lines built from the grammar's parts, how a line is written out  *)
(* (Render), and the events the spec says it denotes (SpecEvents).  This  *)
(* is the reference the parser of StatsdLine is checked against; it is    *)
(* written from the spec, not from the code.                              *)
(***************************************************************************)
EXTENDS Integers, Sequences, SequencesExt, StatsdLine

(* A tag: a key, whether a separator follows, a value (which may itself  *)
(* contain the separator), and for DogStatsD a leading '#' some clients   *)
(* send.                                                                  *)
RenderTag(t, sep) ==
    (IF t.hash THEN <<"#">> ELSE <<>>) \o t.key
        \o (IF t.sep THEN <<sep>> \o t.val ELSE <<>>)

\* The symbols of xs, each rendered, separated by sep.
JoinWith(xs, R(_), sep) ==
    IF xs = <<>> THEN <<>>
    ELSE FoldLeft(LAMBDA acc, x : acc \o <<sep>> \o R(x), R(Head(xs)), Tail(xs))

(* A modifier: a sample rate, a DogStatsD tag list, something that is     *)
(* neither, or nothing (an empty component).                              *)
RenderMod(m) ==
    CASE m.kind = "rate"  -> <<"@">> \o m.body
      [] m.kind = "tags"  -> <<"#">> \o JoinWith(m.tags, LAMBDA t : RenderTag(t, ":"), ",")
      [] m.kind = "junk"  -> <<"j">>
      [] m.kind = "empty" -> <<>>

\* A sample of type Untyped has its value alone, with no type component.
Untyped == "untyped"

RenderSample(s) ==
    s.value \o (IF s.type = Untyped THEN <<>> ELSE <<"|", s.type>>) \o FlattenSeq([i \in DOMAIN s.mods |-> <<"|">> \o RenderMod(s.mods[i])])

Render(l) ==
    l.name
      \o (CASE l.style = "librato" -> <<"#">> \o JoinWith(l.ntags, LAMBDA t : RenderTag(t, "="), ",")
            [] l.style = "influx"  -> <<",">> \o JoinWith(l.ntags, LAMBDA t : RenderTag(t, "="), ",")
            [] OTHER               -> <<>>)
      \o (IF l.samples = <<>> THEN <<>> ELSE <<":">> \o JoinWith(l.samples, RenderSample, ":"))

-----------------------------------------------------------------------------
(* What the spec says a line means.                                       *)

\* Section 4.2: a tag with a key and a value becomes a label under the
\* sanitized key; anything else is a tag error and dropped; later
\* duplicates overwrite earlier ones.
SpecLabels(tags, base) ==
    FoldLeft(LAMBDA lbl, t :
                IF t.key # <<>> /\ t.sep /\ t.val # <<>>
                THEN (EscapeMetricName(t.key) :> Text(t.val)) @@ lbl
                ELSE lbl,
             base, tags)

IsDogStatsD(l) == \E i \in DOMAIN l.samples : \E j \in DOMAIN l.samples[i].mods :
                      l.samples[i].mods[j].kind = "tags"

\* Section 4.1 step 6: the sample rate, 1 when absent, unparseable or zero.
SpecRate(s) ==
    LET rates == {s.mods[j] : j \in {j \in DOMAIN s.mods : s.mods[j].kind = "rate"}}
        r     == CHOOSE m \in rates : TRUE
        pf    == ParseFloat(Text(r.body))
    IN  IF rates = {} \/ pf.err \/ pf.val = Zero THEN One ELSE pf.val

\* Section 4.1 step 2: a line with no ':' (a line without samples is
\* written without one), or with nothing before it, is malformed.
MalformedLine(l) ==
    \/ ~ValidUTF8(Render(l))
    \/ l.samples = <<>>
    \/ l.name = <<>> /\ l.style = "none"

\* Section 4.1 step 5: a sample splits on '|' into 2 to 4 components.
ComponentsOK(s) == s.type # Untyped /\ Len(s.mods) <= 2

\* Sections 4.1 steps 5-7 and 4.4: the events of one sample.
SpecSampleEvents(metric, labels, s) ==
    LET pv     == ParseFloat(Text(s.value))
        r      == SpecRate(s)
        tagged == SpecLabels(FlattenSeq([j \in DOMAIN s.mods |->
                      IF s.mods[j].kind = "tags" THEN s.mods[j].tags ELSE <<>>]), labels)
        ev(kind, value, rel) == [kind |-> kind, name |-> metric, value |-> value,
                                 relative |-> rel, labels |-> tagged]
    IN  IF ~ComponentsOK(s) \/ pv.err \/ \E j \in DOMAIN s.mods : s.mods[j].kind = "empty" THEN <<>>
        ELSE CASE s.type = "c" -> <<ev("counter", FDiv(pv.val, r), FALSE)>>
               [] s.type = "g" -> <<ev("gauge", pv.val, s.value[1] \in {"+", "-"})>>
               [] s.type \in {"ms", "h", "d"} ->
                     [i \in 1 .. IntOfRecip(r) |-> ev("timer", pv.val, FALSE)]
               [] OTHER -> <<>>

\* Section 4.1: a line that mixes in-name tags with DogStatsD tags is
\* dropped; otherwise its samples' events in order.
SpecEvents(l) ==
    LET labels == IF l.style = "none" THEN NoLabels ELSE SpecLabels(l.ntags, NoLabels)
    IN  IF MalformedLine(l) \/ (IsDogStatsD(l) /\ DOMAIN labels # {}) THEN <<>>
        ELSE FlattenSeq([i \in DOMAIN l.samples |->
                 SpecSampleEvents(Text(l.name), labels, l.samples[i])])

-----------------------------------------------------------------------------
(* The sample_errors the spec says a line counts (sections 4.1 and 4.4),  *)
(* one reason per counted error.                                          *)

\* Section 4.1 step 5: a bad value or an empty modifier discards the
\* sample; a modifier that is neither a rate nor tags, and an unparseable
\* rate, count invalid_sample_factor; section 4.4: an unsupported type is
\* rejected as illegal_event.
SpecSampleErrors(s) ==
    LET bad(m) == m.kind = "junk" \/ (m.kind = "rate" /\ ParseFloat(Text(m.body)).err)
    IN  CASE ~ComponentsOK(s)                -> <<"malformed_component">>
          [] ParseFloat(Text(s.value)).err -> <<"malformed_value">>
          [] \E j \in DOMAIN s.mods : s.mods[j].kind = "empty" -> <<"malformed_component">>
          [] OTHER -> [j \in 1 .. Len(SelectSeq(s.mods, bad)) |-> "invalid_sample_factor"]
                      \o (IF s.type \in {"c", "g", "ms", "h", "d"} THEN <<>> ELSE <<"illegal_event">>)

SpecLineErrors(l) ==
    LET labels == IF l.style = "none" THEN NoLabels ELSE SpecLabels(l.ntags, NoLabels)
    IN  CASE MalformedLine(l)                        -> <<"malformed_line">>
          [] IsDogStatsD(l) /\ DOMAIN labels # {}    -> <<"mixed_tagging_styles">>
          [] OTHER -> FlattenSeq([i \in DOMAIN l.samples |-> SpecSampleErrors(l.samples[i])])

=============================================================================
