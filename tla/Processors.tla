----------------------------- MODULE Processors -----------------------------
(***************************************************************************)
(* The stateless processors of the collector pipeline                      *)
(* (internal/collector/processors): tagger, regex and logparse with its    *)
(* grok compiler.  A behaviour configures either the tagger followed by    *)
(* the regex processor, or logparse, and sends one metric through, one     *)
(* rule at a time.                                                         *)
(*                                                                         *)
(* Texts are members of a small set.  The regular expression engine is     *)
(* given by tables: Replace for ReplaceAllString, Captures and             *)
(* GrokCaptures for FindStringSubmatch and json.Unmarshal.                 *)
(***************************************************************************)
EXTENDS Integers, Sequences, SequencesExt

CONSTANTS
    Key,            \* tag keys
    TagMap,         \* the tags a metric comes with, and the static tags
    Text,           \* tag values and field texts
    Condition,      \* [tag, value, when]: conditions of the tagger
    RegexRule,      \* [key, pat]: rules of the regex processor
    Replace,        \* pattern -> text -> text
    Entry,          \* [field, parser, grok, patterns, regex]: logparse rules as configured
    Captures,       \* regex, or "json" -> text -> the captured fields, or NoMatch
    GrokCaptures,   \* the same for grok, whose patterns are told apart by their captures
    NoMatch,
    Library,        \* grok: pattern name -> tokens of its definition
    Compiles,       \* the regular expressions that compile
    maxIterations   \* passes of the grok expansion

VARIABLES
    chain,      \* the configured chain: "tags" or "logparse"
    pconf,     \* its configuration as read from the file
    rules,      \* p.rules: the rules accepted so far
    stage,      \* where the chain is
    ri,         \* the rule (or entry) it is at
    mtags,      \* tags of the metric
    mfields,    \* fields of the metric
    fields      \* the snapshot of them in logparse's Apply

procVars == <<chain, pconf, rules, stage, ri, mtags, mfields, fields>>

AddTag(tags, k, v) == [x \in DOMAIN tags \cup {k} |-> IF x = k THEN v ELSE tags[x]]
AddFields(fs, new) == [x \in DOMAIN fs \cup DOMAIN new |-> IF x \in DOMAIN new THEN new[x] ELSE fs[x]]

(***************************************************************************)
(* The grok compiler.  A pattern is a sequence of tokens: a literal, a     *)
(* reference %{name} or a capture %{name:cap}.                             *)
(***************************************************************************)
HasRef(p) == \E i \in 1 .. Len(p) : p[i].ref # ""

Names(p) == [i \in 1 .. Len(SelectSeq(p, LAMBDA t : t.cap # "")) |->
                SelectSeq(p, LAMBDA t : t.cap # "")[i].cap]

Known(p) == \A i \in 1 .. Len(p) : p[i].ref # "" => p[i].ref \in DOMAIN Library

\* One pass: every reference becomes a group around its definition.  The
\* captures of the pass go behind the names of the earlier ones.
expandOnce(e) ==
    IF e.err \/ ~Known(e.pattern) THEN [e EXCEPT !.err = TRUE]
    ELSE [pattern |-> FlattenSeq([i \in 1 .. Len(e.pattern) |->
                        IF e.pattern[i].ref = "" THEN <<e.pattern[i]>>
                        ELSE Library[e.pattern[i].ref]]),
          names   |-> e.names \o Names(e.pattern),
          err     |-> FALSE]

Passes(p, most) ==
    LET e[n \in 0 .. most] ==
            IF n = 0 THEN [pattern |-> p, names |-> <<>>, err |-> FALSE]
            ELSE IF HasRef(e[n - 1].pattern) THEN expandOnce(e[n - 1]) ELSE e[n - 1]
    IN  e[most]

expandPattern(p) == Passes(p, maxIterations)

(***************************************************************************)
(* logparse.Init: entry by entry, an error ends it and the processor keeps *)
(* no rule.                                                                *)
(***************************************************************************)
GrokPatterns(en) == (IF en.grok = <<>> THEN <<>> ELSE <<en.grok>>) \o en.patterns

Acceptable(en) ==
    /\ en.field # ""
    /\ \/ en.parser = "json"
       \/ en.parser = "regex" /\ en.regex # "" /\ en.regex \in Compiles
       \/ /\ en.parser = "grok"
          /\ GrokPatterns(en) # <<>>
          /\ \A j \in 1 .. Len(GrokPatterns(en)) : ~expandPattern(GrokPatterns(en)[j]).err

Compile(en) ==
    [field |-> en.field, parser |-> en.parser,
     groks |-> IF en.parser = "grok"
               THEN [j \in 1 .. Len(GrokPatterns(en)) |-> expandPattern(GrokPatterns(en)[j])]
               ELSE <<>>,
     regex |-> IF en.parser = "regex" THEN en.regex ELSE ""]

InitEntry ==
    /\ stage = "init" /\ ri <= Len(pconf)
    /\ IF Acceptable(pconf[ri])
       THEN rules' = Append(rules, Compile(pconf[ri])) /\ ri' = ri + 1 /\ UNCHANGED stage
       ELSE rules' = <<>> /\ stage' = "refused" /\ UNCHANGED ri
    /\ UNCHANGED <<chain, pconf, mtags, mfields, fields>>

InitDone ==
    /\ stage = "init" /\ ri > Len(pconf)
    /\ stage' = "logparse" /\ ri' = 1
    /\ fields' = mfields
    /\ UNCHANGED <<chain, pconf, rules, mtags, mfields>>

(***************************************************************************)
(* logparse.Apply                                                          *)
(***************************************************************************)
\* The fields a rule extracts from a text: those of the first of its patterns
\* that matches, none when there is no match.
applyGrok(rule, text) ==
    LET hit == SelectSeq(rule.groks, LAMBDA g : GrokCaptures[g.names][text] # NoMatch)
    IN  IF hit = <<>> THEN NoMatch ELSE GrokCaptures[hit[1].names][text]

Extract(rule, text) ==
    CASE rule.parser = "grok"  -> applyGrok(rule, text)
      [] rule.parser = "regex" -> Captures[rule.regex][text]
      [] rule.parser = "json"  -> Captures["json"][text]

\* A rule reads its field from the snapshot, adds what it extracts to the
\* metric and takes the snapshot again.
ApplyRule ==
    /\ stage = "logparse" /\ ri <= Len(rules)
    /\ LET rule == rules[ri]
           found == IF rule.field \in DOMAIN fields
                    THEN Extract(rule, fields[rule.field]) ELSE NoMatch
       IN  mfields' = IF found = NoMatch THEN mfields ELSE AddFields(mfields, found)
    /\ fields' = mfields'
    /\ ri' = ri + 1
    /\ UNCHANGED <<chain, pconf, rules, stage, mtags>>

ApplyDone ==
    /\ stage = "logparse" /\ ri > Len(rules)
    /\ stage' = "done"
    /\ UNCHANGED <<chain, pconf, rules, ri, mtags, mfields, fields>>

(***************************************************************************)
(* tagger.Apply and regex.Apply                                            *)
(***************************************************************************)
StaticTags ==
    /\ stage = "static"
    /\ mtags' = AddFields(mtags, pconf.static)
    /\ stage' = "conditions" /\ ri' = 1
    /\ UNCHANGED <<chain, pconf, rules, mfields, fields>>

\* Variant: a tag that is already there stays.
ApplyConditionKeeps ==
    /\ stage = "conditions"
    /\ IF ri <= Len(pconf.conditions)
       THEN LET c == pconf.conditions[ri] IN
            /\ mtags' = IF c.when = pconf.name /\ c.tag \notin DOMAIN mtags
                        THEN AddTag(mtags, c.tag, c.value) ELSE mtags
            /\ ri' = ri + 1 /\ UNCHANGED stage
       ELSE stage' = "regex" /\ ri' = 1 /\ UNCHANGED mtags
    /\ UNCHANGED <<chain, pconf, rules, mfields, fields>>

ApplyCondition ==
    /\ stage = "conditions"
    /\ IF ri <= Len(pconf.conditions)
       THEN LET c == pconf.conditions[ri] IN
            /\ mtags' = IF c.when = pconf.name THEN AddTag(mtags, c.tag, c.value) ELSE mtags
            /\ ri' = ri + 1 /\ UNCHANGED stage
       ELSE stage' = "regex" /\ ri' = 1 /\ UNCHANGED mtags
    /\ UNCHANGED <<chain, pconf, rules, mfields, fields>>

ApplyRegex ==
    /\ stage = "regex"
    /\ IF ri <= Len(pconf.regex)
       THEN LET r == pconf.regex[ri] IN
            /\ mtags' = IF r.key \in DOMAIN mtags
                        THEN AddTag(mtags, r.key, Replace[r.pat][mtags[r.key]]) ELSE mtags
            /\ ri' = ri + 1 /\ UNCHANGED stage
       ELSE stage' = "done" /\ UNCHANGED <<mtags, ri>>
    /\ UNCHANGED <<chain, pconf, rules, mfields, fields>>

\* What a configuration holds: the tagger's Init keeps the entries as they
\* are, the regex processor's refuses a pattern that does not compile.
TagConfig ==
    [name : {"cpu"}, tags : TagMap, static : TagMap,
     conditions : BoundedSeq(Condition, 2), regex : BoundedSeq(RegexRule, 2)]

ProcInit ==
    /\ rules = <<>> /\ ri = 1
    /\ \/ /\ chain = "tags" /\ stage = "static"
          /\ pconf \in TagConfig
          /\ mtags = pconf.tags
          /\ mfields = <<>>
       \/ /\ chain = "logparse" /\ stage = "init"
          /\ pconf \in BoundedSeq(Entry, 2)
          /\ mtags = <<>>
          /\ \E v \in Text : mfields = [f \in {"message"} |-> v]
    /\ fields = <<>>

ProcNext ==
    \/ InitEntry \/ InitDone \/ ApplyRule \/ ApplyDone
    \/ StaticTags \/ ApplyCondition \/ ApplyRegex

ProcSpec == ProcInit /\ [][ProcNext]_procVars

(***************************************************************************)
(* Properties.                                                             *)
(***************************************************************************)

\* Every tag of a processed metric is what the configuration says of its key
\* alone: the last condition that holds, else the static tag, else the tag it
\* came with, through the regex rules of that key in their order.
TagsAsConfigured ==
    chain = "tags" /\ stage = "done" =>
        LET hits(k) == {i \in 1 .. Len(pconf.conditions) :
                           pconf.conditions[i].tag = k /\ pconf.conditions[i].when = pconf.name}
            tagged(k) == IF hits(k) # {}
                         THEN pconf.conditions[CHOOSE i \in hits(k) : \A j \in hits(k) : j <= i].value
                         ELSE IF k \in DOMAIN pconf.static THEN pconf.static[k] ELSE pconf.tags[k]
            of(k) == SelectSeq(pconf.regex, LAMBDA r : r.key = k)
        IN  \A k \in Key :
            /\ k \in DOMAIN mtags <=>
                   hits(k) # {} \/ k \in DOMAIN pconf.static \cup DOMAIN pconf.tags
            /\ k \in DOMAIN mtags =>
                   mtags[k] = FoldLeft(LAMBDA v, r : Replace[r.pat][v], tagged(k), of(k))

\* A rule of logparse sees the fields the earlier rules added.
RulesSeeEarlierFields == stage = "logparse" => fields = mfields

\* Whatever Init accepts is ready to be applied: a grok rule has all of its
\* patterns compiled, none with a reference left in it and with its captures
\* in their order, a regex rule has its expression.
AcceptedRulesAreCompiled ==
    chain = "logparse" => \A i \in 1 .. Len(rules) :
        LET pats == GrokPatterns(pconf[i]) IN
        /\ rules[i].parser = "regex" => rules[i].regex \in Compiles
        /\ rules[i].parser = "grok" =>
               /\ Len(rules[i].groks) = Len(pats) /\ pats # <<>>
               /\ \A j \in 1 .. Len(pats) :
                      /\ ~HasRef(rules[i].groks[j].pattern)
                      /\ rules[i].groks[j].names = Names(pats[j])

\* A metric is processed as the configuration says, whichever rules apply to it
\* one after the other: tags are those configured for their key, a rule sees
\* what the rules before it added, and no rule is accepted half compiled.
ProcessedAsConfigured ==
    TagsAsConfigured /\ RulesSeeEarlierFields /\ AcceptedRulesAreCompiled
============================================================================
