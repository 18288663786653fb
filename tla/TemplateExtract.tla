--------------------------- MODULE TemplateExtract ----------------------------
(***************************************************************************)
(* TemplateExtractor::extract of src/agent/template.rs: a batch of lines   *)
(* becomes templates, and one record per line with the id of its template  *)
(* and the parameters that fill it.                                        *)
(*                                                                         *)
(* The groups are held in HashMaps, so they are taken in any order: this   *)
(* decides which template gets which id, and which of two templates with   *)
(* the same signature is the one that is kept.                             *)
(***************************************************************************)
EXTENDS ParamCodec, SequencesExt

CONSTANTS
    Lines,       \* the log lines: [ts, service, level, message]
    MaxBatch     \* bound: lines of a batch

ASSUME ExtractAssumption ==
    /\ MaxBatch \in Nat \ {0}
    /\ \A l \in Lines : l.message \in Seq(Tokens)

VARIABLES
    phase,       \* "collect", "extract", "done", and what follows in ChunkCodec
    batch,       \* the lines, in order
    todo,        \* groups of line numbers that are still to be handled
    subs,        \* the same for the subgroups of one group
    templates,   \* a template is a sequence of tokens and holes
    records      \* records[i]: template id (from 1) and parameters of line i

evars == <<phase, batch, todo, subs, templates, records>>

Star == [punct |-> "*"]
Hole == [hole |-> "param"]      \* TemplatePart::Param

Msg(i) == batch[i].message
First(g) == CHOOSE i \in g : \A j \in g : i <= j

EInit ==
    /\ phase = "collect"
    /\ batch = <<>> /\ todo = {} /\ subs = {} /\ templates = <<>> /\ records = <<>>

\* The caller fills its batch.
Collect(l) ==
    /\ phase = "collect" /\ Len(batch) < MaxBatch
    /\ batch' = Append(batch, l)
    /\ UNCHANGED <<phase, todo, subs, templates, records>>

\* The classes of the lines of S under a key.
ClassesOf(S, Key(_)) == {{j \in S : Key(j) = Key(i)} : i \in S}

\* type_sequence of line i
TypeSequence(i) == [k \in DOMAIN Msg(i) |-> TypeChar(Msg(i)[k])]

\* extract is called: lines with the same sequence of token types form a group.
Extract ==
    /\ phase = "collect" /\ batch # <<>>
    /\ phase' = "extract"
    /\ todo' = ClassesOf(DOMAIN batch, TypeSequence)
    /\ UNCHANGED <<batch, subs, templates, records>>

\* A token position where all lines of g agree.
Fixed(g, k) == \A i \in g : Msg(i)[k] = Msg(First(g))[k]

\* Too few fixed tokens for a template.
Degenerate(g) ==
    LET n == Len(Msg(First(g)))
        fixed == Cardinality({k \in 1..n : Fixed(g, k)})
    IN fixed < (IF n \div 4 > 2 THEN n \div 4 ELSE 2)

\* mask_to_parts
Parts(g) ==
    [k \in DOMAIN Msg(First(g)) |-> IF Fixed(g, k) THEN Msg(First(g))[k] ELSE Hole]

\* extract_params_from_mask
Params(g, i) ==
    LET holes == SelectSeq([k \in DOMAIN Msg(i) |-> k], LAMBDA k : ~Fixed(g, k))
    IN [h \in DOMAIN holes |-> FromStr(Msg(i)[holes[h]])]

\* The signature of a template has a star for every hole.
Signature(parts) == [k \in DOMAIN parts |-> IF parts[k] = Hole THEN Star ELSE parts[k]]

\* A message without tokens that is alone of its kind.
Skipped(g) == Cardinality(g) = 1 /\ Msg(First(g)) = <<>>

\* A template and one record for each line of g (get_or_create_template,
\* build_record), unless g is skipped.
Emit(g) ==
    IF Skipped(g) THEN UNCHANGED <<templates, records>>
    ELSE LET same == {n \in DOMAIN templates : Signature(templates[n]) = Signature(Parts(g))}
             id == IF same = {} THEN Len(templates) + 1 ELSE First(same)
         IN /\ templates' = IF same = {} THEN Append(templates, Parts(g)) ELSE templates
            /\ records' = [i \in DOMAIN records \cup g |->
                             IF i \in g THEN [pat |-> id, params |-> Params(g, i)]
                             ELSE records[i]]

\* A group that gives one template.
TakeGroup(g) ==
    /\ phase = "extract" /\ subs = {} /\ g \in todo
    /\ Cardinality(g) = 1 \/ ~Degenerate(g)
    /\ todo' = todo \ {g}
    /\ Emit(g)
    /\ UNCHANGED <<phase, batch, subs>>

\* A prefix of at most four tokens.
PrefixOf(i) == SubSeq(Msg(i), 1, IF Len(Msg(i)) < 4 THEN Len(Msg(i)) ELSE 4)

\* A degenerate group is split by the first tokens of its lines.
SplitGroup(g) ==
    /\ phase = "extract" /\ subs = {} /\ g \in todo
    /\ Cardinality(g) > 1 /\ Degenerate(g)
    /\ todo' = todo \ {g}
    /\ subs' = ClassesOf(g, PrefixOf)
    /\ UNCHANGED <<phase, batch, templates, records>>

TakeSubgroup(g) ==
    /\ phase = "extract" /\ g \in subs
    /\ subs' = subs \ {g}
    /\ Emit(g)
    /\ UNCHANGED <<phase, batch, todo>>

ExtractDone ==
    /\ phase = "extract" /\ todo = {} /\ subs = {}
    /\ phase' = "done"
    /\ UNCHANGED <<batch, todo, subs, templates, records>>

ENext ==
    \/ \E l \in Lines : Collect(l)
    \/ Extract \/ ExtractDone
    \/ \E g \in todo : TakeGroup(g) \/ SplitGroup(g)
    \/ \E g \in subs : TakeSubgroup(g)

-----------------------------------------------------------------------------
(* The batch as it is returned: records in the order of the lines, with the *)
(* time since the record before.                                            *)

RecordLines == SetToSortSeq(DOMAIN records, <)

BatchRecords ==
    [r \in DOMAIN RecordLines |->
        LET i == RecordLines[r] IN
        [line |-> i, pat |-> records[i].pat, params |-> records[i].params,
         level |-> batch[i].level,
         delta |-> IF r = 1 THEN batch[i].ts ELSE batch[i].ts - batch[RecordLines[r-1]].ts]]

\* A message put together from a template: what a hole without a parameter
\* leaves is missing.
Fill(parts, params, missing) ==
    LET hole(k) == Cardinality({j \in 1..k : parts[j] = Hole})
        piece(k) == IF parts[k] # Hole THEN <<parts[k]>>
                    ELSE IF hole(k) <= Len(params) THEN <<ToStr(params[hole(k)])>> ELSE missing
    IN FlattenSeq([k \in DOMAIN parts |-> piece(k)])

\* The records are those of the lines, each once, except that a message without
\* tokens may have none; and the shape of a record is that of its template, unless
\* a literal star made two templates look the same (get_or_create_template).
StarInBatch == \E i \in DOMAIN batch : Star \in ToSet(Msg(i))

RecordsFit ==
    phase # "collect" /\ todo = {} /\ subs = {} =>
        /\ \A i \in DOMAIN batch : i \notin DOMAIN records => Msg(i) = <<>>
        /\ StarInBatch \/ \A i \in DOMAIN records :
             LET t == templates[records[i].pat] IN
             /\ Len(t) = Len(Msg(i))
             /\ Len(records[i].params) = Cardinality({k \in DOMAIN t : t[k] = Hole})
             /\ \A k \in DOMAIN t : t[k] \in {Hole, Msg(i)[k]}
===============================================================================
