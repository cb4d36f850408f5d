--------------------------- MODULE CounterSummaries --------------------------
(***************************************************************************)
(* The summary step of StatCommand::ShowCounters (cmd_stat.cpp):          *)
(* AutoGenerateSummaries adds, for every "u" summary with a "k" sibling   *)
(* counted at the same time and no "" summary yet, a "" summary holding   *)
(* their sum; GenerateComments then gives each summary its comment       *)
(* (GetCommentForSummary, GetRateComment).  A comment is modelled by what *)
(* it computes: its kind and the numerator and denominator of its ratio; *)
(* the printf formatting is left out.                                    *)
(*                                                                         *)
(* Both are written as the code runs them (an index loop that also visits *)
(* the summaries it appends, FindSummary returning the first match) and  *)
(* checked, for every input list within the bounds, against a reference  *)
(* definition stated over sets.                                          *)
(***************************************************************************)
EXTENDS Integers, Sequences, FiniteSets, SequencesExt, FiniteSetsExt

CONSTANTS
    Types,      \* event type names
    Mods,       \* modifiers: "u", "k", ""
    Families,   \* sets of <<type, modifier>> pairs; one input list draws from one
    Threads,    \* thread keys of the summaries (one when not --per-thread)
    CpuKeys,    \* cpu keys of the summaries (-1 when not --per-core)
    Groups,     \* group ids
    Counts,     \* counts a summary may hold
    Runtimes,   \* runtime_in_ns values a summary may hold
    RateBase,   \* RateBase[t]: <<base event, rate description>> for t, or <<>>
    MaxLen,     \* bound on the length of the list from CounterSummaryBuilder
    Duration,   \* duration_in_sec of the print the inputs are checked with
    NsPerSec    \* nanoseconds in a second (1e9; scaled down for TLC's integers)

ASSUME /\ DOMAIN RateBase = Types /\ Families \subseteq SUBSET (Types \X Mods)
       /\ MaxLen \in Nat /\ Duration \in Nat \ {0} /\ NsPerSec \in Nat \ {0}

\* Whether a and b are the same counter key apart from the modifier.
SameKey(a, b) == a.type = b.type /\ a.thread = b.thread /\ a.cpu = b.cpu

\* CounterSummary::IsMonitoredAtTheSameTime: the same group, or both
\* counted all the time (scale within 1e-5 of 1).
IsMonitoredAtTheSameTime(a, b) == a.group = b.group \/ (a.full /\ b.full)

\* FindSummary: index of the first summary with this key, 0 for nullptr.
FindSummary(L, type, mod, thread, cpu) ==
    LET idx == {i \in DOMAIN L : L[i].type = type /\ L[i].mod = mod
                                 /\ L[i].thread = thread /\ L[i].cpu = cpu}
    IN IF idx = {} THEN 0 ELSE Min(idx)

\* The "" summary made from u-summary s and its k sibling o.
Combined(s, o) == [s EXCEPT !.mod = "", !.count = s.count + o.count, !.auto = TRUE]

\* Fault variant of AutoGenFrom: no check for an existing "" summary.
RECURSIVE AutoGenFromDup(_, _)
AutoGenFromDup(L, i) ==
    IF i > Len(L) THEN L
    ELSE LET s == L[i]
             o == FindSummary(L, s.type, "k", s.thread, s.cpu)
             add == s.mod = "u" /\ o # 0 /\ IsMonitoredAtTheSameTime(L[o], s)
         IN AutoGenFromDup(IF add THEN Append(L, Combined(s, L[o])) ELSE L, i + 1)

\* The loop of AutoGenerateSummaries from index i; summaries_.size() is
\* read again at every iteration, so appended summaries are visited too.
RECURSIVE AutoGenFrom(_, _)
AutoGenFrom(L, i) ==
    IF i > Len(L) THEN L
    ELSE LET s == L[i]
             o == FindSummary(L, s.type, "k", s.thread, s.cpu)
             add == /\ s.mod = "u" /\ o # 0 /\ IsMonitoredAtTheSameTime(L[o], s)
                    /\ FindSummary(L, s.type, "", s.thread, s.cpu) = 0
         IN AutoGenFrom(IF add THEN Append(L, Combined(s, L[o])) ELSE L, i + 1)

AutoGenerateSummaries(L) == AutoGenFrom(L, 1)

\* Fault variant of GetRateComment: no check that the base count is not 0.
GetRateCommentZeroBase(L, s) ==
    IF RateBase[s.type] = <<>> THEN <<>>
    ELSE LET o == FindSummary(L, RateBase[s.type][1], s.mod, s.thread, s.cpu)
         IN IF o # 0 /\ IsMonitoredAtTheSameTime(L[o], s)
            THEN <<RateBase[s.type][2], s.count, L[o].count>>
            ELSE <<>>

\* GetRateComment: the miss rate against the base event of the same
\* modifier, thread and cpu, when it was counted at the same time and is
\* not zero.
GetRateComment(L, s) ==
    IF RateBase[s.type] = <<>> THEN <<>>
    ELSE LET o == FindSummary(L, RateBase[s.type][1], s.mod, s.thread, s.cpu)
         IN IF o # 0 /\ IsMonitoredAtTheSameTime(L[o], s) /\ L[o].count # 0
            THEN <<RateBase[s.type][2], s.count, L[o].count>>
            ELSE <<>>

\* GetCommentForSummary, in the order of its early returns.
GetCommentForSummary(L, s, duration) ==
    LET cyc == FindSummary(L, "cpu-cycles", s.mod, s.thread, s.cpu)
        cpi == /\ s.type = "instructions" /\ s.count # 0
               /\ cyc # 0 /\ IsMonitoredAtTheSameTime(L[cyc], s)
        rate == GetRateComment(L, s)
    IN IF s.type = "task-clock" THEN <<"cpus used", s.count, duration * NsPerSec>>
       ELSE IF s.type = "cpu-clock" THEN <<>>
       ELSE IF s.type = "cpu-cycles"
            THEN IF s.runtime = 0 THEN <<>> ELSE <<"GHz", s.count, s.runtime>>
       ELSE IF cpi THEN <<"cycles per instruction", L[cyc].count, s.count>>
       ELSE IF rate # <<>> THEN rate
       ELSE IF s.runtime = 0 THEN <<>>
       ELSE <<"/sec", s.count * NsPerSec, s.runtime>>

GenerateComments(L, duration) ==
    [i \in DOMAIN L |-> [L[i] EXCEPT !.comment = GetCommentForSummary(L, L[i], duration)]]

\* Fault variant of SummarizeCounters: comments generated before the
\* automatic summaries.
SummarizeCountersCommentsFirst(L, duration) ==
    AutoGenerateSummaries(GenerateComments(L, duration))

\* ShowCounters, lines 1085-1087.
SummarizeCounters(L, duration) == GenerateComments(AutoGenerateSummaries(L), duration)

(***************************************************************************)
(* Reference definitions.                                                  *)
(***************************************************************************)
\* A "u" summary gets a "" partner when a "k" summary of its key was counted
\* at the same time and the list has no "" summary of that key.
Eligible(L, s) ==
    /\ s.mod = "u"
    /\ \E k \in ToSet(L) : SameKey(k, s) /\ k.mod = "k" /\ IsMonitoredAtTheSameTime(k, s)
    /\ ~\E e \in ToSet(L) : SameKey(e, s) /\ e.mod = ""

KSibling(L, s) == CHOOSE k \in ToSet(L) : SameKey(k, s) /\ k.mod = "k"

RefAutoGenerate(L) ==
    LET el == SelectSeq(L, LAMBDA s : Eligible(L, s))
    IN L \o [i \in DOMAIN el |-> Combined(el[i], KSibling(L, el[i]))]

\* The summary of type t with s's modifier, thread and cpu, if any.
Partner(F, s, t) == {o \in ToSet(F) : o.type = t /\ o.mod = s.mod /\ o.thread = s.thread /\ o.cpu = s.cpu}

RefComment(F, s, duration) ==
    LET cycles == {c \in Partner(F, s, "cpu-cycles") : IsMonitoredAtTheSameTime(c, s)}
        bases == IF RateBase[s.type] = <<>> THEN {}
                 ELSE {o \in Partner(F, s, RateBase[s.type][1]) :
                         IsMonitoredAtTheSameTime(o, s) /\ o.count # 0}
    IN IF s.type = "task-clock" THEN <<"cpus used", s.count, duration * NsPerSec>>
       ELSE IF s.type = "cpu-clock" THEN <<>>
       ELSE IF s.type = "cpu-cycles"
            THEN IF s.runtime = 0 THEN <<>> ELSE <<"GHz", s.count, s.runtime>>
       ELSE IF s.type = "instructions" /\ s.count # 0 /\ cycles # {}
            THEN <<"cycles per instruction", (CHOOSE c \in cycles : TRUE).count, s.count>>
       ELSE IF bases # {}
            THEN <<RateBase[s.type][2], s.count, (CHOOSE o \in bases : TRUE).count>>
       ELSE IF s.runtime = 0 THEN <<>>
       ELSE <<"/sec", s.count * NsPerSec, s.runtime>>

RefSummaries(L, duration) ==
    LET F == RefAutoGenerate(L)
    IN [i \in DOMAIN F |-> [F[i] EXCEPT !.comment = RefComment(F, F[i], duration)]]

(***************************************************************************)
(* The inputs: lists from CounterSummaryBuilder, one summary per key.      *)
(***************************************************************************)
Keys == Types \X Mods \X Threads \X CpuKeys

KeySeqs ==
    UNION {{ks \in [1 .. n -> Keys] : IsInjective(ks) /\ \A j \in 1 .. n : <<ks[j][1], ks[j][2]>> \in F} :
           F \in Families, n \in 0 .. MaxLen}

Built(ks, a) ==
    [i \in DOMAIN ks |-> [type |-> ks[i][1], mod |-> ks[i][2], thread |-> ks[i][3],
                          cpu |-> ks[i][4], group |-> a[i].group, full |-> a[i].full,
                          count |-> a[i].count, runtime |-> a[i].runtime,
                          auto |-> FALSE, comment |-> <<>>]]

Attrs == [group : Groups, full : BOOLEAN, count : Counts, runtime : Runtimes]

VARIABLE input

Init == \E ks \in KeySeqs : \E a \in [DOMAIN ks -> Attrs] : input = Built(ks, a)

\* Every input is one run of ShowCounters; nothing changes afterwards.
Next == UNCHANGED input

Spec == Init /\ [][Next]_input

(***************************************************************************)
(* Properties.                                                             *)
(***************************************************************************)
\* ShowCounters' summaries, with the "" summaries AutoGenerateSummaries adds
\* and the comment of each, are the ones the reference definitions give:
\* no "" summary is made twice or for a pair counted at different times,
\* and each ratio is taken against the partner the spec names, the
\* generated summaries included.
SummariesMatchReference ==
    SummarizeCounters(input, Duration) = RefSummaries(input, Duration)
=============================================================================
