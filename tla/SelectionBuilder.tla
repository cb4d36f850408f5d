--------------------------- MODULE SelectionBuilder --------------------------
(***************************************************************************)
(* Building the groups of an EventSelectionSet from the ordered options  *)
(* of simpleperf stat (StatCommand::ParseOptions, lines 838-876):         *)
(*   --cpu L     SetCpusForNewEvents(L)                                    *)
(*   -e a,b      AddEventType(a); AddEventType(b), one group per event    *)
(*   --group a,b AddEventGroup({a, b})                                     *)
(*   --tp-filter SetTracepointFilter on the last group                     *)
(* The user chooses the options one at a time; a false return ends       *)
(* ParseOptions, and so the command, with an error.  When no option added *)
(* an event, Run adds the default events (AddDefaultMeasuredEventTypes). *)
(***************************************************************************)
EXTENDS Integers, Sequences, FiniteSets, SequencesExt

CONSTANTS
    Events,       \* event names with their modifier (event_type_modifier.name)
    Tracepoints,  \* the events of type PERF_TYPE_TRACEPOINT
    Rejected,     \* names BuildAndCheckEventSelection refuses on their own
    Unsupported,  \* names whose attr IsEventAttrSupported refuses (checked only if check)
    PmuMask,      \* PmuMask[e]: cpumask of e's PMU ({} = none)
    Cpus,         \* cpu ids
    CpuLists,     \* the values a --cpu option may give
    Defaults,     \* default_measured_event_types, in order
    MaxNames,     \* bound on the names of one -e or --group option
    MaxOptions    \* bound on the options of one command line

ASSUME /\ Tracepoints \subseteq Events /\ Rejected \subseteq Events
       /\ Unsupported \subseteq Events
       /\ PmuMask \in [Events -> SUBSET Cpus]
       /\ CpuLists \subseteq (SUBSET Cpus) \ {{}}
       /\ MaxNames \in Nat \ {0} /\ MaxOptions \in Nat

\* The name lists an -e or --group option may carry.
NameLists == UNION {[1 .. n -> Events] : n \in 1 .. MaxNames}

Group == [sels : Seq(Events), cpus : SUBSET Cpus, allowed : SUBSET Cpus, filter : BOOLEAN]

VARIABLES
    groups,     \* groups_: sels = the selections' names, cpus = group.cpus,
                \* allowed = allowed_cpus of the first selection,
                \* filter = the tracepoint_filter of a lone selection is set
    cpusOpt,    \* cpus_; {} is std::nullopt, as a --cpu list is never empty
    opts,       \* the options pulled before the ordered ones: --app given,
                \* --in-app, and whether the user is root
    status,     \* "pulling", "parsing", "defaults" (ParseOptions returned true
                \* with no event), "ok" (the selection set is built for this
                \* process), "printed" (--print-hw-counter), "delegated"
                \* (RunInAppContext) or "error"
    nopts,      \* options processed
    cpusGiven   \* history: cpusGiven[g] = the --cpu in force when group g was added

vars == <<groups, cpusOpt, opts, status, nopts, cpusGiven>>

\* The names already in groups_.
NamesIn(gs) == UNION {ToSet(gs[g].sels) : g \in DOMAIN gs}

\* The cpus a new group gets: group.cpus = cpus_.value() when cpus_ is set.
DefaultCpus == cpusOpt

\* What the cpus of a group would be, by the help text of --cpu.
GivenCpus == cpusOpt

\* BuildAndCheckEventSelection: refuses names it cannot parse or whose
\* modifier the stat command refuses; when check is set, names the kernel
\* does not support; and names that a group already in groups_ has.
BuildAndCheckEventSelection(gs, name, check) ==
    /\ name \notin Rejected
    /\ check => name \notin Unsupported
    /\ name \notin NamesIn(gs)

\* Fault variant of CheckEventType: the check deferred in the app context too.
CheckEventTypeNotInApp == ~(opts.app /\ ~opts.root)

\* check_event_type: deferred when the command will run again in the app
\* (RunInAppContext), which checks the event types itself.
CheckEventType == ~(opts.app /\ ~opts.inApp /\ ~opts.root)

\* The group AddEventGroup builds from names that all passed the check.
NewGroup(names) ==
    [sels |-> names, cpus |-> DefaultCpus, allowed |-> PmuMask[names[1]], filter |-> FALSE]

\* AddEventGroup(names): the result and the groups_ it leaves.
AddEventGroup(gs, names, check) ==
    IF \A i \in DOMAIN names : BuildAndCheckEventSelection(gs, names[i], check)
    THEN [ok |-> TRUE, groups |-> Append(gs, NewGroup(names))]
    ELSE [ok |-> FALSE, groups |-> gs]

\* -e a,b,...: AddEventType for each name in turn, stopping at the first
\* failure; the groups added before it stay.
RECURSIVE AddEventTypes(_, _, _)
AddEventTypes(gs, names, check) ==
    IF names = <<>> THEN [ok |-> TRUE, groups |-> gs]
    ELSE LET r == AddEventGroup(gs, <<Head(names)>>, check)
         IN IF r.ok THEN AddEventTypes(r.groups, Tail(names), check) ELSE r

\* Apply the result of one option.
Apply(r) ==
    /\ groups' = r.groups
    /\ cpusGiven' = cpusGiven \o [i \in 1 .. Len(r.groups) - Len(groups) |-> GivenCpus]
    /\ status' = IF r.ok THEN "parsing" ELSE "error"

TakeOption ==
    /\ status = "parsing"
    /\ nopts < MaxOptions
    /\ nopts' = nopts + 1

\* Fault variant of SetCpusForNewEvents: cpus_ accumulating the lists.
SetCpusForNewEventsMerge(cl) ==
    /\ cpusOpt' = cpusOpt \cup cl
    /\ groups' = [g \in DOMAIN groups |->
                    IF groups[g].cpus = {} THEN [groups[g] EXCEPT !.cpus = cl] ELSE groups[g]]

SetCpusForNewEvents(cl) ==
    /\ cpusOpt' = cl
    /\ groups' = [g \in DOMAIN groups |->
                    IF groups[g].cpus = {} THEN [groups[g] EXCEPT !.cpus = cl] ELSE groups[g]]

\* --cpu L
CpuOption(cl) ==
    /\ TakeOption
    /\ SetCpusForNewEvents(cl)
    /\ UNCHANGED <<opts, status, cpusGiven>>

\* -e a,b,...
EventOption(names) ==
    /\ TakeOption
    /\ Apply(AddEventTypes(groups, names, CheckEventType))
    /\ UNCHANGED <<cpusOpt, opts>>

\* --group a,b,...
GroupOption(names) ==
    /\ TakeOption
    /\ Apply(AddEventGroup(groups, names, CheckEventType))
    /\ UNCHANGED <<cpusOpt, opts>>

\* SetTracepointFilter: the last group must be one tracepoint selection;
\* "valid" is whether the filter's format and field names pass the checks.
TpFilterOption(valid) ==
    LET last == groups[Len(groups)]
        found == groups # <<>> /\ Len(last.sels) = 1 /\ last.sels[1] \in Tracepoints
    IN /\ TakeOption
       /\ IF found /\ valid
          THEN groups' = [groups EXCEPT ![Len(groups)].filter = TRUE]
          ELSE UNCHANGED groups
       /\ status' = IF found /\ valid THEN "parsing" ELSE "error"
       /\ UNCHANGED <<cpusOpt, opts, cpusGiven>>

\* Lines 744-829: PreprocessOptions and the pulls of the unordered options.
\* Parsing --duration, --interval, -p, -t, a --kprobe or --uprobe, or
\* reading --tracepoint-events may fail; otherwise --app, --in-app and the
\* user's uid are what the ordered options below depend on.
PullOptions ==
    /\ status = "pulling"
    /\ \/ status' = "error" /\ UNCHANGED opts
       \/ /\ status' = "parsing"
          /\ opts' \in [app : BOOLEAN, inApp : BOOLEAN, root : BOOLEAN]
    /\ UNCHANGED <<groups, cpusOpt, nopts, cpusGiven>>

\* Lines 877-900, the checks after the ordered options, for the values the
\* pulls gave: -a with -p or -t, -a without root, --monitor-new-thread
\* without --per-thread or with inheritance, and sort keys
\* BuildSummaryComparator refuses when reporting per thread or per core.
FinalChecks(f) ==
    /\ ~(f.systemWide /\ f.targets)
    /\ ~(f.systemWide /\ ~opts.root)
    /\ f.monitorNewThread => f.perThread /\ ~f.inherit
    /\ (f.perCore \/ f.perThread) => f.sortKeysOk

FinalFlags == [systemWide : BOOLEAN, targets : BOOLEAN, monitorNewThread : BOOLEAN,
               perThread : BOOLEAN, inherit : BOOLEAN, perCore : BOOLEAN,
               sortKeysOk : BOOLEAN]

\* The ordered options are all processed: ParseOptions makes its final
\* checks, then Run (lines 587-608) prints the hardware counters, or hands
\* the command to the app (--app from a non-root shell), or turns to the
\* default events when no option gave one.
EndOptions ==
    /\ status = "parsing"
    /\ \E f \in FinalFlags, printHwCounter \in BOOLEAN :
         status' = CASE ~FinalChecks(f)                   -> "error"
                     [] printHwCounter                    -> "printed"
                     [] opts.app /\ ~opts.inApp /\ ~opts.root -> "delegated"
                     [] groups = <<>>                     -> "defaults"
                     [] OTHER                             -> "ok"
    /\ UNCHANGED <<groups, cpusOpt, opts, nopts, cpusGiven>>

\* AddDefaultMeasuredEventTypes: a default the kernel does not know is
\* skipped; without kernel events cpu-clock and task-clock are skipped
\* and the others count user space only (":u"); a name whose attr the
\* kernel refuses is skipped; AddEventType may still fail, and with no
\* event added Run fails.
AddDefaultMeasuredEventTypes ==
    /\ status = "defaults"
    /\ \E kernelEvents \in BOOLEAN, supported \in SUBSET (Events \ Unsupported) :
         LET known == SelectSeq(Defaults, LAMBDA n :
                        n \in Events /\ (kernelEvents \/ n \notin {"cpu-clock", "task-clock"}))
             name(n) == IF kernelEvents THEN n ELSE n \o ":u"
             added == SelectSeq([i \in DOMAIN known |-> name(known[i])], LAMBDA n : n \in supported)
             r == AddEventTypes(groups, added, TRUE)
         IN /\ groups' = r.groups
            /\ cpusGiven' = cpusGiven \o [i \in 1 .. Len(r.groups) - Len(groups) |-> GivenCpus]
            /\ status' = IF r.ok /\ r.groups # <<>> THEN "ok" ELSE "error"
    /\ UNCHANGED <<cpusOpt, opts, nopts>>

Init ==
    /\ groups = <<>>
    /\ cpusOpt = {}
    /\ opts = [app |-> FALSE, inApp |-> FALSE, root |-> FALSE]
    /\ status = "pulling"
    /\ nopts = 0
    /\ cpusGiven = <<>>

Next ==
    \/ \E cl \in CpuLists : CpuOption(cl)
    \/ \E names \in NameLists : EventOption(names) \/ GroupOption(names)
    \/ \E valid \in BOOLEAN : TpFilterOption(valid)
    \/ PullOptions
    \/ EndOptions
    \/ AddDefaultMeasuredEventTypes
    \/ status \in {"ok", "error", "printed", "delegated"} /\ UNCHANGED vars

Spec == Init /\ [][Next]_vars

(***************************************************************************)
(* Properties.                                                             *)
(***************************************************************************)
BuilderTypeOK ==
    /\ groups \in Seq(Group)
    /\ cpusOpt \in CpuLists \cup {{}}
    /\ opts \in [app : BOOLEAN, inApp : BOOLEAN, root : BOOLEAN]
    /\ status \in {"pulling", "parsing", "defaults", "ok", "printed", "delegated", "error"}
    /\ nopts \in 0 .. MaxOptions
    /\ cpusGiven \in Seq(SUBSET Cpus) /\ Len(cpusGiven) = Len(groups)

\* All the selection names of groups_, in order.
AllNames == FoldLeft(LAMBDA acc, g : acc \o g.sels, <<>>, groups)

\* Spec 2, invariant 2: event names are unique across the whole selection
\* set after every AddEventGroup that succeeded (so when ParseOptions
\* returns true).
UniqueNames ==
    status = "ok" => Len(AllNames) = Cardinality(ToSet(AllNames))

\* Help text of --cpu (cmd_stat.cpp lines 438-440): a --cpu option affects
\* the event types following it until the next --cpu option, so every
\* group has the cpus of the last --cpu before it.
CpuOptionPositional ==
    status = "ok" => \A g \in DOMAIN groups : groups[g].cpus = cpusGiven[g]

\* Lines 831-835 and 591-593: the event types are checked when parsed,
\* except in a non-root shell given --app, which hands the command to the
\* app before using them.  So a selection set built for this process to
\* open never holds an event type the kernel does not support.
UnsupportedOnlyHandedOff ==
    status = "ok" => ToSet(AllNames) \cap Unsupported = {}
=============================================================================
