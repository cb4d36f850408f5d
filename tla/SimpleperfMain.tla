--------------------------- MODULE SimpleperfMain ----------------------------
(***************************************************************************)
(* main() (main.cpp) on Android: AndroidSecurityCheck, then, in an app's   *)
(* uid, prctl(PR_SET_DUMPABLE, 0), then the command.  The command is       *)
(* `stat` and its Run (cmd_stat.cpp): CheckPerfEventLimit and ParseOptions *)
(* may fail; with --app on a non-root shell, Run hands the whole command   *)
(* to a simpleperf started in the app's context (RunInAppContext) and      *)
(* returns its result; otherwise it goes on with DevfreqCounters and the   *)
(* session, composed here from DevfreqCounters.                            *)
(*                                                                         *)
(* Two simpleperf processes: the one the user starts from the shell, with  *)
(* the uid of the shell or root, and one in the uid of an app, started     *)
(* either by the shell one (--app) or by the app itself.  The system       *)
(* properties they read and write are shared: security.perf_harden and   *)
(* the persist.simpleperf.profile_app_uid / _expiration_time grant.        *)
(***************************************************************************)
EXTENDS Integers

CONSTANTS
    Versions,     \* the values GetAndroidVersion() may return
    MaxTime,      \* bound on time(nullptr)
    SetPropUids,  \* the uids the platform lets set security.perf_harden
    Devices, Governors, NoFile   \* of DevfreqCounters

Uids == {"root", "shell", "app"}
Procs == {"shell", "app"}
Times == 0 .. MaxTime

ASSUME SetPropUids \subseteq Uids /\ Versions \subseteq Nat

VARIABLES
    version,      \* GetAndroidVersion()
    harden,       \* the value of security.perf_harden
    grantUid,     \* persist.simpleperf.profile_app_uid ("unset" reads as 0)
    grantExpiry,  \* persist.simpleperf.profile_app_expiration_time
    now,          \* time(nullptr)
    shellUid,     \* the uid of the simpleperf started from the shell
    opts,         \* its options: --app and --use-devfreq-counters
    phase,        \* phase[p] of each simpleperf process
    dumpable,     \* PR_GET_DUMPABLE of each process
    checkedAt,    \* history: the time of each process's security check
    via,          \* history: "none", or who started the app-context one
    hardenAtBoot, \* history: security.perf_harden before any simpleperf ran
    clearedBy,    \* history: the uid of the simpleperf that set it to "0"
    gov, paths, i, dpc, initGov, unrestored   \* DevfreqCounters of the shell's Run

mainVars == <<version, harden, grantUid, grantExpiry, now, shellUid, opts,
              phase, dumpable, checkedAt, via, hardenAtBoot, clearedBy>>
devVars == <<gov, paths, i, dpc, initGov, unrestored>>
vars == <<mainVars, devVars>>

\* StatCommand::Run of the shell process after line 597, for each answer of
\* IsRoot() and each --use-devfreq-counters.
RootRun == INSTANCE DevfreqCounters WITH IsRoot <- TRUE, UseDevfreq <- TRUE, pc <- dpc
UserRun == INSTANCE DevfreqCounters WITH IsRoot <- FALSE, UseDevfreq <- TRUE, pc <- dpc
PlainRun == INSTANCE DevfreqCounters WITH IsRoot <- FALSE, UseDevfreq <- FALSE, pc <- dpc

Uid(p) == IF p = "shell" THEN shellUid ELSE "app"

\* Fault variant of AppGrantValid: a grant is still good at its expiration
\* second.
AppGrantValidAtExpiry(p) ==
    /\ version >= 13 /\ Uid(p) = "app" /\ grantUid = Uid(p)
    /\ grantExpiry >= now

\* Lines 49-57: on Android >= 13 an app may profile itself while the uid
\* property names it and the expiration time is ahead of time(nullptr).
AppGrantValid(p) ==
    /\ version >= 13 /\ Uid(p) = "app" /\ grantUid = Uid(p)
    /\ grantExpiry > now

\* Fault variant of AndroidSecurityCheck: on Android >= 13 an app's uid is
\* decided by its grant alone, without falling through to perf_harden.
AndroidSecurityCheckGrantOnly(p) ==
    IF Uid(p) = "root" THEN {<<TRUE, harden>>}
    ELSE IF version >= 13 /\ Uid(p) = "app" THEN {<<AppGrantValid(p), harden>>}
    ELSE IF version < 11 \/ harden = "0" THEN {<<TRUE, harden>>}
    ELSE {<<FALSE, harden>>} \cup (IF Uid(p) \in SetPropUids THEN {<<TRUE, "0">>} ELSE {})

\* AndroidSecurityCheck, as the set of its outcomes <<passed, the value of
\* security.perf_harden after it>>: root passes, then a valid app grant;
\* on Android >= 11 a perf_harden other than "0" is set to "0", which only
\* the uids the platform allows can do, and may still fail.
AndroidSecurityCheck(p) ==
    IF Uid(p) = "root" \/ AppGrantValid(p) \/ version < 11 \/ harden = "0"
    THEN {<<TRUE, harden>>}
    ELSE {<<FALSE, harden>>} \cup (IF Uid(p) \in SetPropUids THEN {<<TRUE, "0">>} ELSE {})

\* main(): the security check, then PR_SET_DUMPABLE 0 in an app's uid, and
\* RunSimpleperfCmd; a failed check returns 1.
Main(p) ==
    /\ phase[p] = "main"
    /\ \E o \in AndroidSecurityCheck(p) :
         /\ harden' = o[2]
         /\ phase' = [phase EXCEPT ![p] = IF o[1] THEN "cmd" ELSE "denied"]
         /\ dumpable' = [dumpable EXCEPT ![p] = dumpable[p] /\ ~(o[1] /\ Uid(p) = "app")]
         /\ clearedBy' = IF o[2] # harden THEN Uid(p) ELSE clearedBy
    /\ checkedAt' = [checkedAt EXCEPT ![p] = now]
    /\ UNCHANGED <<version, grantUid, grantExpiry, now, shellUid, opts, via, hardenAtBoot>>
    /\ UNCHANGED devVars

\* StatCommand::Run up to line 597: CheckPerfEventLimit and ParseOptions may
\* fail; --app from a non-root shell runs the command in the app's context
\* and waits for it; otherwise Run goes on (devfreq counters and the
\* session: DevfreqCounters for the shell process; for the app's, Use fails
\* as it is not root, line 599).
RunPrologue(p) ==
    /\ phase[p] = "cmd"
    /\ \E ok \in BOOLEAN :
         \/ /\ ~ok
            /\ phase' = [phase EXCEPT ![p] = "exited"] /\ UNCHANGED via
         \/ /\ ok /\ p = "shell" /\ opts.app /\ shellUid # "root"
            /\ phase' = [phase EXCEPT !["shell"] = "waitapp", !["app"] = "main"]
            /\ via' = "shell"
         \/ /\ ok /\ ~(p = "shell" /\ opts.app /\ shellUid # "root")
            /\ phase' = [phase EXCEPT ![p] =
                           IF p = "shell" THEN "stat"
                           ELSE IF opts.devfreq THEN "exited" ELSE "session"]
            /\ UNCHANGED via
    /\ UNCHANGED <<version, harden, grantUid, grantExpiry, now, shellUid, opts,
                   dumpable, checkedAt, hardenAtBoot, clearedBy>>
    /\ UNCHANGED devVars

\* Lines 598-603: Run calls Use with --use-devfreq-counters, and Use
\* refuses a process that is not root.
StatStartUse ==
    CASE ~opts.devfreq       -> PlainRun!StartUse
      [] shellUid = "root"   -> RootRun!StartUse
      [] OTHER               -> UserRun!StartUse

\* The rest of the shell process's Run: DevfreqCounters::Use, the setup
\* and the session, the destructor, or a signal before the handlers.
StatRun ==
    /\ phase["shell"] = "stat"
    /\ \/ StatStartUse \/ RootRun!UseStep \/ RootRun!UseDone \/ RootRun!Setup
       \/ RootRun!LoopEnds \/ RootRun!Destroy \/ RootRun!Killed
    /\ UNCHANGED mainVars

\* Run returns and main returns its exit code; a killed process is gone.
StatReturns ==
    /\ phase["shell"] = "stat" /\ dpc \in {"returned", "killed"}
    /\ phase' = [phase EXCEPT !["shell"] = IF dpc = "killed" THEN "killed" ELSE "exited"]
    /\ UNCHANGED <<version, harden, grantUid, grantExpiry, now, shellUid, opts,
                   dumpable, checkedAt, via, hardenAtBoot, clearedBy>>
    /\ UNCHANGED devVars

\* The app-context process counts, prints and returns.
AppSessionEnds ==
    /\ phase["app"] = "session"
    /\ phase' = [phase EXCEPT !["app"] = "exited"]
    /\ UNCHANGED <<version, harden, grantUid, grantExpiry, now, shellUid, opts,
                   dumpable, checkedAt, via, hardenAtBoot, clearedBy>>
    /\ UNCHANGED devVars

\* return RunInAppContext(...): the shell process returns once the one in
\* the app's context has.
WaitApp ==
    /\ phase["shell"] = "waitapp" /\ phase["app"] \in {"exited", "denied"}
    /\ phase' = [phase EXCEPT !["shell"] = "exited"]
    /\ UNCHANGED <<version, harden, grantUid, grantExpiry, now, shellUid, opts,
                   dumpable, checkedAt, via, hardenAtBoot, clearedBy>>
    /\ UNCHANGED devVars

\* The app starts simpleperf itself, at any time.
AppLaunch ==
    /\ phase["app"] = "idle" /\ ~opts.app
    /\ phase' = [phase EXCEPT !["app"] = "main"] /\ via' = "self"
    /\ UNCHANGED <<version, harden, grantUid, grantExpiry, now, shellUid, opts,
                   dumpable, checkedAt, hardenAtBoot, clearedBy>>
    /\ UNCHANGED devVars

Tick ==
    /\ now < MaxTime /\ now' = now + 1
    /\ UNCHANGED <<version, harden, grantUid, grantExpiry, shellUid, opts,
                   phase, dumpable, checkedAt, via, hardenAtBoot, clearedBy>>
    /\ UNCHANGED devVars

Init ==
    /\ version \in Versions /\ harden \in {"0", "1"} /\ hardenAtBoot = harden
    /\ grantUid \in {"unset", "app", "other"} /\ grantExpiry \in Times /\ now = 0
    /\ shellUid \in {"root", "shell"} /\ opts \in [app : BOOLEAN, devfreq : BOOLEAN]
    /\ phase = [p \in Procs |-> IF p = "shell" THEN "main" ELSE "idle"]
    /\ dumpable = [p \in Procs |-> TRUE] /\ checkedAt = [p \in Procs |-> 0]
    /\ via = "none" /\ clearedBy = "none"
    /\ RootRun!Init

Ended == {"exited", "denied", "killed"}

Next ==
    \/ \E p \in Procs : Main(p) \/ RunPrologue(p)
    \/ StatRun \/ StatReturns \/ AppSessionEnds \/ WaitApp
    \/ AppLaunch \/ Tick
    \/ \A p \in Procs : phase[p] \in Ended \cup {"idle"}
       /\ UNCHANGED vars

Spec == Init /\ [][Next]_vars

(***************************************************************************)
(* Properties.                                                             *)
(***************************************************************************)
\* The comments of AndroidSecurityCheck: on Android >= 11 a simpleperf
\* profiles (runs StatCommand past its prologue) only when root, or when
\* the user showed intent from the shell (perf_harden already "0", or set
\* to "0" by a simpleperf the shell ran, with or without --app), or, for
\* an app on Android >= 13, while the user's grant for its uid had not
\* expired at the check.  An app can never let itself in.
ProfilingNeedsConsent ==
    \A p \in Procs : phase[p] \in {"stat", "session"} =>
        \/ Uid(p) = "root" \/ version < 11
        \/ hardenAtBoot = "0" \/ clearedBy = "shell"
        \/ /\ version >= 13 /\ Uid(p) = "app" /\ grantUid = "app"
           /\ grantExpiry > checkedAt[p]

\* Comment 2) of AndroidSecurityCheck: a simpleperf run from the shell sets
\* perf_harden itself, so the one it starts in the app's context with
\* --app is never refused by its own check, on any Android version.
DelegatedCheckPasses ==
    via = "shell" => phase["app"] # "denied"
\* The properties of DevfreqCounters, for the Run of the shell process.
DevfreqTypeOK == RootRun!DevfreqTypeOK
GovernorsRestoredOnReturn == RootRun!GovernorsRestoredOnReturn
====
