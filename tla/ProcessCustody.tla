--------------------------- MODULE ProcessCustody ---------------------------
(***************************************************************************)
(* A command run under custody.  The invoker (toolchain-execution.mjs)     *)
(* starts a helper (subreaper.c), which forks the observer, which spawns   *)
(* the target in a group of its own.  The observer records how the target  *)
(* ended; the helper reaps every process of the command, adopts the        *)
(* orphans, and reports whether any is left.  The invoker believes the     *)
(* record, and deletes the command's private directory, only when record,  *)
(* report and the helper's own end agree.                                  *)
(*                                                                         *)
(* Any process may end at any moment, by itself, by a signal of another    *)
(* or for want of memory, the helper and the observer too, and none has    *)
(* to: so the signals of the observer and of the invoker need no state.    *)
(***************************************************************************)
EXTENDS Naturals, FiniteSets

CONSTANTS Timeout,           \* the helper's deadline
          TermAfter,         \* how long it leaves TERM before it sends KILL
          DrainFor,          \* how long it waits for the tree to be gone
          MaxClockFailures   \* how many failed readings of the clock it tolerates

\* What ToolingCustody assumes of the constants: KILL is sent before the helper gives up.
CustodyAssumption ==
  {Timeout, TermAfter, DrainFor, MaxClockFailures} \subseteq Nat /\ TermAfter <= DrainFor

Processes == {"observer", "target", "child"}
Statuses == {"0", "signal"}   \* an exit code, or the end by a signal
MaxTime == Timeout + DrainFor    \* bound: later is the same to all readers
NotBegun == MaxTime + 1

VARIABLES tree,       \* tree[p]: [state, parent, pid, group, end]
          got,        \* got[p]: the signals the helper sent p
          time,
          cancelled,  \* a signal came, or the invoker died
          observer,   \* [pc, and what it will record]
          record,     \* the observer's status file
          helper,     \* the helper's locals
          report,     \* what it printed
          late,       \* cancelled or past the deadline, when it read the pipe
          outcome,    \* what the invoker returns
          removed     \* the private directory is deleted

treeVars == <<tree, got>>
observerVars == <<observer, record>>
helperVars == <<helper, report, late>>
invokerVars == <<outcome, removed>>
custodyVars == <<treeVars, time, cancelled, observerVars, helperVars, invokerVars>>

NoStatus == "none"
NoReport == [custody |-> "none", error |-> "none", uncertain |-> FALSE, status |-> NoStatus]
NoRecord == [finished |-> FALSE, status |-> NoStatus, timedOut |-> FALSE,
             failed |-> FALSE, spawnFailed |-> FALSE]

Unborn(p) == [state |-> "unborn", parent |-> "none", pid |-> p, group |-> p, end |-> NoStatus]

Nothing == [p \in Processes |-> [TERM |-> 0, KILL |-> 0]]

FreshHelper(pc) ==
  [pc |-> pc, none |-> FALSE, reason |-> "none", uncertain |-> FALSE,
   began |-> NotBegun, failures |-> 0, list |-> {}, sent |-> {}]

\* main() up to the fork; the helper had no child.
Init ==
  /\ tree = [p \in Processes |->
               IF p = "observer" THEN [Unborn(p) EXCEPT !.state = "live", !.parent = "helper"] ELSE Unborn(p)]
  /\ got = Nothing
  /\ time = 0 /\ cancelled = FALSE
  /\ observer = [pc |-> "exec", will |-> NoRecord]
  /\ record = NoRecord
  /\ helper = FreshHelper("wait")
  /\ report = NoReport /\ late = FALSE
  /\ outcome = NoReport /\ removed = FALSE

----------------------------------------------------------------------------
(* Processes.                                                              *)

Live(p) == tree[p].state = "live"
Zombie(p) == tree[p].state = "zombie"
Gone(p) == tree[p].state \in {"unborn", "gone"}
Children(parent) == {p \in Processes : tree[p].parent = parent /\ ~ Gone(p)}

\* Orphans are adopted by the helper as long as it is there.
HelperOver == helper.pc \in {"exited", "killed"}
Adopter == IF HelperOver THEN "init" ELSE "helper"

Die(p, end) ==
  tree' = [q \in Processes |->
             IF q = p THEN [tree[q] EXCEPT !.state = "zombie", !.end = end]
             ELSE IF q \in Children(p) THEN [tree[q] EXCEPT !.parent = Adopter]
             ELSE tree[q]]

Fork(p, parent, groups) ==
  \E n \in {p} \cup {tree[q].pid : q \in {r \in Processes : tree[r].state = "gone"}}, g \in groups :
    tree' = [tree EXCEPT ![p] = [state |-> "live", parent |-> parent, pid |-> n, group |-> g, end |-> NoStatus]]

TargetForks ==
  /\ Live("target") /\ tree["child"].state = "unborn"
  /\ Fork("child", "target", {"target", "child"})
  /\ UNCHANGED <<got, time, cancelled, observerVars, helperVars, invokerVars>>

Ends ==
  /\ (\E end \in Statuses : Live("target") /\ Die("target", end)) \/ (Live("child") /\ Die("child", "0"))
  /\ UNCHANGED <<got, time, cancelled, observerVars, helperVars, invokerVars>>

\* A zombie whose parent is not in this module, or does not wait for it.
ReapedElsewhere ==
  /\ \E p \in Processes :
       Zombie(p) /\ tree[p].parent \notin {"helper", "observer"} /\ tree' = [tree EXCEPT ![p].state = "gone"]
  /\ UNCHANGED <<got, time, cancelled, observerVars, helperVars, invokerVars>>

\* Nobody reads the time or the signal after the report.
Tick ==
  /\ report = NoReport /\ ~ HelperOver
  /\ time < MaxTime /\ time' = time + 1
  /\ UNCHANGED <<treeVars, cancelled, observerVars, helperVars, invokerVars>>

Cancel ==
  /\ report = NoReport /\ ~ HelperOver
  /\ ~ cancelled /\ cancelled' = TRUE
  /\ UNCHANGED <<treeVars, time, observerVars, helperVars, invokerVars>>

----------------------------------------------------------------------------
(* The observer (supervisorMain).                                          *)

Observes(pc) == Live("observer") /\ observer.pc = pc
ObserverGoto(pc) == observer' = [observer EXCEPT !.pc = pc]
ObserverOnly == UNCHANGED <<got, time, cancelled, helperVars, invokerVars>>

ObserverRuns == Observes("exec") /\ ObserverGoto("spawn") /\ UNCHANGED <<tree, record>> /\ ObserverOnly

Spawn ==
  /\ Observes("spawn") /\ UNCHANGED record /\ ObserverOnly
  /\ \/ Fork("target", "observer", {"target"}) /\ ObserverGoto("wait")
     \/ observer' = [pc |-> "record", will |-> [NoRecord EXCEPT !.finished = TRUE, !.spawnFailed = TRUE]]
        /\ UNCHANGED tree

\* The end of the target; stop() may have been called before, on the
\* observer's own deadline or because the output is too long.
SeesEnd ==
  /\ Observes("wait") /\ Zombie("target") /\ UNCHANGED record /\ ObserverOnly
  /\ tree' = [tree EXCEPT !["target"].state = "gone"]
  /\ \E timedOut, failed \in BOOLEAN :
       /\ timedOut => time >= Timeout - 1
       /\ observer' = [pc |-> "quiesce",
            will |-> [finished |-> TRUE, status |-> tree["target"].end, timedOut |-> timedOut,
                      failed |-> failed, spawnFailed |-> FALSE]]

\* quiesceChild(): the group is signalled, and waited for.
Quiesce ==
  /\ Observes("quiesce") /\ UNCHANGED <<tree, record>> /\ ObserverOnly
  /\ observer' = [observer EXCEPT !.pc = "record", !.will.failed =
                    @ \/ \E p \in Processes : Live(p) /\ tree[p].group = "target"]

WriteFinished ==
  /\ Observes("record") /\ UNCHANGED tree /\ ObserverOnly
  /\ record' = observer.will /\ observer' = [pc |-> "exit", will |-> NoRecord]

\* recordedObserverExit(): the code the observer leaves with.
ObserverExit(r) ==
  CASE r.failed -> "125" [] r.timedOut -> "124" [] r.spawnFailed -> "126"
    [] r.status = "signal" -> "128" [] OTHER -> r.status

ObserverEnds ==
  /\ Live("observer") /\ UNCHANGED record /\ ObserverOnly
  /\ observer' = [pc |-> "over", will |-> NoRecord]
  /\ \/ observer.pc = "exit" /\ Die("observer", ObserverExit(record))
     \/ observer.pc = "exec" /\ Die("observer", "127")
     \/ observer.pc \notin {"exec", "exit"} /\ Die("observer", "125")
     \/ Die("observer", "signal")

----------------------------------------------------------------------------
(* The helper (main).  Reads that nothing could tell apart are one step.   *)

Helps(pc) == helper.pc = pc
HelperOnly == UNCHANGED <<time, cancelled, observerVars, invokerVars>>

Rooted == tree["observer"].state = "gone"

\* waitpid(), until nothing waits to be reaped.
Reap ==
  /\ Helps("wait") /\ UNCHANGED <<got, helperVars>> /\ HelperOnly
  /\ \E p \in Children("helper") : Zombie(p) /\ tree' = [tree EXCEPT ![p].state = "gone"]

WaitEnds ==
  /\ Helps("wait") /\ UNCHANGED <<treeVars, report, late>> /\ HelperOnly
  /\ \/ /\ \A p \in Children("helper") : ~ Zombie(p)
        /\ helper' = [helper EXCEPT !.pc = "look", !.none = Children("helper") = {}]
     \/ helper' = [helper EXCEPT !.pc = "look", !.none = FALSE, !.uncertain = TRUE]

\* A signal or the death of the invoker, then the deadline, are latched; a
\* clock that cannot be read leaves custody uncertain.
Latched(read) ==
  IF helper.reason # "none" THEN helper.reason
  ELSE IF cancelled THEN "ECANCELLED"
  ELSE IF read /\ time >= Timeout THEN "ETIMEDOUT" ELSE "none"

\* Slip: the helper settles when the observer, which ran the command, is reaped.
SettlesByRoot(read) == read /\ Rooted

\* The helper settles when the wait found no child; errno still says so only
\* if the clock, read in between, did not fail.
Settles(read) == read /\ helper.none /\ Rooted

LookAndSettle ==
  /\ Helps("look") /\ Settles(TRUE) /\ UNCHANGED <<treeVars, report, late>> /\ HelperOnly
  /\ helper' = [helper EXCEPT !.pc = "pipe", !.reason = Latched(TRUE)]

\* How the exec of the observer went.
ReadPipe ==
  /\ Helps("pipe") /\ UNCHANGED <<treeVars, report>> /\ HelperOnly
  /\ late' = (cancelled \/ time >= Timeout)
  /\ \E valid \in BOOLEAN : helper' = [helper EXCEPT !.pc = "settle", !.uncertain = @ \/ ~ valid]

Reports(custody, reason, uncertain) ==
  report' = [custody |-> custody, error |-> reason, uncertain |-> uncertain,
             status |-> IF Rooted THEN tree["observer"].end ELSE NoStatus]

\* The facts are latched again before the only path to completed custody.
Settle ==
  /\ Helps("settle") /\ UNCHANGED <<treeVars, late>> /\ HelperOnly
  /\ helper' = FreshHelper("reported")
  /\ \E read \in BOOLEAN :
       LET uncertain == helper.uncertain \/ ~ read
       IN Reports(IF uncertain THEN "uncertain" ELSE IF Latched(read) # "none" THEN "reaped" ELSE "completed",
                  Latched(read), uncertain)

\* With children left: they are signalled as soon as there is a reason, the
\* end of the observer being one.  With the clock unread the time is that of
\* the drain's start, or the deadline.
Reason(read) == IF Latched(read) = "none" /\ Rooted THEN "ELEAK" ELSE Latched(read)
Now(read) == IF read THEN time ELSE IF helper.began # NotBegun THEN helper.began ELSE Timeout
Failures(read) == IF read THEN helper.failures ELSE helper.failures + 1
Began(read) == IF helper.began = NotBegun THEN Now(read) ELSE helper.began

LookAndGiveUp ==
  /\ Helps("look") /\ Failures(FALSE) > MaxClockFailures
  /\ Reports("uncertain", Latched(FALSE), TRUE) /\ helper' = FreshHelper("reported")
  /\ UNCHANGED <<treeVars, late>> /\ HelperOnly

LookAndNap ==
  /\ Helps("look") /\ UNCHANGED <<treeVars, report, late>> /\ HelperOnly
  /\ \E read \in BOOLEAN :
       /\ ~ Settles(read) /\ Failures(read) <= MaxClockFailures /\ Reason(read) = "none"
       /\ helper' = [helper EXCEPT !.pc = "wait", !.uncertain = @ \/ ~ read, !.failures = Failures(read)]

(* signal_children(), in one step: only the helper reaps its children, so  *)
(* what it listed keeps its number until it has signalled it.  A tracked   *)
(* child is found by its number and by its pidfd, which stays bound to the *)
(* process it was opened for; "sent" holds the tracked children's flags.   *)

\* Slip: by its number alone.
TrackedByNumber(p) == {q \in {e[1] : e \in helper.sent} : tree[q].pid = tree[p].pid}

Tracked(p) == {q \in {e[1] : e \in helper.sent} : tree[q].pid = tree[p].pid /\ ~ Gone(q)}

Entry(p) == IF Tracked(p) = {} THEN p ELSE CHOOSE q \in Tracked(p) : TRUE

LookAndSignal ==
  /\ Helps("look") /\ UNCHANGED <<tree, late>> /\ HelperOnly
  /\ \E read \in BOOLEAN, reached \in SUBSET Children("helper") :
       LET signal == IF Now(read) >= Began(read) + TermAfter THEN "KILL" ELSE "TERM"
           new == {<<Entry(p), signal>> : p \in reached} \ helper.sent
           uncertain == helper.uncertain \/ ~ read \/ reached # Children("helper")
           over == Now(read) >= Began(read) + DrainFor
       IN /\ ~ Settles(read) /\ Failures(read) <= MaxClockFailures /\ Reason(read) # "none"
          /\ got' = [p \in Processes |->
                IF <<p, signal>> \in new /\ ~ Gone(p) THEN [got[p] EXCEPT ![signal] = @ + 1] ELSE got[p]]
          /\ IF over
             THEN /\ helper' = [FreshHelper("reported") EXCEPT !.list = reached]
                  /\ Reports("uncertain", Reason(read), uncertain)
             ELSE /\ UNCHANGED report
                  /\ helper' = [helper EXCEPT !.pc = "wait", !.reason = Reason(read), !.began = Began(read),
                       !.uncertain = uncertain, !.failures = Failures(read), !.sent = @ \cup new]

\* It leaves, or is killed, by the invoker's watchdog (superviseCommand) or
\* by anyone.  What it kept, and the count of its signals, is forgotten.
HelperEnds ==
  /\ ~ HelperOver /\ UNCHANGED <<report, late>> /\ HelperOnly
  /\ (Helps("reported") /\ helper' = FreshHelper("exited")) \/ helper' = FreshHelper("killed")
  /\ tree' = [p \in Processes |-> IF p \in Children("helper") THEN [tree[p] EXCEPT !.parent = "init"] ELSE tree[p]]
  /\ got' = Nothing

----------------------------------------------------------------------------
(* The invoker (supervisedSpawn, withInvocation).                          *)

\* The record and the report are read; the report may not be readable.
Settled(native) == native.custody \notin {"none", "uncertain"} /\ ~ native.uncertain

Quiescent(native) ==
  /\ record.finished /\ native.status = ObserverExit(record)
  /\ Settled(native) /\ helper.pc = "exited"

Judge ==
  /\ HelperOver /\ outcome = NoReport
  /\ \E native \in {report, NoReport}, overflowed \in BOOLEAN :
       outcome' = [custody |-> IF ~ Quiescent(native) THEN "uncertain"
                               ELSE IF native.custody = "reaped" \/ record.timedOut \/ overflowed THEN "reaped"
                               ELSE "completed",
                   error |-> native.error, uncertain |-> ~ Quiescent(native), status |-> record.status]
  /\ UNCHANGED <<treeVars, time, cancelled, observerVars, helperVars, removed>>

\* removeInvocation(): the private directory, when it holds what it should.
RemoveInvocation ==
  /\ outcome # NoReport /\ ~ outcome.uncertain /\ ~ removed /\ removed' = TRUE
  /\ UNCHANGED <<treeVars, time, cancelled, observerVars, helperVars, outcome>>

----------------------------------------------------------------------------
Next ==
  \/ TargetForks \/ Ends \/ ReapedElsewhere \/ Tick \/ Cancel
  \/ ObserverRuns \/ Spawn \/ SeesEnd \/ Quiesce \/ WriteFinished \/ ObserverEnds
  \/ Reap \/ WaitEnds \/ LookAndSettle \/ ReadPipe \/ Settle
  \/ LookAndGiveUp \/ LookAndNap \/ LookAndSignal \/ HelperEnds
  \/ Judge \/ RemoveInvocation

----------------------------------------------------------------------------
(* What is promised.                                                       *)

AllGone == \A p \in Processes : Gone(p)

\* A command whose custody the invoker calls anything but uncertain has left
\* no process, ended as the outcome says, and if the custody is "completed"
\* it was neither cancelled nor late when the tree was gone; its directory is
\* deleted only then.
CustodyIsTrue ==
  /\ outcome # NoReport /\ ~ outcome.uncertain =>
       AllGone /\ outcome.status = tree["target"].end /\ (outcome.custody = "completed" => ~ late)
  /\ removed => AllGone

\* The helper sends TERM once to a process, which would break off its own
\* cleanup, and KILL once; when it gives the tree up without another reason,
\* every child it then had was sent KILL.
SignalledOnce ==
  /\ \A p \in Processes : got[p]["TERM"] <= 1 /\ got[p]["KILL"] <= 1
  /\ report.custody = "uncertain" /\ ~ report.uncertain => \A p \in helper.list : got[p]["KILL"] = 1
=============================================================================
