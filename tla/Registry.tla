----------------------------- MODULE Registry -----------------------------
(***************************************************************************)
(* What a name means: the scans this process has filed and the records on  *)
(* disk, and what `get`, `stop`, `watch`, `export`, `resume` and `prune`   *)
(* make of the two (Scans, Found, Recorded and the end of `follow` in      *)
(* src/src/scans.rs, and their handlers in src/src/stdio.rs).              *)
(*                                                                         *)
(* A sitting is one run of a scan: the first under its name, or one that   *)
(* continues its record.  Each is a Scan of its own, with its own log,     *)
(* report and cause.  The process may die at any step, and with it all     *)
(* sittings and the map, and what is on disk stays.  How a sitting is let  *)
(* through is in Gate, and how a watch reads its log is in ScanLog: here   *)
(* both are one step.                                                      *)
(***************************************************************************)
EXTENDS Integers, Sequences, FiniteSets, Functions

CONSTANTS
    Names,      \* names a scan may be given
    Sittings,   \* runs, over all processes
    Hosts,      \* what there is to find
    Finished,   \* the event that says a sitting is over
    Nothing,    \* no sitting
    QuickEnds,  \* whether a sitting's task can be over before it is filed
    MaxDeaths   \* bound: how often the process dies

ASSUME RegistryAssumption ==
    /\ Finished \notin Hosts
    /\ Nothing \notin Sittings /\ Nothing \notin Names
    /\ QuickEnds \in BOOLEAN
    /\ MaxDeaths \in Nat

VARIABLES
    inner,      \* Scans.inner
    made,       \* names with a record on disk
    kept,       \* what each record holds
    holder,     \* the sitting that has a record's journal open
    name,       \* Scan.id
    stage,      \* how far each sitting is
    store,      \* Scan.hosts
    log,        \* Scan.log
    outcome,    \* what the sitting's task came to
    stopped,    \* ScanHandle.stopped
    said,       \* the cause Finished gave
    report,     \* whether Scan.report is there
    number,     \* for each name, the number a client would hand back
    knows,      \* what clients were told was found
    overs,      \* sittings a client was told are over
    short,      \* ghost: what a watch left out when it was ended
    deaths      \* how often the process died (for MaxDeaths)

disk     == <<made, kept, holder>>
sitting  == <<name, store, log, outcome, stopped, said, report>>
clients  == <<number, knows, overs, short>>
vars     == <<inner, disk, stage, sitting, clients, deaths>>

Stages == {"unused", "opening", "failed", "launched", "running", "stored", "said",
           "closed", "dead"}
Filed  == {"running", "stored", "said", "closed"}
Causes == {"completed", "aborted", "timed_out"}

TypeOK ==
    /\ inner \in [Names -> Sittings \cup {Nothing}]
    /\ made \in SUBSET Names
    /\ kept \in [Names -> SUBSET Hosts]
    /\ holder \in [Names -> Sittings \cup {Nothing}]
    /\ name \in [Sittings -> Names \cup {Nothing}]
    /\ stage \in [Sittings -> Stages]
    /\ store \in [Sittings -> SUBSET Hosts]
    /\ log \in [Sittings -> Seq(Hosts \cup {Finished})]
    /\ outcome \in [Sittings -> {"none", "ok", "err"}]
    /\ stopped \in [Sittings -> {"none", "aborted", "timed_out"}]
    /\ said \in [Sittings -> {"unsaid"} \cup Causes]
    /\ report \in [Sittings -> BOOLEAN]
    /\ number \in [Names -> Nat]
    /\ knows \in [Names -> SUBSET Hosts]
    /\ overs \in SUBSET Sittings
    /\ short \in SUBSET Hosts
    /\ deaths \in Nat

Init ==
    /\ inner = [n \in Names |-> Nothing]
    /\ made = {}
    /\ kept = [n \in Names |-> {}]
    /\ holder = [n \in Names |-> Nothing]
    /\ name = [s \in Sittings |-> Nothing]
    /\ stage = [s \in Sittings |-> "unused"]
    /\ store = [s \in Sittings |-> {}]
    /\ log = [s \in Sittings |-> <<>>]
    /\ outcome = [s \in Sittings |-> "none"]
    /\ stopped = [s \in Sittings |-> "none"]
    /\ said = [s \in Sittings |-> "unsaid"]
    /\ report = [s \in Sittings |-> FALSE]
    /\ number = [n \in Names |-> 0]
    /\ knows = [n \in Names |-> {}]
    /\ overs = {}
    /\ short = {}
    /\ deaths = 0

To(s, place) == stage' = [stage EXCEPT ![s] = place]

-----------------------------------------------------------------------------
(* Starting, resuming and filing.                                          *)

Fresh(n) == n \notin made /\ \A s \in Sittings : name[s] # n

\* A record is made under a new name, or none is and the name is minted.
Begin(s, n) ==
    /\ stage[s] = "unused" /\ Fresh(n)
    /\ name' = [name EXCEPT ![s] = n]
    /\ \/ made' = made \cup {n} /\ holder' = [holder EXCEPT ![n] = s]
       \/ UNCHANGED <<made, holder>>
    /\ To(s, "opening")
    /\ UNCHANGED <<inner, kept, store, log, outcome, stopped, said, report, clients, deaths>>

\* Mutation: a record is opened again whoever has it.
ReopenAnyway(s, n) ==
    /\ stage[s] = "unused" /\ n \in made
    /\ name' = [name EXCEPT ![s] = n]
    /\ holder' = [holder EXCEPT ![n] = s]
    /\ \E found \in SUBSET kept[n] : store' = [store EXCEPT ![s] = found]
    /\ To(s, "opening")
    /\ UNCHANGED <<inner, made, kept, log, outcome, stopped, said, report, clients, deaths>>

\* A record nobody has open is opened again.  What the engine puts in the
\* new sitting's store of what the record holds is its own affair.
Reopen(s, n) ==
    /\ stage[s] = "unused"
    /\ n \in made /\ holder[n] = Nothing
    /\ name' = [name EXCEPT ![s] = n]
    /\ holder' = [holder EXCEPT ![n] = s]
    /\ \E found \in SUBSET kept[n] : store' = [store EXCEPT ![s] = found]
    /\ To(s, "opening")
    /\ UNCHANGED <<inner, made, kept, log, outcome, stopped, said, report, clients, deaths>>

LetGo(s) == holder' = [n \in Names |-> IF holder[n] = s THEN Nothing ELSE holder[n]]

\* It is refused, or its task is dropped; its record stays.
GiveUp(s) ==
    /\ stage[s] = "opening"
    /\ LetGo(s)
    /\ To(s, "failed")
    /\ UNCHANGED <<inner, made, kept, sitting, clients, deaths>>

\* The engine has it, and is at it before the scan is handed over.
Launch(s) ==
    /\ stage[s] = "opening"
    /\ To(s, "launched")
    /\ UNCHANGED <<inner, disk, sitting, clients, deaths>>

\* Mutation: a name that is filed already keeps the scan it has.
FileOnce(s) ==
    /\ stage[s] = "launched"
    /\ inner' = IF inner[name[s]] = Nothing THEN [inner EXCEPT ![name[s]] = s] ELSE inner
    /\ To(s, "running")
    /\ UNCHANGED <<disk, sitting, clients, deaths>>

\* `file` puts it under its name, over the sitting before it, and sets its
\* follower going.
File(s) ==
    /\ stage[s] = "launched"
    /\ inner' = [inner EXCEPT ![name[s]] = s]
    /\ To(s, "running")
    /\ UNCHANGED <<disk, sitting, clients, deaths>>

-----------------------------------------------------------------------------
(* The engine, and the follower.                                           *)

Going(s) == stage[s] \in {"launched", "running"} /\ outcome[s] = "none"

\* What is found is in the store, and in the record if there is one.
Discover(s, h) ==
    /\ Going(s) /\ h \notin store[s]
    /\ store' = [store EXCEPT ![s] = @ \cup {h}]
    /\ kept' = IF holder[name[s]] = s THEN [kept EXCEPT ![name[s]] = @ \cup {h}] ELSE kept
    /\ UNCHANGED <<inner, made, holder, name, stage, log, outcome, stopped, said, report,
                   clients, deaths>>

\* A budget runs out.
TimeOut(s) ==
    /\ Going(s) /\ stopped[s] = "none"
    /\ stopped' = [stopped EXCEPT ![s] = "timed_out"]
    /\ UNCHANGED <<inner, disk, stage, name, store, log, outcome, said, report, clients, deaths>>

\* The task ends, in order or not, and its journal is closed with it.
EngineEnds(s) ==
    /\ Going(s) /\ (QuickEnds \/ stage[s] = "running")
    /\ \E o \in {"ok", "err"} : outcome' = [outcome EXCEPT ![s] = o]
    /\ LetGo(s)
    /\ UNCHANGED <<inner, made, kept, stage, name, store, log, stopped, said, report, clients, deaths>>

\* The follower says what was found, until the channel is drained.
Tell(s, h) ==
    /\ stage[s] = "running"
    /\ h \in store[s] \ Range(log[s])
    /\ log' = [log EXCEPT ![s] = Append(@, h)]
    /\ UNCHANGED <<inner, disk, stage, name, store, outcome, stopped, said, report, clients, deaths>>

Ended(s) == stage[s] = "running" /\ outcome[s] # "none"

\* A report there is if the task ended in order.
StoreReport(s) ==
    /\ Ended(s)
    /\ report' = [report EXCEPT ![s] = outcome[s] = "ok"]
    /\ To(s, "stored")
    /\ UNCHANGED <<inner, disk, name, store, log, outcome, stopped, said, clients, deaths>>

\* convert::stop_cause: it ran out of work if nothing stopped it.
StopCause(why) == IF why = "none" THEN "completed" ELSE why

FinalCause(s) == IF outcome[s] = "ok" THEN StopCause(stopped[s]) ELSE "aborted"

\* Mutation: Finished is said as soon as the task has ended, and the report
\* is kept afterwards.
SayFinishedFirst(s) ==
    /\ Ended(s)
    /\ said' = [said EXCEPT ![s] = FinalCause(s)]
    /\ log' = [log EXCEPT ![s] = Append(@, Finished)]
    /\ To(s, "said")
    /\ UNCHANGED <<inner, disk, name, store, outcome, stopped, report, clients, deaths>>

SayFinished(s) ==
    /\ stage[s] = "stored"
    /\ said' = [said EXCEPT ![s] = FinalCause(s)]
    /\ log' = [log EXCEPT ![s] = Append(@, Finished)]
    /\ To(s, "said")
    /\ UNCHANGED <<inner, disk, name, store, outcome, stopped, report, clients, deaths>>

Close(s) ==
    /\ stage[s] = "said"
    /\ To(s, "closed")
    /\ UNCHANGED <<inner, disk, sitting, clients, deaths>>

-----------------------------------------------------------------------------
(* What a client may ask of a name.                                        *)

\* Scans::get: the filed scan if there is one, or its record.
Live(n)     == inner[n] # Nothing
Recorded(n) == ~Live(n) /\ n \in made

\* ScanState.running, of either.
Running(n) == Live(n) /\ stage[inner[n]] # "closed"

Get(n) ==
    /\ Live(n) /\ ~Running(n)
    /\ overs' = overs \cup {inner[n]}
    /\ UNCHANGED <<inner, disk, stage, sitting, number, knows, short, deaths>>

\* Stopping reaches the filed scan, and one that is only a record not at all.
Stop(n) ==
    /\ Live(n) /\ Going(inner[n]) /\ stopped[inner[n]] = "none"
    /\ stopped' = [stopped EXCEPT ![inner[n]] = "aborted"]
    /\ UNCHANGED <<inner, disk, stage, name, store, log, outcome, said, report, clients, deaths>>

\* The state of a filed scan, as Scan::state words it.
StateCause(s) == StopCause(stopped[s])

Entries(s, from) == {log[s][i] : i \in from + 1..Len(log[s])}

\* What a client hears of a filed scan and what it holds then: the store, as
\* of the log's length, if it asks from nothing; or the tail after the number
\* it reached, whether it comes back or has been there all along.  The watch
\* is ended if the scan is over.
Told(n, s, whole) ==
    LET tail == IF whole THEN {} ELSE Entries(s, number[n])
    IN  /\ knows' = [knows EXCEPT ![n] = @ \cup IF whole THEN store[s] ELSE tail \ {Finished}]
        /\ number' = [number EXCEPT ![n] = IF whole \/ Len(log[s]) > @ THEN Len(log[s]) ELSE @]
        /\ overs' = IF Finished \in tail \/ ~Running(n) THEN overs \cup {s} ELSE overs

WatchLive(n) ==
    /\ Live(n)
    /\ \E whole \in BOOLEAN : Told(n, inner[n], whole)
    /\ short' = IF Running(n) THEN short
                 ELSE (Range(log[inner[n]]) \ {Finished}) \ knows'[n]
    /\ UNCHANGED <<inner, disk, stage, sitting, deaths>>

\* A watch of a record says each host and ends; from any number but nothing,
\* it ends.
WatchRecorded(n) ==
    /\ Recorded(n)
    /\ \E from \in {0, number[n]} :
          /\ knows' = [knows EXCEPT ![n] = @ \cup IF from = 0 THEN kept[n] ELSE {}]
          /\ number' = [number EXCEPT ![n] = IF from = 0 THEN Cardinality(kept[n]) ELSE from]
    /\ short' = kept[n] \ knows'[n]
    /\ UNCHANGED <<inner, disk, stage, sitting, overs, deaths>>

\* A record nobody has open is thrown away.
Prune(n) ==
    /\ n \in made /\ holder[n] = Nothing
    /\ made' = made \ {n}
    /\ kept' = [kept EXCEPT ![n] = {}]
    /\ UNCHANGED <<inner, holder, stage, sitting, clients, deaths>>

\* The process dies and another takes its place.
Die ==
    /\ deaths < MaxDeaths
    /\ deaths' = deaths + 1
    /\ stage' = [s \in Sittings |-> IF stage[s] = "unused" THEN "unused" ELSE "dead"]
    /\ inner' = [n \in Names |-> Nothing]
    /\ holder' = [n \in Names |-> Nothing]
    /\ UNCHANGED <<made, kept, sitting, clients>>

-----------------------------------------------------------------------------

Next ==
    \/ \E s \in Sittings :
          \/ \E n \in Names : Begin(s, n) \/ Reopen(s, n)
          \/ \E h \in Hosts : Discover(s, h) \/ Tell(s, h)
          \/ GiveUp(s) \/ Launch(s) \/ File(s) \/ TimeOut(s) \/ EngineEnds(s)
          \/ StoreReport(s) \/ SayFinished(s) \/ Close(s)
    \/ \E n \in Names : Get(n) \/ Stop(n) \/ WatchLive(n) \/ WatchRecorded(n) \/ Prune(n)
    \/ Die

Spec == Init /\ [][Next]_vars

-----------------------------------------------------------------------------
(* Properties.                                                             *)

\* A name a scan was filed under never falls back to the record, whatever
\* becomes of that and however often the name is run again; and where no task
\* is over before its scan is filed, a scan still going is the one its name
\* finds, so that it can be watched and stopped.  (Scans::file, and the map that
\* nothing is taken out of.)
NamesFindTheirScan ==
    \A s \in Sittings : stage[s] \in Filed =>
        /\ Live(name[s]) /\ name[inner[name[s]]] = name[s]
        /\ ~QuickEnds /\ Going(s) => inner[name[s]] = s

\* Whoever was told that a scan is over, by its Finished event, by the end of
\* a watch or by its state, can have its report written, if it ended in
\* order: `export`, `diff` and `merge` never call it still running.  (`follow`
\* keeping the report before it says Finished and closes the log.)
OverMeansReport == \A s \in overs : outcome[s] = "ok" => report[s]

\* The engine has the sitting or is about to.
Active(s) == stage[s] \in {"opening", "launched", "running"} /\ outcome[s] = "none"

\* What has become of a sitting, as RegistryPromise has it.
PhaseOf(s) ==
    IF stage[s] = "unused" THEN "idle"
    ELSE IF stage[s] = "dead" THEN "lost"
    ELSE IF Active(s) THEN "going"
    ELSE IF outcome[s] # "ok" THEN "broken"
    ELSE IF report[s] THEN "kept" ELSE "done"

Promise == INSTANCE RegistryPromise
           WITH phase <- [s \in Sittings |-> PhaseOf(s)], at <- name, under <- inner,
                record <- kept, told <- overs

\* However runs, prunes and restarts interleave, a name has one run at a time:
\* no second one is let at its record, nor is the record thrown away, while one
\* is going; what a name finds stays until the process dies; and a run ends once,
\* its report is there before anybody hears that it is over.  (The journal that
\* `resume` opens and `prune` asks about, Scans::file, and `follow`.)
KeepsPromise == Promise!Spec

\* Scans::get: "A scan still going is held here."
GoingIsHeld ==
    \A s \in Sittings : stage[s] \in Filed /\ Going(s) => inner[name[s]] = s

\* scan.proto, of Watch: "a client that reconnects resumes where it stopped
\* instead of starting blind".
ReconnectingIsNotBlind == short = {}

\* The test of a scan that ends: "and the state agrees".
StateAgrees == \A s \in Sittings : stage[s] = "closed" => StateCause(s) = said[s]

=============================================================================
