----------------------------- MODULE TraceIndex ------------------------------
(***************************************************************************)
(* The index the console keeps of the trace files the daemon writes        *)
(* (ebrota-console-bff/src/traces-scanner.ts; server.ts): a scan reads     *)
(* every file it finds, an await each, and then puts all it read into the  *)
(* index in one transaction. Scans are started by a debounced watcher, if  *)
(* there is one, by the operator and at the start, and nothing keeps two   *)
(* of them apart. What a file holds is abstracted to the discoveries in    *)
(* it, which only grow.                                                    *)
(***************************************************************************)
EXTENDS Naturals

CONSTANTS Files,          \* a session each
          Scans,          \* bound: scans in flight; one is the scan of the start
          MaxDiscoveries  \* bound: discoveries in a file

ASSUME TraceAssumption == MaxDiscoveries \in Nat \ {0}

VARIABLES
  traceFile, \* discoveries in each file; 0: there is none
  writing,   \* files truncated and not yet written (writeFileSync)
  watching,  \* there is a watcher: tracesDir was there when the console started
  event,     \* the watcher has yet to hear of a write
  debounce,  \* watchDebounce is not null
  scan,      \* [at, todo, batch]: files to read, what was read of the others
  index,     \* rows of the session of each file
  newest,    \* history: the latest content the index has held of each file
  unheard    \* history: files written, with no watcher, since a scan last began

traceVars == <<traceFile, writing, watching, event, debounce, scan, index,
               newest, unheard>>

NoScan == [at |-> "idle", todo |-> {}, batch |-> [f \in {} |-> 0]]
ScanOf(listed) == [at |-> "reading", todo |-> listed, batch |-> [f \in {} |-> 0]]

\* What the walk of a scan may find: every file there is, and any of those which
\* appear while it lists the directories.
Walks == {listed \in SUBSET Files : \A f \in Files : traceFile[f] # 0 => f \in listed}

\* The watcher, if tracesDir is there for it, is set before the first scan begins
\* (cli.ts:71, 83). It is not set later.
TraceInit ==
  /\ traceFile \in [Files -> {0, 1}]
  /\ writing = {} /\ event = FALSE /\ debounce = FALSE /\ unheard = {}
  /\ watching \in BOOLEAN /\ (~watching => \A f \in Files : traceFile[f] = 0)
  /\ \E first \in Scans, listed \in Walks :
       scan = [s \in Scans |-> IF s = first THEN ScanOf(listed) ELSE NoScan]
  /\ index = [f \in Files |-> 0]
  /\ newest = index

\* saveTrace of the daemon: truncate, then write.
BeginWrite(f) ==
  /\ f \notin writing /\ traceFile[f] < MaxDiscoveries
  /\ writing' = writing \cup {f}
  /\ event' = watching
  /\ UNCHANGED <<traceFile, watching, debounce, scan, index, newest, unheard>>

EndWrite(f) ==
  /\ f \in writing
  /\ writing' = writing \ {f}
  /\ traceFile' = [traceFile EXCEPT ![f] = @ + 1]
  /\ event' = watching
  /\ unheard' = IF watching THEN unheard ELSE unheard \cup {f}
  /\ UNCHANGED <<watching, debounce, scan, index, newest>>

\* A burst of events leaves one timer.
Watched ==
  /\ event
  /\ event' = FALSE /\ debounce' = TRUE
  /\ UNCHANGED <<traceFile, writing, watching, scan, index, newest, unheard>>

Begin(s) ==
  /\ scan[s].at = "idle"
  /\ \E listed \in Walks : scan' = [scan EXCEPT ![s] = ScanOf(listed)]
  /\ unheard' = {}

\* Faulty variant: no scan when another one is under way.
DebouncedUnlessScanning ==
  /\ debounce
  /\ debounce' = FALSE
  /\ IF \A s \in Scans : scan[s].at = "idle" THEN \E s \in Scans : Begin(s)
     ELSE UNCHANGED <<scan, unheard>>
  /\ UNCHANGED <<traceFile, writing, watching, event, index, newest>>

Debounced ==
  /\ debounce
  /\ debounce' = FALSE
  /\ \E s \in Scans : Begin(s)
  /\ UNCHANGED <<traceFile, writing, watching, event, index, newest>>

\* POST /rescan
Rescan ==
  /\ \E s \in Scans : Begin(s)
  /\ UNCHANGED <<traceFile, writing, watching, event, debounce, index, newest>>

\* A file that is not there cannot be read, and one half written does not parse:
\* neither gets into the batch, and its session keeps the rows it has.
ReadInto(batch, f) ==
  IF f \in writing \/ traceFile[f] = 0 THEN batch
  ELSE [g \in DOMAIN batch \cup {f} |-> IF g = f THEN traceFile[f] ELSE batch[g]]

ReadTrace(s) ==
  /\ \E f \in scan[s].todo :
       scan' = [scan EXCEPT ![s] = [at |-> "reading", todo |-> @.todo \ {f},
                                    batch |-> ReadInto(@.batch, f)]]
  /\ UNCHANGED <<traceFile, writing, watching, event, debounce, index, newest, unheard>>

Indexed(batch) == [f \in Files |-> IF f \in DOMAIN batch THEN batch[f] ELSE index[f]]

\* tx(batch)
Commit(s) ==
  /\ scan[s].at = "reading" /\ scan[s].todo = {}
  /\ index' = Indexed(scan[s].batch)
  /\ scan' = [scan EXCEPT ![s] = NoScan]
  /\ newest' = [f \in Files |-> IF index'[f] > newest[f] THEN index'[f] ELSE newest[f]]
  /\ UNCHANGED <<traceFile, writing, watching, event, debounce, unheard>>

TraceStep ==
  \/ Watched \/ Debounced \/ Rescan
  \/ \E f \in Files : BeginWrite(f) \/ EndWrite(f)
  \/ \E s \in Scans : ReadTrace(s) \/ Commit(s)

-----------------------------------------------------------------------------
(* Properties *)

TraceTypeOK ==
  /\ traceFile \in [Files -> 0..MaxDiscoveries] /\ index \in [Files -> 0..MaxDiscoveries]
  /\ writing \subseteq Files /\ newest \in [Files -> 0..MaxDiscoveries]
  /\ watching \in BOOLEAN /\ event \in BOOLEAN /\ debounce \in BOOLEAN
  /\ unheard \subseteq Files
  /\ \A s \in Scans : /\ scan[s].at \in {"idle", "reading"}
                      /\ scan[s].todo \subseteq Files
                      /\ DOMAIN scan[s].batch \subseteq Files

AtRest == ~event /\ ~debounce /\ writing = {} /\ \A s \in Scans : scan[s].at = "idle"

\* When no write, event, timer or scan is left, the index holds what the files
\* hold, with two exceptions. Of overlapping scans the older may commit last and put
\* an earlier content back: no one reads that file again until it changes or the
\* operator asks for a scan, but what it holds was in the index once. And where
\* tracesDir was not there when the console started no one watches it
\* (server.ts:1018): a file written since the last scan began waits for the operator.
RestsOnFiles ==
  AtRest => \A f \in Files :
              index[f] = traceFile[f] \/ index[f] < newest[f] \/ f \in unheard
=============================================================================
