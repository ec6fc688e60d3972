----------------------------- MODULE DeleteJobs -----------------------------
(***************************************************************************)
(* The deletions of a page of src/src/tui_app.rs: d starts one `rm -rf`    *)
(* for each marked entry, every frame asks each of these processes whether *)
(* it has ended, and the footer counts them.  The same code stands twice,  *)
(* in junk_content and in tree_content, each with states of its own.       *)
(*                                                                         *)
(* A set() asks kou-ui for another frame, a set() during a frame included: *)
(* the poll relies on it.                                                  *)
(***************************************************************************)
EXTENDS Integers, FiniteSets

CONSTANT MaxBatches  \* bound: how often the user deletes

ASSUME BatchAssumption == MaxBatches \in Nat

VARIABLES
  message,     \* what the footer says: a text and its two numbers
  jobs,        \* delete_children: entries with a DeleteJob
  total,       \* delete_total
  running,     \* entries of the last batch whose rm has not ended
  started,     \* entries of the last batch whose rm was started
  batches,     \* how many batches there were
  dirty        \* has a set() asked for a frame?

batchVars == <<total, running, started, batches>>
jobVars == <<jobs, batchVars>>

Say(text, k, n) == [text |-> text, k |-> k, n |-> n]

InitJobs ==
  /\ message = Say("none", 0, 0)
  /\ jobs = {}
  /\ total = 0
  /\ running = {}
  /\ started = {}
  /\ batches = 0
  /\ dirty = FALSE

\* Faults: a job that has not ended counts as ended; the jobs are set only when one
\* of them has ended.
Poll_AnyAnswer ==
  IF jobs = {}
  THEN dirty' = FALSE /\ UNCHANGED <<message, jobs>>
  ELSE /\ message' = Say("done", total, total)
       /\ jobs' = {}
       /\ dirty' = TRUE

Poll_SetsOnChange ==
  LET still == jobs \cap running IN
  IF jobs = {}
  THEN dirty' = FALSE /\ UNCHANGED <<message, jobs>>
  ELSE /\ message' = IF still = {} THEN Say("done", total, total)
                     ELSE Say("deleting", total - Cardinality(still), total)
       /\ jobs' = still
       /\ dirty' = (still # jobs)

\* A frame: every job is asked with try_wait; those that still run are set back.
Poll ==
  LET still == jobs \cap running
      ended == total - Cardinality(still)
  IN
  IF jobs = {}
  THEN dirty' = FALSE /\ UNCHANGED <<message, jobs>>
  ELSE /\ message' = IF still = {} THEN Say("done", ended, total)
                     ELSE Say("deleting", ended, total)
       /\ jobs' = still
       /\ dirty' = TRUE

\* Faults: the new jobs join those of the batch before; the total counts the rm
\* processes that could be started.
StartJobs_Appends(marked) ==
  /\ batches < MaxBatches
  /\ marked # {}
  /\ \E spawned \in SUBSET marked :
       /\ jobs' = jobs \cup spawned
       /\ running' = running \cup spawned
       /\ started' = started \cup spawned
  /\ total' = Cardinality(marked)
  /\ message' = Say("deleting", 0, total')
  /\ batches' = batches + 1

StartJobs_CountsSpawned(marked) ==
  /\ batches < MaxBatches
  /\ marked # {}
  /\ \E spawned \in SUBSET marked :
       /\ jobs' = spawned
       /\ running' = spawned
       /\ started' = spawned
       /\ total' = Cardinality(spawned)
  /\ message' = Say("deleting", 0, Cardinality(marked))
  /\ batches' = batches + 1

\* One rm -rf for each marked entry.  A spawn that fails leaves no job but is part of
\* the total.  The jobs of an earlier batch are forgotten.
StartJobs(marked) ==
  /\ batches < MaxBatches
  /\ marked # {}
  /\ \E spawned \in SUBSET marked :
       /\ jobs' = spawned
       /\ running' = spawned
       /\ started' = spawned
  /\ total' = Cardinality(marked)
  /\ message' = Say("deleting", 0, total')
  /\ batches' = batches + 1

\* Nothing is marked: only the footer changes.
StartNothing(marked) ==
  /\ marked = {}
  /\ message' = Say("nothing", 0, 0)
  /\ UNCHANGED jobVars

\* An rm -rf ends, whether or not it could remove everything.
RmEnds(i) ==
  /\ i \in running
  /\ running' = running \ {i}
  /\ UNCHANGED <<message, jobs, total, started, batches, dirty>>

-----------------------------------------------------------------------------
Text == {"none", "nothing", "deleting", "done"}

\* The part of the pages' TypeOK that is about deletions.
JobsTypeOK(entries) ==
  /\ message.text \in Text
  /\ message.k \in 0 .. Cardinality(entries) /\ message.n \in 0 .. Cardinality(entries)
  /\ jobs \subseteq entries /\ running \subseteq entries /\ started \subseteq entries
  /\ total \in 0 .. Cardinality(entries)
  /\ batches \in 0 .. MaxBatches
  /\ dirty \in BOOLEAN

\* `total - still_running.len()` (tui_app.rs 236 and 436) does not wrap, though the
\* total and the jobs are two states and a deletion may replace those of another.
JobsWithinTotal == Cardinality(jobs) <= total

\* The footer tells the truth about the last batch: "Done" when no rm of it runs,
\* "Deleting" while one has not been seen to end, unless none could be started.
MessageTellsState ==
  /\ message.text = "done" => running = {} /\ message.k = total
  /\ message.text = "deleting" => message.n = total /\ (jobs = {} => started = {})

\* A deletion is polled to its end without a key being pressed: each frame that finds
\* a job still running asks for the next one.
PollingGoesOn == (jobs # {}) ~> (jobs = {})
=============================================================================
