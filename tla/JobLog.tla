------------------------------- MODULE JobLog -------------------------------
(***************************************************************************)
(* The log of one run: the attempts that write it (exec.rs pump_logs and   *)
(* the "dokan: ..." notes of the failure paths, db.rs append_log and       *)
(* append_logs_batch), the reader that pages through it by cursor (mcp.rs  *)
(* read_logs and wait_for, http.rs run_logs and run_stream) and the log    *)
(* retention.                                                              *)
(*                                                                         *)
(* A line is known by the attempt that wrote it and the number it was      *)
(* given.  One SQL statement is one step.  The control lines               *)
(* (::dokan:result::, ::dokan:progress::) are no log lines and take no     *)
(* number; a text without a final newline is a line of the last chunk.     *)
(***************************************************************************)
EXTENDS Integers, FiniteSets

CONSTANTS
    MAX_ATTEMPTS,   \* worker.rs: how often a run is tried
    MaxSeq,         \* bound: the highest number a line may get
    CHUNK,          \* bound: lines in one chunk of output
    LIMIT,          \* read_logs_after: lines in one page
    TAIL,           \* wait_for: lines of the tail
    Modes,          \* the reader's call: "read_logs", "run_stream" or "wait_for"
    MaxFaults       \* bound: faults of a behaviour, each of a kind of its own

Attempts == 1 .. MAX_ATTEMPTS
Kinds == {"lapse", "drop", "crash", "db", "cancel"}

ASSUME JobLogAssumption ==
    /\ MAX_ATTEMPTS \in Nat \ {0}
    /\ MaxSeq \in Nat
    /\ CHUNK \in Nat \ {0} /\ LIMIT \in Nat \ {0} /\ TAIL \in Nat
    /\ Modes \subseteq {"read_logs", "run_stream", "wait_for"} /\ Modes # {}
    /\ MaxFaults \in Nat

VARIABLES
    rows,           \* the run's rows of table logs: number -> <<attempt, kind of line>>
    status, attempt, finished_at,   \* the run's row
    pc,             \* per attempt: where its executor stands
    base, seq,      \* per attempt: the last number flushed, the last number given
    late,           \* per attempt: an abandoned INSERT the server may still carry out
    mode, reading,  \* the reader: its call, and where it stands in it
    seen,           \* the lines the reader received, <<number, line>>
    from, cursor,   \* the reader asked for the lines after from; next_cursor
    told, of,       \* the status the reader last saw, and the attempt it was of
    faults          \* the kinds of fault that happened

rowVars == <<status, attempt, finished_at>>
pumpVars == <<base, seq, late>>
readVars == <<mode, reading, seen, from, cursor, told, of>>
vars == <<rows, rowVars, pc, pumpVars, readVars, faults>>

Terminal == {"succeeded", "failed", "canceled"}
Line == Attempts \X {"line", "note"}
NoRows == [s \in {} |-> <<1, "line">>]

Fault(kind) == /\ kind \notin faults /\ Cardinality(faults) < MaxFaults
               /\ faults' = faults \cup {kind}
Free == UNCHANGED faults
MayFail(ok) == (ok /\ Free) \/ (~ok /\ Fault("db"))

Init ==
    /\ rows = NoRows
    /\ status = "pending" /\ attempt = 0 /\ finished_at = "null"
    /\ pc = [w \in Attempts |-> "idle"]
    /\ base = [w \in Attempts |-> 0] /\ seq = [w \in Attempts |-> 0]
    /\ late = [w \in Attempts |-> {}]
    /\ mode \in Modes /\ reading = "start"
    /\ seen = {} /\ from = 0 /\ cursor = 0
    /\ told = "none" /\ of = 0
    /\ faults = {}

-----------------------------------------------------------------------------
(* The table. *)

max_log_seq == IF DOMAIN rows = {} THEN 0
               ELSE CHOOSE m \in DOMAIN rows : \A s \in DOMAIN rows : s <= m

\* Mutant: ON CONFLICT DO UPDATE.
append_logs_batch_overwriting(numbers, line) ==
    rows' = [s \in DOMAIN rows \cup numbers |->
                IF s \in numbers THEN line ELSE rows[s]]

\* INSERT ... ON CONFLICT DO NOTHING: a number that is taken keeps its line.
append_logs_batch(numbers, line) ==
    rows' = [s \in DOMAIN rows \cup numbers |->
                IF s \in DOMAIN rows THEN rows[s] ELSE line]

\* The numbers after `after`, oldest first, at most limit of them.
read_logs_after(after, limit) ==
    {s \in DOMAIN rows :
        /\ s > after
        /\ Cardinality({t \in DOMAIN rows : after < t /\ t <= s}) <= limit}

-----------------------------------------------------------------------------
(* The executor of an attempt. *)

Goto(w, where) == pc' = [pc EXCEPT ![w] = where]

claim(w) ==
    /\ status = "pending" /\ w = attempt + 1 /\ pc[w] = "idle"
    /\ status' = "running" /\ attempt' = w
    /\ Goto(w, "pump") /\ Free
    /\ UNCHANGED <<rows, finished_at, pumpVars, readVars>>

\* pump_logs starts to count where the table ends, at 0 when the read fails.
pump_logs(w) ==
    /\ pc[w] = "pump"
    /\ \E ok \in BOOLEAN :
        LET s == IF ok THEN max_log_seq ELSE 0 IN
        /\ MayFail(ok)
        /\ base' = [base EXCEPT ![w] = s] /\ seq' = [seq EXCEPT ![w] = s]
    /\ Goto(w, "read")
    /\ UNCHANGED <<rows, rowVars, late, readVars>>

\* A chunk of output: its lines are numbered and go into the batch.
chunk(w) ==
    /\ pc[w] = "read"
    /\ \E n \in 1 .. CHUNK :
        /\ seq[w] + n <= MaxSeq
        /\ seq' = [seq EXCEPT ![w] = @ + n]
    /\ Goto(w, "flush") /\ Free
    /\ UNCHANGED <<rows, rowVars, base, late, readVars>>

Batch(w) == (base[w] + 1) .. seq[w]

flush(w) ==
    /\ pc[w] = "flush"
    /\ \/ /\ append_logs_batch(Batch(w), <<w, "line">>)
          /\ base' = [base EXCEPT ![w] = seq[w]]
          /\ Goto(w, "read") /\ Free
       \/ /\ Fault("db")
          /\ Goto(w, "note") /\ UNCHANGED <<rows, base>>
    /\ UNCHANGED <<rowVars, seq, late, readVars>>

\* The stream ends: with an exit code, or (container gone, Docker error) not.
end_of_stream(w) ==
    /\ pc[w] = "read"
    /\ \E where \in {"verdict", "note"} : Goto(w, where)
    /\ Free
    /\ UNCHANGED <<rows, rowVars, pumpVars, readVars>>

\* The timeout drops pump_logs wherever it waits; a statement it had sent is
\* not called back.
timeout(w) ==
    /\ pc[w] \in {"pump", "read", "flush"}
    /\ Goto(w, "note")
    /\ \/ Free /\ UNCHANGED late
       \/ /\ pc[w] = "flush" /\ Fault("drop")
          /\ late' = [late EXCEPT ![w] = Batch(w)]
    /\ UNCHANGED <<rows, rowVars, base, seq, readVars>>

land(w) ==
    /\ late[w] # {}
    /\ append_logs_batch(late[w], <<w, "line">>)
    /\ late' = [late EXCEPT ![w] = {}] /\ Free
    /\ UNCHANGED <<rowVars, pc, base, seq, readVars>>

\* Mutant: the note takes the highest number, not the next one.
note_seq_taken(w) ==
    /\ pc[w] = "note"
    /\ seq' = [seq EXCEPT ![w] = max_log_seq]
    /\ Goto(w, "append") /\ Free
    /\ UNCHANGED <<rows, rowVars, base, late, readVars>>

\* The failure paths add a last line: its number is read first ...
note_seq(w) ==
    /\ pc[w] = "note"
    /\ \E ok \in BOOLEAN :
        /\ MayFail(ok)
        /\ seq' = [seq EXCEPT ![w] = (IF ok THEN max_log_seq ELSE 0) + 1]
    /\ Goto(w, "append")
    /\ UNCHANGED <<rows, rowVars, base, late, readVars>>

\* ... then the line is written.  When that fails, exec_job returns the error
\* and run writes a note about it; run itself goes on to finish_run.
append_log(w) ==
    /\ pc[w] = "append"
    /\ \/ append_logs_batch({seq[w]}, <<w, "note">>) /\ Goto(w, "failed") /\ Free
       \/ /\ Fault("db") /\ UNCHANGED rows
          /\ \E where \in {"note", "failed"} : Goto(w, where)
    /\ UNCHANGED <<rowVars, pumpVars, readVars>>

finish_run(w) ==
    /\ pc[w] \in {"verdict", "failed"}
    /\ IF status = "canceled"
       THEN UNCHANGED <<status, finished_at>>
       ELSE /\ status' = IF pc[w] = "verdict" THEN "succeeded" ELSE "failed"
            /\ finished_at' = "recent"
    /\ Goto(w, IF pc[w] = "verdict" THEN "done" ELSE "outcome") /\ Free
    /\ UNCHANGED <<rows, attempt, pumpVars, readVars>>

\* worker.rs: a run that failed without an exit code goes back to the queue (a
\* timeout does not, nor a run whose outcome could not be read).
requeue(w) ==
    /\ pc[w] = "outcome"
    /\ Goto(w, "done") /\ Free
    /\ \/ status = "failed" /\ attempt + 1 \in Attempts /\ status' = "pending"
       \/ UNCHANGED status
    /\ UNCHANGED <<rows, attempt, finished_at, pumpVars, readVars>>

crash(w) ==
    /\ pc[w] \notin {"idle", "done", "dead"}
    /\ Fault("crash") /\ Goto(w, "dead")
    /\ UNCHANGED <<rows, rowVars, pumpVars, readVars>>

\* The lease of a run is stale: its executor is dead, or its beat failed.
reap_orphans ==
    /\ status = "running" /\ attempt + 1 \in Attempts
    /\ \/ pc[attempt] = "dead" /\ Free
       \/ pc[attempt] # "dead" /\ Fault("lapse")
    /\ status' = "pending"
    /\ UNCHANGED <<rows, attempt, finished_at, pc, pumpVars, readVars>>

cancel_run ==
    /\ status \in {"pending", "running"} /\ Fault("cancel")
    /\ status' = "canceled" /\ finished_at' = "recent"
    /\ UNCHANGED <<rows, attempt, pc, pumpVars, readVars>>

-----------------------------------------------------------------------------
(* Retention.  It is measured in days, an attempt and a wait for the queue *)
(* in minutes: finished_at only gets old once nobody works on the run.     *)

Quiet == \A w \in Attempts : pc[w] \in {"idle", "done", "dead"} /\ late[w] = {}

age ==
    /\ finished_at = "recent" /\ status \in Terminal /\ Quiet
    /\ finished_at' = "old" /\ Free
    /\ UNCHANGED <<rows, status, attempt, pc, pumpVars, readVars>>

gc_logs ==
    /\ finished_at = "old" /\ DOMAIN rows # {}
    /\ rows' = NoRows /\ Free
    /\ UNCHANGED <<rowVars, pc, pumpVars, readVars>>

-----------------------------------------------------------------------------
(* The reader. *)

Last(page, otherwise) ==
    IF page = {} THEN otherwise ELSE CHOOSE m \in page : \A s \in page : s <= m

Receive(page) == seen' = seen \cup {<<s, rows[s]>> : s \in page}

\* The status is read before the lines, by run_stream after them.
run_status ==
    /\ \/ reading = "start" /\ mode \in {"read_logs", "wait_for"}
       \/ reading = "status" /\ mode = "run_stream"
    /\ told' = status /\ of' = attempt /\ Free
    /\ CASE mode = "read_logs" -> reading' = "lines"
         \* at a terminal status, or at the deadline
         [] mode = "wait_for" ->
              reading' \in {"tail"} \cup (IF status \in Terminal THEN {} ELSE {"start"})
         [] mode = "run_stream" ->
              reading' = IF status \in Terminal THEN "stopped" ELSE "start"
    /\ UNCHANGED <<rows, rowVars, pc, pumpVars, mode, seen, from, cursor>>

read_page ==
    /\ \/ reading = "lines" /\ mode = "read_logs" /\ reading' = "max"
       \/ reading = "start" /\ mode = "run_stream" /\ reading' = "status"
    /\ LET page == read_logs_after(cursor, LIMIT) IN
        Receive(page) /\ cursor' = Last(page, cursor)
    /\ Free
    /\ UNCHANGED <<rows, rowVars, pc, pumpVars, mode, from, told, of>>

\* Mutant: one line that is left does not count.
read_rest_short ==
    /\ reading = "max"
    /\ reading' = IF told \in Terminal /\ max_log_seq <= cursor + 1
                  THEN "stopped" ELSE "start"
    /\ Free
    /\ UNCHANGED <<rows, rowVars, pc, pumpVars, mode, seen, from, cursor, told, of>>

\* "N more after cursor": the caller of read_logs comes back until the run is
\* over and nothing is left.
read_rest ==
    /\ reading = "max"
    /\ reading' = IF told \in Terminal /\ max_log_seq <= cursor
                  THEN "stopped" ELSE "start"
    /\ Free
    /\ UNCHANGED <<rows, rowVars, pc, pumpVars, mode, seen, from, cursor, told, of>>

\* wait_for: next_cursor is the highest number, read before the tail's lines.
tail_max ==
    /\ reading = "tail"
    /\ LET m == max_log_seq IN
        /\ cursor' = m
        /\ from' = IF m > TAIL THEN m - TAIL ELSE 0
    /\ reading' = "page" /\ Free
    /\ UNCHANGED <<rows, rowVars, pc, pumpVars, mode, seen, told, of>>

\* The caller pages on from there with read_logs.
tail_lines ==
    /\ reading = "page"
    /\ Receive(read_logs_after(from, TAIL))
    /\ reading' = "start" /\ mode' = "read_logs" /\ Free
    /\ UNCHANGED <<rows, rowVars, pc, pumpVars, from, cursor, told, of>>

-----------------------------------------------------------------------------
Attempt_step(w) ==
    \/ claim(w) \/ pump_logs(w) \/ chunk(w) \/ flush(w) \/ end_of_stream(w)
    \/ timeout(w) \/ land(w) \/ note_seq(w) \/ append_log(w)
    \/ finish_run(w) \/ requeue(w) \/ crash(w)

Reader_step == run_status \/ read_page \/ read_rest \/ tail_max \/ tail_lines

Next ==
    \/ \E w \in Attempts : Attempt_step(w)
    \/ reap_orphans \/ cancel_run \/ age \/ gc_logs
    \/ Reader_step

Spec == Init /\ [][Next]_vars

-----------------------------------------------------------------------------
LogOK == DOMAIN rows \subseteq Nat \ {0} /\ \A s \in DOMAIN rows : rows[s] \in Line

RunOK ==
    /\ status \in {"pending", "running"} \cup Terminal
    /\ attempt \in Attempts \cup {0} /\ finished_at \in {"null", "recent", "old"}

WritersOK ==
    /\ pc \in [Attempts -> {"idle", "pump", "read", "flush", "note", "append",
                            "verdict", "failed", "outcome", "done", "dead"}]
    /\ base \in [Attempts -> Nat] /\ seq \in [Attempts -> Nat]
    /\ late \in [Attempts -> SUBSET (1 .. MaxSeq)]

ReaderOK ==
    /\ mode \in Modes \cup {"read_logs"}
    /\ reading \in {"start", "lines", "max", "status", "tail", "page", "stopped"}
    /\ seen \subseteq Nat \X Line
    /\ from \in Nat /\ cursor \in Nat
    /\ told \in {"none", "pending", "running"} \cup Terminal
    /\ of \in Attempts \cup {0}

\* Types: the log is a table from numbers to lines, the executors and the
\* reader stand where exec.rs and mcp.rs can stand.
TypeOK == LogOK /\ RunOK /\ WritersOK /\ ReaderOK /\ faults \subseteq Kinds

\* A cursor never skips a line, and a line never changes once it was read: what
\* the table holds between the reader's start and its cursor the reader has,
\* although two attempts may write at once (a lapsed lease), an abandoned
\* INSERT may land late and a failed read makes pump_logs count from 0
\* (ON CONFLICT DO NOTHING in append_logs_batch; next_cursor in read_logs).
CursorSound ==
    reading # "page" =>
        \A s \in DOMAIN rows : from < s /\ s <= cursor => <<s, rows[s]>> \in seen

\* A caller of read_logs that stopped because the run had finished and nothing
\* was left has the whole log, unless the run was tried again since: pump_logs
\* and the failure notes write before finish_run, read_logs counts what is left
\* after it read the status.  (A cancel is terminal before the last lines are written;
\* a lapsed attempt and an abandoned INSERT write when they please.)
TailComplete ==
    (/\ mode = "read_logs" /\ reading = "stopped" /\ of = attempt
     /\ told \in {"succeeded", "failed"}
     /\ faults \cap {"lapse", "drop", "cancel"} = {})
    => \A s \in DOMAIN rows : s > from => <<s, rows[s]>> \in seen
=============================================================================
