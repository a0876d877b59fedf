---------------------------- MODULE JobLogProofs ----------------------------
(***************************************************************************)
(* Theorems about JobLog, for every number of attempts, chunk, page and    *)
(* tail size and any faults.                                               *)
(***************************************************************************)
EXTENDS JobLog, FiniteSetTheorems, TLAPS

(* The strengthened invariant.                                             *)

\* A writer never leaves a gap: what it is about to insert begins at most one
\* after the last number m of the table.
WriterOK(w, m) ==
    /\ base[w] <= m
    /\ pc[w] = "append" => 1 <= seq[w] /\ seq[w] <= m + 1
    /\ \E k, n \in Nat : k <= m /\ late[w] = (k + 1) .. n

\* The table holds the numbers 1 to m, the cursor is one of them.
Grown(m) ==
    /\ DOMAIN rows = 1 .. m
    /\ cursor <= m
    /\ \A w \in Attempts : WriterOK(w, m)

\* So it is until retention empties the log, and then nobody writes any more.
Whole == (\E m \in Nat : Grown(m)) \/ (finished_at = "old" /\ DOMAIN rows = {})
Over == finished_at = "old" => status \in Terminal /\ Quiet

\* The tail that wait_for is about to read reaches up to its cursor.
TailOK == reading = "page" => from <= cursor /\ cursor <= from + TAIL

FlushOK == \A w \in Attempts : pc[w] = "flush" => seq[w] <= MaxSeq

LogInv == Whole /\ Over /\ TailOK /\ FlushOK /\ CursorSound

-----------------------------------------------------------------------------
(* The operators on a table without gaps.                                  *)

\* max_log_seq is the last number.
LEMMA MaxLogSeq ==
  ASSUME NEW m \in Nat, DOMAIN rows = 1 .. m
  PROVE  max_log_seq = m
<1>1. CASE m = 0
  BY <1>1 DEF max_log_seq
<1>2. CASE m > 0
  <2>1. m \in DOMAIN rows /\ \A s \in DOMAIN rows : s <= m
    BY <1>2
  <2> DEFINE x == CHOOSE y \in DOMAIN rows : \A s \in DOMAIN rows : s <= y
  <2>2. x \in DOMAIN rows /\ \A s \in DOMAIN rows : s <= x
    BY <2>1
  <2>3. x = m
    BY <2>1, <2>2
  <2>4. QED
    BY <2>1, <2>3 DEF max_log_seq
<1>3. QED
  BY <1>1, <1>2

\* A writer without an abandoned INSERT waits for an empty range.
LEMMA NoLate ==
  ASSUME NEW m \in Nat
  PROVE  \E k, n \in Nat : k <= m /\ {} = (k + 1) .. n
<1>1. 0 <= m /\ {} = (0 + 1) .. 0
  OBVIOUS
<1>2. QED
  <2> WITNESS 0 \in Nat, 0 \in Nat
  <2> QED
    BY <1>1

\* A page is the numbers after the cursor, up to its limit.
LEMMA PageIs ==
  ASSUME NEW m \in Nat, DOMAIN rows = 1 .. m, NEW after \in Nat, NEW limit \in Nat
  PROVE  read_logs_after(after, limit) = {s \in 1 .. m : after < s /\ s <= after + limit}
<1>1. ASSUME NEW s \in 1 .. m, after < s
      PROVE  Cardinality({t \in DOMAIN rows : after < t /\ t <= s}) = s - after
  <2>1. {t \in DOMAIN rows : after < t /\ t <= s} = (after + 1) .. s
    BY <1>1
  <2>2. Cardinality((after + 1) .. s) = s - after
    <3>1. s - (after + 1) + 1 = s - after /\ ~(after + 1 > s)
      BY <1>1
    <3>2. QED
      BY <1>1, <3>1, FS_Interval
  <2>3. QED
    BY <2>1, <2>2, Zenon
<1>2. QED
  BY <1>1 DEF read_logs_after

\* The new cursor: the last line of the page, or the old cursor.
LEMMA LastOfPage ==
  ASSUME NEW m \in Nat, DOMAIN rows = 1 .. m, NEW after \in Nat, NEW limit \in Nat,
         after <= m
  PROVE  Last(read_logs_after(after, limit), after)
            = IF after + limit < m THEN after + limit ELSE m
<1> DEFINE page == read_logs_after(after, limit)
           top == IF after + limit < m THEN after + limit ELSE m
<1>1. page = {s \in 1 .. m : after < s /\ s <= after + limit}
  BY PageIs
<1>2. CASE page = {}
  <2>1. top \notin page
    BY <1>2
  <2>2. top = after
    BY <1>1, <2>1
  <2>3. QED
    BY <1>2, <2>2 DEF Last
<1>3. CASE page # {}
  <2>1. PICK t : t \in page
    BY <1>3
  <2>2. top \in page /\ \A s \in page : s <= top
    BY <1>1, <2>1
  <2> DEFINE x == CHOOSE y \in page : \A s \in page : s <= y
  <2>3. x \in page /\ \A s \in page : s <= x
    BY <2>2
  <2>4. x = top
    BY <1>1, <2>2, <2>3
  <2>5. QED
    BY <1>3, <2>4 DEF Last
<1>4. QED
  BY <1>2, <1>3

\* A batch that begins at most one after the last number leaves no gap and
\* changes no line.
LEMMA AppendGrows ==
  ASSUME NEW m \in Nat, DOMAIN rows = 1 .. m, NEW k \in Nat, NEW n \in Nat, k <= m,
         NEW line, append_logs_batch((k + 1) .. n, line)
  PROVE  /\ DOMAIN rows' = 1 .. (IF n > m THEN n ELSE m)
         /\ \A s \in 1 .. m : rows'[s] = rows[s]
         /\ \A s \in DOMAIN rows' : rows'[s] \in {rows[s], line}
         /\ \A s \in DOMAIN rows' \ DOMAIN rows : rows'[s] = line
<1>1. DOMAIN rows \cup (k + 1) .. n = 1 .. (IF n > m THEN n ELSE m)
  OBVIOUS
<1>2. QED
  BY <1>1 DEF append_logs_batch

-----------------------------------------------------------------------------
(* Types.                                                                  *)

\* The faults of a behaviour are of the five kinds.
LEMMA FaultsStep == faults \subseteq Kinds /\ [Next]_vars => faults' \subseteq Kinds
<1> SUFFICES ASSUME faults \subseteq Kinds, [Next]_vars PROVE faults' \subseteq Kinds
  OBVIOUS
<1>1. ASSUME NEW kind \in Kinds, Fault(kind) PROVE faults' \subseteq Kinds
  BY <1>1 DEF Fault
<1>2. CASE UNCHANGED faults
  BY <1>2
<1>3. {"lapse", "drop", "crash", "db", "cancel"} = Kinds
  BY DEF Kinds
<1>4. ASSUME NEW ok \in BOOLEAN, MayFail(ok) PROVE faults' \subseteq Kinds
  BY <1>1, <1>2, <1>3, <1>4 DEF MayFail, Free
<1>5. ASSUME NEW w \in Attempts, Attempt_step(w) PROVE faults' \subseteq Kinds
  BY <1>1, <1>2, <1>3, <1>4, <1>5 DEF Attempt_step, claim, pump_logs, chunk, flush,
     end_of_stream, timeout, land, note_seq, append_log, finish_run, requeue, crash, Free
<1>6. CASE reap_orphans \/ cancel_run \/ age \/ gc_logs
  BY <1>1, <1>2, <1>3, <1>6 DEF reap_orphans, cancel_run, age, gc_logs, Free
<1>7. CASE Reader_step
  BY <1>2, <1>7 DEF Reader_step, run_status, read_page, read_rest, tail_max, tail_lines, Free
<1>8. QED
  BY <1>2, <1>5, <1>6, <1>7 DEF Next, vars

\* The numbers that are read exist because the table has no gaps.
LEMMA MaxIsNat == LogInv => max_log_seq \in Nat
<1>1. CASE DOMAIN rows = {}
  BY <1>1 DEF max_log_seq
<1>2. CASE \E m \in Nat : Grown(m)
  BY <1>2, MaxLogSeq DEF Grown
<1>3. QED
  BY <1>1, <1>2 DEF LogInv, Whole

\* Every action keeps the executors in their types.
LEMMA WritersStep == TypeOK /\ LogInv /\ [Next]_vars => WritersOK'
<1> SUFFICES ASSUME WritersOK, LogInv, [Next]_vars PROVE WritersOK'
  BY DEF TypeOK
<1> USE DEF WritersOK, Goto
<1>1. max_log_seq \in Nat
  BY MaxIsNat
<1>2. CASE UNCHANGED <<pc, base, seq, late>>
  BY <1>2
<1>3. ASSUME NEW w \in Attempts, \/ claim(w) \/ end_of_stream(w) \/ append_log(w)
                                 \/ finish_run(w) \/ requeue(w) \/ crash(w)
      PROVE  WritersOK'
  BY <1>3 DEF claim, end_of_stream, append_log, finish_run, requeue, crash, pumpVars
<1>4. ASSUME NEW w \in Attempts, pump_logs(w) \/ note_seq(w) PROVE WritersOK'
  <2>1. PICK n \in Nat : /\ seq' = [seq EXCEPT ![w] = n]
                         /\ base' = base \/ base' = [base EXCEPT ![w] = n]
    BY <1>1, <1>4 DEF pump_logs, note_seq
  <2>2. UNCHANGED late /\ \E p \in {"read", "append"} : pc' = [pc EXCEPT ![w] = p]
    BY <1>4 DEF pump_logs, note_seq
  <2>3. QED
    BY <2>1, <2>2
<1>5. ASSUME NEW w \in Attempts, chunk(w) PROVE WritersOK'
  <2>1. PICK n \in 1 .. CHUNK : seq' = [seq EXCEPT ![w] = @ + n]
    BY <1>5 DEF chunk
  <2>2. /\ pc' = [pc EXCEPT ![w] = "flush"] /\ UNCHANGED <<base, late>>
        /\ seq' \in [Attempts -> Nat]
    BY <1>5, <2>1, JobLogAssumption DEF chunk
  <2>3. QED
    BY <2>2
<1>6. ASSUME NEW w \in Attempts, flush(w) PROVE WritersOK'
  <2>1. /\ pc' \in {[pc EXCEPT ![w] = "read"], [pc EXCEPT ![w] = "note"]}
        /\ base' \in {base, [base EXCEPT ![w] = seq[w]]}
        /\ UNCHANGED <<seq, late>>
    BY <1>6 DEF flush
  <2>2. QED
    BY <2>1
<1>7. ASSUME NEW w \in Attempts, timeout(w) PROVE WritersOK'
  <2>1. pc[w] = "flush" => Batch(w) \subseteq 1 .. MaxSeq
    BY JobLogAssumption DEF Batch, LogInv, FlushOK
  <2>2. /\ pc' = [pc EXCEPT ![w] = "note"] /\ UNCHANGED <<base, seq>>
        /\ late' = late \/ (pc[w] = "flush" /\ late' = [late EXCEPT ![w] = Batch(w)])
    BY <1>7 DEF timeout
  <2>3. QED
    BY <2>1, <2>2
<1>8. ASSUME NEW w \in Attempts, land(w) PROVE WritersOK'
  BY <1>8 DEF land
<1>9. QED
  BY <1>2, <1>3, <1>4, <1>5, <1>6, <1>7, <1>8
  DEF Next, Attempt_step, Reader_step, reap_orphans, cancel_run, age, gc_logs,
      run_status, read_page, read_rest, tail_max, tail_lines, vars, pumpVars

\* Every action keeps the run's row in its types.
LEMMA RunStep == RunOK /\ [Next]_vars => RunOK'
<1> SUFFICES ASSUME RunOK, [Next]_vars PROVE RunOK'
  OBVIOUS
<1> USE DEF RunOK, Terminal
<1>1. CASE UNCHANGED rowVars
  BY <1>1 DEF rowVars
<1>2. ASSUME NEW w \in Attempts, claim(w) \/ finish_run(w) \/ requeue(w) PROVE RunOK'
  BY <1>2 DEF claim, finish_run, requeue
<1>3. CASE reap_orphans \/ cancel_run \/ age
  BY <1>3 DEF reap_orphans, cancel_run, age
<1>4. QED
  BY <1>1, <1>2, <1>3
  DEF Next, Attempt_step, Reader_step, pump_logs, chunk, flush, end_of_stream, timeout,
      land, note_seq, append_log, crash, gc_logs, run_status, read_page, read_rest,
      tail_max, tail_lines, vars, rowVars

\* Every action keeps the table in its types.
LEMMA LogStep == TypeOK /\ LogInv /\ [Next]_vars => LogOK'
<1> SUFFICES ASSUME LogOK, WritersOK, LogInv, [Next]_vars PROVE LogOK'
  BY DEF TypeOK
<1>1. CASE UNCHANGED rows
  BY <1>1 DEF LogOK
<1>2. ASSUME NEW w \in Attempts, NEW kind \in {"line", "note"}, NEW numbers,
             numbers \subseteq Nat \ {0}, append_logs_batch(numbers, <<w, kind>>)
      PROVE  LogOK'
  BY <1>2 DEF append_logs_batch, LogOK, Line
<1>3. ASSUME NEW w \in Attempts, flush(w) PROVE LogOK'
  <2>1. Batch(w) \subseteq Nat \ {0}
    BY DEF Batch, WritersOK
  <2>2. QED
    BY <1>1, <1>2, <1>3, <2>1 DEF flush
<1>4. ASSUME NEW w \in Attempts, land(w) PROVE LogOK'
  <2>1. late[w] \subseteq Nat \ {0}
    BY JobLogAssumption DEF WritersOK
  <2>2. QED
    BY <1>2, <1>4, <2>1 DEF land
<1>5. ASSUME NEW w \in Attempts, append_log(w) PROVE LogOK'
  <2>1. {seq[w]} \subseteq Nat \ {0}
    <3>1. CASE \E m \in Nat : Grown(m)
      BY <1>5, <3>1 DEF Grown, WriterOK, append_log, WritersOK
    <3>2. CASE finished_at = "old"
      BY <1>5, <3>2 DEF LogInv, Over, Quiet, append_log
    <3>3. QED
      BY <3>1, <3>2 DEF LogInv, Whole
  <2>2. QED
    BY <1>1, <1>2, <1>5, <2>1 DEF append_log
<1>6. CASE gc_logs
  BY <1>6 DEF gc_logs, NoRows, LogOK
<1>7. QED
  BY <1>1, <1>3, <1>4, <1>5, <1>6
  DEF Next, Attempt_step, Reader_step, claim, pump_logs, chunk, end_of_stream, timeout,
      note_seq, finish_run, requeue, crash, reap_orphans, cancel_run, age, run_status,
      read_page, read_rest, tail_max, tail_lines, vars

\* Every action keeps the reader in its types.
LEMMA ReaderStep == TypeOK /\ LogInv /\ [Next]_vars => ReaderOK'
<1> SUFFICES ASSUME LogOK, RunOK, ReaderOK, LogInv, [Next]_vars PROVE ReaderOK'
  BY DEF TypeOK
<1>1. CASE UNCHANGED readVars
  BY <1>1 DEF readVars, ReaderOK
<1>2. ASSUME NEW page, page \subseteq DOMAIN rows, Receive(page)
      PROVE  seen' \subseteq Nat \X Line
  BY <1>2 DEF Receive, LogOK, ReaderOK
<1>3. CASE run_status
  BY <1>3 DEF run_status, ReaderOK, RunOK, Terminal
<1>4. CASE read_page
  <2>1. read_logs_after(cursor, LIMIT) \subseteq DOMAIN rows
    BY DEF read_logs_after
  <2>2. /\ Receive(read_logs_after(cursor, LIMIT))
        /\ cursor' = Last(read_logs_after(cursor, LIMIT), cursor)
    BY <1>4 DEF read_page
  <2>3. seen' \subseteq Nat \X Line
    BY <1>2, <2>1, <2>2
  <2>4. cursor' \in Nat
    <3>1. CASE DOMAIN rows = {}
      BY <2>1, <2>2, <3>1 DEF Last, ReaderOK
    <3>2. CASE \E m \in Nat : Grown(m)
      <4>1. PICK m \in Nat : DOMAIN rows = 1 .. m /\ cursor <= m
        BY <3>2 DEF Grown
      <4>2. cursor \in Nat /\ LIMIT \in Nat
        BY JobLogAssumption DEF ReaderOK
      <4>3. cursor' = IF cursor + LIMIT < m THEN cursor + LIMIT ELSE m
        BY <2>2, <4>1, <4>2, LastOfPage
      <4>4. QED
        BY <4>2, <4>3
    <3>3. QED
      BY <3>1, <3>2 DEF LogInv, Whole
  <2>5. QED
    BY <1>4, <2>3, <2>4 DEF read_page, ReaderOK
<1>5. CASE read_rest
  BY <1>5 DEF read_rest, ReaderOK
<1>6. CASE tail_max
  <2>1. cursor' \in Nat /\ from' \in Nat
    BY <1>6, MaxIsNat, JobLogAssumption DEF tail_max
  <2>2. QED
    BY <1>6, <2>1 DEF tail_max, ReaderOK
<1>7. CASE tail_lines
  <2>1. read_logs_after(from, TAIL) \subseteq DOMAIN rows
    BY DEF read_logs_after
  <2>2. seen' \subseteq Nat \X Line
    BY <1>2, <1>7, <2>1 DEF tail_lines
  <2>3. QED
    BY <1>7, <2>2 DEF tail_lines, ReaderOK
<1>8. QED
  BY <1>1, <1>3, <1>4, <1>5, <1>6, <1>7
  DEF Next, Attempt_step, Reader_step, claim, pump_logs, chunk, flush, end_of_stream,
      timeout, land, note_seq, append_log, finish_run, requeue, crash, reap_orphans,
      cancel_run, age, gc_logs, vars

\* Every action keeps the types.
LEMMA TypeStep == TypeOK /\ LogInv /\ [Next]_vars => TypeOK'
BY FaultsStep, WritersStep, RunStep, LogStep, ReaderStep DEF TypeOK

-----------------------------------------------------------------------------
(* The log.                                                                *)

\* Once finished_at is old no executor does anything.
LEMMA Silent ==
  ASSUME TypeOK, LogInv, finished_at = "old", NEW w \in Attempts, Attempt_step(w)
  PROVE  FALSE
<1>1. /\ status \notin {"pending", "running"} /\ late[w] = {}
      /\ pc[w] \in {"idle", "done", "dead"}
  BY DEF LogInv, Over, Quiet, Terminal
<1>2. QED
  BY <1>1 DEF Attempt_step, claim, pump_logs, chunk, flush, end_of_stream, timeout, land,
     note_seq, append_log, finish_run, requeue, crash

\* Retention is only ever measured on a run nobody works on.
LEMMA OverStep == TypeOK /\ LogInv /\ [Next]_vars => Over'
<1> SUFFICES ASSUME TypeOK, LogInv, [Next]_vars PROVE Over'
  OBVIOUS
<1>1. ASSUME NEW w \in Attempts, Attempt_step(w) PROVE Over'
  <2>1. finished_at # "old"
    BY <1>1, Silent
  <2>2. finished_at' \in {finished_at, "recent"}
    BY <1>1 DEF Attempt_step, claim, pump_logs, chunk, flush, end_of_stream, timeout, land,
       note_seq, append_log, finish_run, requeue, crash, rowVars
  <2>3. QED
    BY <2>1, <2>2 DEF Over
<1>2. CASE reap_orphans \/ cancel_run
  BY <1>2 DEF reap_orphans, cancel_run, LogInv, Over, Terminal
<1>3. CASE age
  BY <1>3 DEF age, Over, Quiet, pumpVars
<1>4. CASE gc_logs \/ Reader_step \/ UNCHANGED vars
  <2>1. UNCHANGED <<finished_at, status, pc, late>>
    BY <1>4 DEF gc_logs, Reader_step, run_status, read_page, read_rest, tail_max,
       tail_lines, vars, rowVars, pumpVars
  <2>2. QED
    BY <2>1 DEF LogInv, Over, Quiet
<1>5. QED
  BY <1>1, <1>2, <1>3, <1>4 DEF Next

\* A flush never goes past the bound of the numbers.
LEMMA FlushStep == TypeOK /\ LogInv /\ [Next]_vars => FlushOK'
<1> SUFFICES ASSUME WritersOK, FlushOK, [Next]_vars PROVE FlushOK'
  BY DEF TypeOK, LogInv
<1> USE DEF FlushOK, WritersOK, Goto
<1>1. CASE UNCHANGED <<pc, seq>>
  BY <1>1
<1>2. ASSUME NEW w \in Attempts, chunk(w) PROVE FlushOK'
  <2>1. PICK n \in 1 .. CHUNK : /\ seq[w] + n <= MaxSeq
                                /\ seq' = [seq EXCEPT ![w] = @ + n]
    BY <1>2 DEF chunk
  <2>2. pc' = [pc EXCEPT ![w] = "flush"]
    BY <1>2 DEF chunk
  <2>3. QED
    BY <2>1, <2>2
<1>3. ASSUME NEW w \in Attempts, NEW p, p # "flush", pc' = [pc EXCEPT ![w] = p],
             \A v \in Attempts : v # w => seq'[v] = seq[v]
      PROVE  FlushOK'
  BY <1>3
<1>4. ASSUME NEW w \in Attempts, Attempt_step(w), ~chunk(w) PROVE FlushOK'
  <2>1. CASE land(w)
    BY <1>1, <2>1 DEF land
  <2>2. CASE ~land(w)
    <3>1. \E p \in {"pump", "read", "note", "append", "verdict", "failed", "outcome",
                    "done", "dead"} : pc' = [pc EXCEPT ![w] = p]
      BY <1>4, <2>2 DEF Attempt_step, claim, pump_logs, flush, end_of_stream, timeout,
         note_seq, append_log, finish_run, requeue, crash
    <3>2. \A v \in Attempts : v # w => seq'[v] = seq[v]
      BY <1>4, <2>2 DEF Attempt_step, claim, pump_logs, flush, end_of_stream, timeout,
         note_seq, append_log, finish_run, requeue, crash, pumpVars
    <3>3. QED
      BY <1>3, <3>1, <3>2
  <2>3. QED
    BY <2>1, <2>2
<1>5. QED
  BY <1>1, <1>2, <1>4
  DEF Next, Reader_step, reap_orphans, cancel_run, age, gc_logs,
      run_status, read_page, read_rest, tail_max, tail_lines, vars, pumpVars

\* The tail's bounds are set with the cursor and read before it moves.
LEMMA TailStep == TypeOK /\ LogInv /\ [Next]_vars => TailOK'
<1> SUFFICES ASSUME TypeOK, LogInv, [Next]_vars PROVE TailOK'
  OBVIOUS
<1>1. CASE UNCHANGED <<reading, from, cursor>>
  BY <1>1 DEF LogInv, TailOK
<1>2. CASE reading' # "page"
  BY <1>2 DEF TailOK
<1>3. CASE tail_max
  BY <1>3, MaxIsNat, JobLogAssumption DEF tail_max, TailOK
<1>4. CASE run_status \/ read_page \/ read_rest \/ tail_lines
  BY <1>2, <1>4 DEF run_status, read_page, read_rest, tail_lines, TypeOK, ReaderOK
<1>5. QED
  BY <1>1, <1>3, <1>4
  DEF Next, Attempt_step, Reader_step, claim, pump_logs, chunk, flush, end_of_stream,
      timeout, land, note_seq, append_log, finish_run, requeue, crash, reap_orphans,
      cancel_run, age, gc_logs, vars, readVars

\* A writer that does nothing while the table grows still leaves no gap.
LEMMA WriterKeeps ==
  ASSUME TypeOK, NEW m \in Nat, NEW n \in Nat, m <= n, NEW w \in Attempts, WriterOK(w, m),
         base'[w] = base[w], seq'[w] = seq[w], late'[w] = late[w],
         pc'[w] = pc[w] \/ pc'[w] # "append"
  PROVE  WriterOK(w, n)'
<1>1. base[w] \in Nat /\ seq[w] \in Nat
  BY DEF TypeOK, WritersOK
<1>2. PICK k, j \in Nat : k <= m /\ late[w] = (k + 1) .. j
  BY DEF WriterOK
<1>3. k <= n /\ late'[w] = (k + 1) .. j
  BY <1>2
<1>4. /\ base'[w] <= n
      /\ pc'[w] = "append" => 1 <= seq'[w] /\ seq'[w] <= n + 1
  BY <1>1 DEF WriterOK
<1>5. QED
  BY <1>2, <1>3, <1>4 DEF WriterOK

\* The table has no gaps and the cursor is within it, whoever writes.
LEMMA WholeStep == TypeOK /\ LogInv /\ [Next]_vars => Whole'
<1> SUFFICES ASSUME TypeOK, LogInv, [Next]_vars PROVE Whole'
  OBVIOUS
<1>1. base \in [Attempts -> Nat] /\ seq \in [Attempts -> Nat] /\ cursor \in Nat
      /\ late \in [Attempts -> SUBSET (1 .. MaxSeq)]
      /\ DOMAIN pc = Attempts
  BY DEF TypeOK, WritersOK, ReaderOK
\* An executor's step: the table may grow, from m to n, with a batch of w.
<1>2. ASSUME NEW w \in Attempts, Attempt_step(w) PROVE Whole'
  <2>1. finished_at # "old"
    BY <1>2, Silent
  <2>2. PICK m \in Nat : Grown(m)
    BY <2>1 DEF LogInv, Whole
  <2>3. max_log_seq = m
    BY <2>2, MaxLogSeq DEF Grown
  <2>4. /\ UNCHANGED cursor
        /\ \A v \in Attempts : v # w => /\ base'[v] = base[v] /\ seq'[v] = seq[v]
                                       /\ late'[v] = late[v] /\ pc'[v] = pc[v]
    BY <1>1, <1>2 DEF Attempt_step, claim, pump_logs, chunk, flush, end_of_stream, timeout,
       land, note_seq, append_log, finish_run, requeue, crash, Goto, pumpVars, readVars
  <2>5. ASSUME NEW n \in Nat, m <= n, DOMAIN rows' = 1 .. n, WriterOK(w, n)' PROVE Whole'
    <3>1. \A v \in Attempts : WriterOK(v, n)'
      <4> SUFFICES ASSUME NEW v \in Attempts PROVE WriterOK(v, n)'
        OBVIOUS
      <4>1. CASE v = w
        BY <2>5, <4>1
      <4>2. CASE v # w
        BY <2>2, <2>4, <2>5, <4>2, WriterKeeps DEF Grown
      <4>3. QED
        BY <4>1, <4>2
    <3>2. cursor' <= n
      BY <1>1, <2>2, <2>4, <2>5 DEF Grown
    <3>3. QED
      BY <2>5, <3>1, <3>2 DEF Whole, Grown
  <2>6. WriterOK(w, m)
    BY <2>2 DEF Grown
  <2>7. CASE claim(w) \/ end_of_stream(w) \/ finish_run(w) \/ requeue(w) \/ crash(w)
    <3>1. /\ UNCHANGED <<rows, base, seq, late>> /\ pc'[w] # "append"
      BY <1>1, <2>7 DEF claim, end_of_stream, finish_run, requeue, crash, Goto, pumpVars
    <3>2. QED
      BY <2>2, <2>5, <2>6, <3>1, WriterKeeps DEF Grown
  <2>8. CASE pump_logs(w)
    <3>1. base'[w] \in {0, m} /\ UNCHANGED <<rows, late>> /\ pc'[w] = "read"
      BY <1>1, <2>3, <2>8 DEF pump_logs, Goto
    <3>2. WriterOK(w, m)'
      BY <2>6, <3>1 DEF WriterOK
    <3>3. QED
      BY <2>2, <2>5, <3>1, <3>2 DEF Grown
  <2>9. CASE chunk(w)
    <3>1. UNCHANGED <<rows, late, base>> /\ pc'[w] = "flush"
      BY <1>1, <2>9 DEF chunk, Goto
    <3>2. WriterOK(w, m)'
      BY <2>6, <3>1 DEF WriterOK
    <3>3. QED
      BY <2>2, <2>5, <3>1, <3>2 DEF Grown
  <2>10. CASE flush(w)
    <3>1. CASE UNCHANGED <<rows, base>>
      <4>1. pc'[w] # "append" /\ UNCHANGED <<seq, late>>
        BY <1>1, <2>10 DEF flush, Goto
      <4>2. QED
        BY <2>2, <2>5, <2>6, <3>1, <4>1, WriterKeeps DEF Grown
    <3>2. CASE /\ append_logs_batch(Batch(w), <<w, "line">>)
               /\ base' = [base EXCEPT ![w] = seq[w]]
      <4>1. base[w] \in Nat /\ seq[w] \in Nat /\ base[w] <= m
        BY <1>1, <2>6 DEF WriterOK
      <4> PICK n \in Nat : n = IF seq[w] > m THEN seq[w] ELSE m
        BY <4>1
      <4>2. DOMAIN rows' = 1 .. n
        BY <2>2, <3>2, <4>1, AppendGrows DEF Batch, Grown
      <4>3. base'[w] = seq[w] /\ UNCHANGED late /\ pc'[w] # "append"
        BY <1>1, <2>10, <3>2 DEF flush, Goto
      <4>4. n \in Nat /\ m <= n /\ seq[w] <= n
        BY <4>1
      <4>5. PICK k, j \in Nat : k <= m /\ late[w] = (k + 1) .. j
        BY <2>6 DEF WriterOK
      <4>6. k <= n
        BY <4>4, <4>5
      <4>7. WriterOK(w, n)'
        BY <4>3, <4>4, <4>5, <4>6 DEF WriterOK
      <4>8. QED
        BY <2>5, <4>2, <4>4, <4>7
    <3>3. QED
      BY <2>10, <3>1, <3>2 DEF flush
  <2>11. CASE timeout(w)
    <3>1. UNCHANGED <<rows, base, seq>> /\ pc'[w] = "note"
      BY <1>1, <2>11 DEF timeout, Goto
    <3>2. late'[w] = late[w] \/ late'[w] = (base[w] + 1) .. seq[w]
      BY <1>1, <2>11 DEF timeout, Batch
    <3>3. WriterOK(w, m)'
      BY <1>1, <2>6, <3>1, <3>2 DEF WriterOK
    <3>4. QED
      BY <2>2, <2>5, <3>1, <3>3 DEF Grown
  <2>12. CASE land(w)
    <3>1. PICK k, j \in Nat : k <= m /\ late[w] = (k + 1) .. j
      BY <2>6 DEF WriterOK
    <3> PICK n \in Nat : n = IF j > m THEN j ELSE m
      OBVIOUS
    <3>2. DOMAIN rows' = 1 .. n
      BY <2>2, <2>12, <3>1, AppendGrows DEF land, Grown
    <3>3. UNCHANGED <<base, seq, pc>> /\ late'[w] = {}
      BY <1>1, <2>12 DEF land, TypeOK, WritersOK
    <3>4. n \in Nat /\ m <= n
      OBVIOUS
    <3>5. base[w] <= n /\ (seq[w] <= m + 1 => seq[w] <= n + 1)
      BY <1>1, <2>6, <3>4 DEF WriterOK
    <3>6. WriterOK(w, n)'
      BY <2>6, <3>3, <3>4, <3>5, NoLate DEF WriterOK
    <3>7. QED
      BY <2>5, <3>2, <3>4, <3>6
  <2>13. CASE note_seq(w)
    <3>1. seq'[w] \in {1, m + 1} /\ UNCHANGED <<rows, base, late>>
      BY <1>1, <2>3, <2>13 DEF note_seq
    <3>2. WriterOK(w, m)'
      BY <2>6, <3>1 DEF WriterOK
    <3>3. QED
      BY <2>2, <2>5, <3>1, <3>2 DEF Grown
  <2>14. CASE append_log(w)
    <3>1. UNCHANGED <<base, seq, late>> /\ pc'[w] # "append"
      BY <1>1, <2>14 DEF append_log, Goto, pumpVars
    <3>2. CASE UNCHANGED rows
      BY <2>2, <2>5, <2>6, <3>1, <3>2, WriterKeeps DEF Grown
    <3>3. CASE append_logs_batch({seq[w]}, <<w, "note">>)
      <4>1. seq[w] \in Nat /\ 1 <= seq[w] /\ seq[w] <= m + 1
        BY <1>1, <2>6, <2>14 DEF WriterOK, append_log
      <4> PICK n \in Nat : n = IF seq[w] > m THEN seq[w] ELSE m
        BY <4>1
      <4> PICK k \in Nat : k = seq[w] - 1
        BY <4>1
      <4>2. k \in Nat /\ k <= m /\ {seq[w]} = (k + 1) .. seq[w]
        BY <4>1
      <4>3. append_logs_batch((k + 1) .. seq[w], <<w, "note">>)
        BY <3>3, <4>2
      <4>4. DOMAIN rows' = 1 .. n
        BY <2>2, <4>1, <4>2, <4>3, AppendGrows DEF Grown
      <4>5. n \in Nat /\ m <= n
        BY <4>1
      <4>6. WriterOK(w, n)'
        BY <2>6, <3>1, <4>5, WriterKeeps
      <4>7. QED
        BY <2>5, <4>4, <4>5, <4>6
    <3>4. QED
      BY <2>14, <3>2, <3>3 DEF append_log
  <2>15. QED
    BY <1>2, <2>7, <2>8, <2>9, <2>10, <2>11, <2>12, <2>13, <2>14 DEF Attempt_step
\* Any other step leaves the writers alone.
<1>3. ASSUME UNCHANGED <<rows, pc, base, seq, late>>,
             finished_at' = finished_at \/ finished_at # "old",
             cursor' \in Nat,
             \A m \in Nat : DOMAIN rows = 1 .. m /\ cursor <= m => cursor' <= m
      PROVE  Whole'
  <2>1. ASSUME NEW m \in Nat, Grown(m) PROVE Grown(m)'
    BY <1>3, <2>1 DEF Grown, WriterOK
  <2>2. CASE finished_at = "old" /\ DOMAIN rows = {}
    BY <1>3, <2>2 DEF Whole
  <2>3. QED
    BY <2>1, <2>2 DEF LogInv, Whole
<1>4. CASE reap_orphans \/ cancel_run \/ age \/ UNCHANGED vars
  <2>1. UNCHANGED <<rows, pc, base, seq, late, cursor>>
    BY <1>4 DEF reap_orphans, cancel_run, age, vars, rowVars, pumpVars, readVars
  <2>2. finished_at' = finished_at \/ finished_at # "old"
    BY <1>4 DEF reap_orphans, cancel_run, age, vars, rowVars, LogInv, Over, Terminal
  <2>3. QED
    BY <1>1, <1>3, <2>1, <2>2
<1>5. CASE gc_logs
  BY <1>5 DEF gc_logs, NoRows, Whole, rowVars
<1>6. CASE run_status \/ read_rest \/ tail_lines
  BY <1>1, <1>3, <1>6 DEF run_status, read_rest, tail_lines, rowVars, pumpVars
<1>7. CASE read_page
  <2>1. /\ UNCHANGED <<rows, pc, base, seq, late, finished_at>>
        /\ cursor' = Last(read_logs_after(cursor, LIMIT), cursor)
    BY <1>7 DEF read_page, rowVars, pumpVars
  <2>2. ASSUME NEW m \in Nat, DOMAIN rows = 1 .. m, cursor <= m PROVE cursor' <= m
    BY <1>1, <2>1, <2>2, LastOfPage, JobLogAssumption
  <2>3. cursor' \in Nat
    BY ReaderStep DEF ReaderOK
  <2>4. QED
    BY <1>3, <2>1, <2>2, <2>3
<1>8. CASE tail_max
  <2>1. /\ UNCHANGED <<rows, pc, base, seq, late, finished_at>>
        /\ cursor' = max_log_seq
    BY <1>8 DEF tail_max, rowVars, pumpVars
  <2>2. ASSUME NEW m \in Nat, DOMAIN rows = 1 .. m, cursor <= m PROVE cursor' <= m
    BY <2>1, <2>2, MaxLogSeq
  <2>3. cursor' \in Nat
    BY <2>1, MaxIsNat
  <2>4. QED
    BY <1>3, <2>1, <2>2, <2>3
<1>9. QED
  BY <1>2, <1>4, <1>5, <1>6, <1>7, <1>8 DEF Next, Reader_step

\* What the reader skipped over it has, and no line it has ever changes.
LEMMA CursorStep == TypeOK /\ LogInv /\ [Next]_vars => CursorSound'
<1> SUFFICES ASSUME TypeOK, LogInv, [Next]_vars PROVE CursorSound'
  OBVIOUS
<1>1. from \in Nat /\ cursor \in Nat /\ LIMIT \in Nat /\ TAIL \in Nat
  BY JobLogAssumption DEF TypeOK, ReaderOK
<1>2. CursorSound /\ TailOK
  BY DEF LogInv
\* Nothing is deleted before retention, so a new line lies beyond the cursor.
<1>3. ASSUME NEW m \in Nat, Grown(m), NEW k \in Nat, NEW n \in Nat, k <= m,
             NEW line, append_logs_batch((k + 1) .. n, line), UNCHANGED readVars
      PROVE  CursorSound'
  <2>1. /\ DOMAIN rows = 1 .. m /\ cursor <= m
        /\ DOMAIN rows' = 1 .. (IF n > m THEN n ELSE m)
        /\ \A s \in 1 .. m : rows'[s] = rows[s]
    BY <1>3, AppendGrows DEF Grown
  <2>2. QED
    BY <1>1, <1>2, <1>3, <2>1 DEF CursorSound, readVars
<1>4. CASE UNCHANGED <<rows, readVars>>
  BY <1>2, <1>4 DEF CursorSound, readVars
<1>5. ASSUME NEW w \in Attempts, Attempt_step(w) PROVE CursorSound'
  <2>1. PICK m \in Nat : Grown(m)
    BY <1>5, Silent DEF LogInv, Whole
  <2>2. WriterOK(w, m) /\ UNCHANGED readVars
    BY <1>5, <2>1 DEF Grown, Attempt_step, claim, pump_logs, chunk, flush, end_of_stream,
       timeout, land, note_seq, append_log, finish_run, requeue, crash
  <2>3. base[w] \in Nat /\ seq[w] \in Nat
    BY DEF TypeOK, WritersOK
  <2>4. CASE flush(w)
    BY <1>3, <1>4, <2>1, <2>2, <2>3, <2>4 DEF flush, Batch, WriterOK
  <2>5. CASE land(w)
    BY <1>3, <2>1, <2>2, <2>5 DEF land, WriterOK
  <2>6. CASE append_log(w)
    <3>1. seq[w] - 1 \in Nat /\ seq[w] - 1 <= m /\ {seq[w]} = (seq[w] - 1 + 1) .. seq[w]
      BY <2>2, <2>3, <2>6 DEF append_log, WriterOK
    <3>2. CASE UNCHANGED rows
      BY <1>4, <2>2, <3>2
    <3>3. CASE append_logs_batch({seq[w]}, <<w, "note">>)
      BY <1>3, <2>1, <2>2, <2>3, <3>1, <3>3
    <3>4. QED
      BY <2>6, <3>2, <3>3 DEF append_log
  <2>7. CASE UNCHANGED rows
    BY <1>4, <2>2, <2>7
  <2>8. QED
    BY <1>5, <2>4, <2>5, <2>6, <2>7 DEF Attempt_step, claim, pump_logs, chunk,
       end_of_stream, timeout, note_seq, finish_run, requeue, crash
<1>6. CASE reap_orphans \/ cancel_run \/ age \/ UNCHANGED vars
  BY <1>4, <1>6 DEF reap_orphans, cancel_run, age, vars, readVars
<1>7. CASE gc_logs
  BY <1>7 DEF gc_logs, NoRows, CursorSound
<1>8. CASE run_status \/ read_rest
  <2>1. UNCHANGED <<rows, seen, from, cursor>> /\ reading # "page"
    BY <1>8 DEF run_status, read_rest
  <2>2. QED
    BY <1>2, <2>1 DEF CursorSound
<1>9. CASE DOMAIN rows = {} /\ UNCHANGED rows
  BY <1>9 DEF CursorSound
<1>10. ASSUME NEW m \in Nat, Grown(m), read_page PROVE CursorSound'
  <2>1. /\ UNCHANGED <<rows, from>> /\ reading # "page" /\ cursor <= m
        /\ DOMAIN rows = 1 .. m
        /\ seen' = seen \cup {<<s, rows[s]>> : s \in read_logs_after(cursor, LIMIT)}
        /\ cursor' = Last(read_logs_after(cursor, LIMIT), cursor)
    BY <1>10 DEF read_page, Grown, Receive
  <2>2. cursor' = IF cursor + LIMIT < m THEN cursor + LIMIT ELSE m
    BY <1>1, <2>1, LastOfPage
  <2>3. ASSUME NEW s \in 1 .. m, from < s, s <= cursor' PROVE <<s, rows[s]>> \in seen'
    <3>1. CASE s <= cursor
      BY <1>2, <2>1, <2>3, <3>1 DEF CursorSound
    <3>2. CASE s > cursor
      <4>1. s \in read_logs_after(cursor, LIMIT)
        BY <1>1, <2>1, <2>2, <2>3, <3>2, PageIs
      <4>2. QED
        BY <2>1, <4>1
    <3>3. QED
      BY <1>1, <3>1, <3>2
  <2>4. QED
    BY <2>1, <2>3 DEF CursorSound
<1>11. CASE tail_max
  BY <1>11 DEF tail_max, CursorSound
<1>12. ASSUME NEW m \in Nat, Grown(m), tail_lines PROVE CursorSound'
  <2>1. /\ UNCHANGED <<rows, from, cursor>> /\ DOMAIN rows = 1 .. m
        /\ from <= cursor /\ cursor <= from + TAIL
        /\ seen' = seen \cup {<<s, rows[s]>> : s \in read_logs_after(from, TAIL)}
    BY <1>2, <1>12 DEF tail_lines, Grown, Receive, TailOK
  <2>2. ASSUME NEW s \in 1 .. m, from < s, s <= cursor PROVE <<s, rows[s]>> \in seen'
    <3>1. read_logs_after(from, TAIL) = {t \in 1 .. m : from < t /\ t <= from + TAIL}
      BY <1>1, <2>1, PageIs
    <3>2. s <= from + TAIL
      BY <1>1, <2>1, <2>2
    <3>3. QED
      BY <2>1, <2>2, <3>1, <3>2
  <2>3. QED
    BY <2>1, <2>2 DEF CursorSound
<1>13. CASE read_page \/ tail_lines
  <2>1. UNCHANGED rows
    BY <1>13 DEF read_page, tail_lines
  <2>2. QED
    BY <1>9, <1>10, <1>12, <1>13, <2>1 DEF LogInv, Whole
<1>14. QED
  BY <1>5, <1>6, <1>7, <1>8, <1>11, <1>13 DEF Next, Reader_step

-----------------------------------------------------------------------------
\* The initial states.
LEMMA LogInit == Init => TypeOK /\ LogInv
<1> SUFFICES ASSUME Init PROVE TypeOK /\ LogInv
  OBVIOUS
<1>1. DOMAIN rows = 1 .. 0 /\ cursor = 0
  BY DEF Init, NoRows
<1>2. TypeOK
  BY JobLogAssumption, <1>1 DEF Init, TypeOK, LogOK, RunOK, WritersOK, ReaderOK
<1>3. \A w \in Attempts : WriterOK(w, 0)
  <2>1. ASSUME NEW w \in Attempts
        PROVE  base[w] <= 0 /\ pc[w] # "append" /\ late[w] = {}
    BY DEF Init
  <2>2. QED
    BY <2>1, NoLate DEF WriterOK
<1>4. Whole
  BY <1>1, <1>3 DEF Whole, Grown
<1>5. Over /\ TailOK /\ FlushOK /\ CursorSound
  BY <1>1 DEF Init, Over, TailOK, FlushOK, CursorSound
<1>6. QED
  BY <1>2, <1>4, <1>5 DEF LogInv

\* Types and the strengthened invariant hold together: the numbers a writer
\* computes are numbers because the table has no gaps.
THEOREM LogCorrect == Spec => [](TypeOK /\ LogInv)
<1>1. Init => TypeOK /\ LogInv
  BY LogInit
<1>2. TypeOK /\ LogInv /\ [Next]_vars => (TypeOK /\ LogInv)'
  BY TypeStep, WholeStep, OverStep, TailStep, FlushStep, CursorStep DEF LogInv
<1>3. QED
  BY <1>1, <1>2, PTL DEF Spec

\* Every reachable state of the log, its writers and its reader is well typed.
THEOREM LogTypeCorrect == Spec => []TypeOK
BY LogCorrect, PTL

\* A reader that follows next_cursor (read_logs, wait_for, run_stream) misses
\* no line and sees none change, whatever attempts overlap, INSERTs land late
\* and numberings restart.
THEOREM CursorSoundHolds == Spec => []CursorSound
<1>1. LogInv => CursorSound
  BY DEF LogInv
<1>2. QED
  BY <1>1, LogCorrect, PTL

-----------------------------------------------------------------------------
(* The end of the log.                                                     *)

\* No attempt works on beside another one, no abandoned INSERT lands, nobody cancels.
Calm == faults \cap {"lapse", "drop", "cancel"} = {}

\* Then only the attempt of the row writes, none while the run is queued or over ...
Idle(w) == pc[w] \in {"idle", "done", "dead"}
Written(w) == Idle(w) \/ pc[w] = "outcome"
Orderly ==
    /\ status # "canceled" /\ of <= attempt
    /\ \A w \in Attempts :
        /\ late[w] = {} /\ (~Idle(w) => w = attempt)
        /\ status = "pending" => Idle(w)
        /\ status \in {"succeeded", "failed"} => Written(w)

\* ... and so for what the reader was told, until the next attempt is claimed.
TrueStill == told \in {"succeeded", "failed"} /\ of = attempt
ToldOver == TrueStill => status # "running" /\ \A w \in Attempts : Written(w)
EndSeen ==
    TrueStill /\ mode = "read_logs" /\ reading = "stopped" =>
        \A s \in DOMAIN rows : s <= cursor
TailInv == Calm => Orderly /\ ToldOver /\ EndSeen

\* Faults are not forgotten.
LEMMA CalmBefore == [Next]_vars /\ Calm' => Calm
  BY DEF Next, Attempt_step, Reader_step, claim, pump_logs, chunk, flush, end_of_stream,
     timeout, land, note_seq, append_log, finish_run, requeue, crash, reap_orphans,
     cancel_run, age, gc_logs, run_status, read_page, read_rest, tail_max, tail_lines,
     Fault, Free, MayFail, vars, Calm

\* An attempt that still has something to write is the row's, the run is running, and the
\* reader was not told that it is over.
LEMMA WritingNow ==
  ASSUME TypeOK, Orderly, ToldOver, NEW w \in Attempts, ~Written(w)
  PROVE  w = attempt /\ status = "running" /\ ~TrueStill /\ \A v \in Attempts \ {w} : Idle(v)
<1>1. w = attempt /\ ~Idle(w) /\ status \notin {"canceled", "pending", "succeeded", "failed"}
  BY DEF Orderly, Written
<1>2. status = "running"
  BY <1>1 DEF TypeOK, RunOK, Terminal
<1>3. QED
  BY <1>1, <1>2 DEF ToldOver, Orderly

\* A step of an attempt.
LEMMA AttemptTail ==
  ASSUME TypeOK, Orderly, ToldOver, EndSeen, Calm, Calm', NEW w \in Attempts, Attempt_step(w)
  PROVE  Orderly' /\ ToldOver' /\ EndSeen'
<1>0. /\ attempt \in Attempts \cup {0} /\ of \in Attempts \cup {0} /\ DOMAIN pc = Attempts
      /\ Attempts \subseteq Nat \ {0} /\ of <= attempt
  BY JobLogAssumption DEF TypeOK, RunOK, WritersOK, ReaderOK, Attempts, Orderly
<1>1. ASSUME ~Written(w), UNCHANGED <<attempt, late, readVars>>,
             \A v \in Attempts : v # w => pc'[v] = pc[v],
             UNCHANGED status \/ (status' \in {"succeeded", "failed"} /\ pc'[w] \in {"done", "outcome"})
      PROVE  Orderly' /\ ToldOver' /\ EndSeen'
  <2>1. w = attempt /\ status = "running" /\ ~TrueStill /\ \A v \in Attempts \ {w} : Idle(v)
    BY <1>1, WritingNow
  <2>2. ~TrueStill'
    BY <1>1, <2>1 DEF TrueStill, readVars
  <2>3. \A v \in Attempts : /\ late'[v] = {} /\ (~Idle(v)' => v = attempt)
                            /\ status' \in {"succeeded", "failed"} => Written(v)'
    BY <1>1, <2>1 DEF Orderly, Idle, Written
  <2>4. Orderly'
    BY <1>0, <1>1, <2>1, <2>3 DEF Orderly, readVars
  <2>5. QED
    BY <2>2, <2>4 DEF ToldOver, EndSeen
<1>2. CASE pump_logs(w) \/ chunk(w) \/ flush(w) \/ end_of_stream(w) \/ timeout(w)
           \/ note_seq(w) \/ append_log(w)
  <2>1. ~Written(w) /\ UNCHANGED <<attempt, readVars, status>>
    BY <1>2 DEF Written, Idle, pump_logs, chunk, flush, end_of_stream, timeout, note_seq,
       append_log, rowVars
  <2>2. \A v \in Attempts : v # w => pc'[v] = pc[v]
    <3>1. \E x : pc' = [pc EXCEPT ![w] = x]
      BY <1>2 DEF pump_logs, chunk, flush, end_of_stream, timeout, note_seq, append_log, Goto
    <3>2. QED
      BY <1>0, <3>1
  <2>3. UNCHANGED late
    BY <1>2 DEF pump_logs, chunk, flush, end_of_stream, timeout, note_seq, append_log,
       pumpVars, Fault, Calm
  <2>4. QED
    BY <1>1, <2>1, <2>2, <2>3
<1>3. CASE finish_run(w)
  <2>1. /\ ~Written(w) /\ UNCHANGED <<attempt, late, readVars>>
        /\ \A v \in Attempts : v # w => pc'[v] = pc[v]
    BY <1>3 DEF finish_run, Written, Idle, Goto, pumpVars
  <2>2. pc'[w] \in {"done", "outcome"} /\ status # "canceled"
    BY <1>0, <1>3 DEF finish_run, Goto, Orderly
  <2>3. status' \in {"succeeded", "failed"}
    BY <1>3, <2>2 DEF finish_run
  <2>4. QED
    BY <1>1, <2>1, <2>2, <2>3
<1>4. CASE claim(w)
  <2>1. /\ status = "pending" /\ w = attempt + 1 /\ status' = "running" /\ attempt' = w
        /\ pc' = [pc EXCEPT ![w] = "pump"] /\ UNCHANGED <<late, readVars>>
    BY <1>4 DEF claim, Goto, pumpVars
  <2>2. ~TrueStill' /\ of' <= attempt'
    BY <1>0, <2>1 DEF TrueStill, readVars
  <2>3. Orderly'
    BY <1>0, <2>1, <2>2 DEF Orderly, Idle
  <2>4. QED
    BY <2>2, <2>3 DEF ToldOver, EndSeen
<1>5. CASE requeue(w) \/ crash(w)
  <2>1. /\ UNCHANGED <<rows, attempt, late, readVars>>
        /\ \E x \in {"done", "dead"} : pc' = [pc EXCEPT ![w] = x]
        /\ status' = status \/ (status' = "pending" /\ pc[w] = "outcome")
    BY <1>5 DEF requeue, crash, Goto, rowVars, pumpVars
  <2>2. Idle(w)' /\ \A v \in Attempts : v # w => pc'[v] = pc[v]
    BY <1>0, <2>1 DEF Idle
  <2>3. pc[w] = "outcome" => w = attempt
    BY DEF Orderly, Idle
  <2>4. status' = "pending" => \A v \in Attempts : Idle(v)'
    BY <2>1, <2>2, <2>3 DEF Orderly, Idle
  <2>5. Orderly'
    BY <2>1, <2>2, <2>4 DEF Orderly, Idle, Written, readVars
  <2>6. TrueStill' <=> TrueStill
    BY <2>1 DEF TrueStill, readVars
  <2>7. ToldOver'
    BY <2>1, <2>2, <2>6 DEF ToldOver, Written, Idle
  <2>8. EndSeen'
    BY <2>1, <2>6 DEF EndSeen, readVars
  <2>9. QED
    BY <2>5, <2>7, <2>8
<1>6. CASE land(w)
  BY <1>6 DEF land, Orderly
<1>7. QED
  BY <1>2, <1>3, <1>4, <1>5, <1>6 DEF Attempt_step

\* What the reader stopped at is the end of the log.
LEMMA EndOfLog ==
  ASSUME TypeOK, LogInv, max_log_seq <= cursor, NEW s \in DOMAIN rows
  PROVE  s <= cursor
<1>1. PICK m \in Nat : Grown(m)
  BY DEF LogInv, Whole
<1>2. DOMAIN rows = 1 .. m /\ max_log_seq = m
  BY <1>1, MaxLogSeq DEF Grown
<1>3. s <= m /\ s \in Nat /\ cursor \in Nat
  BY <1>2 DEF TypeOK, ReaderOK
<1>4. QED
  BY <1>2, <1>3

\* A step of the sweeps, of the operator or of the reader.
LEMMA OtherTail ==
  ASSUME TypeOK, LogInv, Orderly, ToldOver, EndSeen, Calm, Calm',
         reap_orphans \/ cancel_run \/ age \/ gc_logs \/ Reader_step \/ UNCHANGED vars
  PROVE  Orderly' /\ ToldOver' /\ EndSeen'
<1>0. attempt \in Attempts \cup {0} /\ attempt \in Nat
  BY JobLogAssumption DEF TypeOK, RunOK, Attempts
<1>1. CASE reap_orphans
  <2>1. /\ status = "running" /\ status' = "pending" /\ pc[attempt] = "dead"
        /\ UNCHANGED <<attempt, pc, late, readVars, rows>>
    BY <1>1 DEF reap_orphans, Fault, Calm, pumpVars
  <2>2. Orderly'
    BY <2>1 DEF Orderly, Idle, readVars
  <2>3. ~TrueStill'
    BY <2>1 DEF ToldOver, TrueStill, readVars
  <2>4. QED
    BY <2>2, <2>3 DEF ToldOver, EndSeen
<1>2. CASE cancel_run
  BY <1>2 DEF cancel_run, Fault, Calm
<1>3. ASSUME UNCHANGED <<status, attempt, pc, late>>, UNCHANGED <<told, of>>
      PROVE  Orderly' /\ ToldOver' /\ (TrueStill' <=> TrueStill)
  BY <1>3 DEF Orderly, ToldOver, TrueStill, Idle, Written
<1>4. CASE age \/ gc_logs \/ UNCHANGED vars
  <2>1. UNCHANGED <<status, attempt, pc, late, readVars>>
    BY <1>4 DEF age, gc_logs, vars, rowVars, pumpVars
  <2>2. DOMAIN rows' \subseteq DOMAIN rows
    BY <1>4 DEF age, gc_logs, vars, NoRows
  <2>3. EndSeen'
    BY <1>3, <2>1, <2>2 DEF EndSeen, readVars
  <2>4. QED
    BY <1>3, <2>1, <2>3 DEF readVars
<1>5. CASE run_status
  <2>1. /\ UNCHANGED <<status, attempt, pc, late, mode>> /\ told' = status /\ of' = attempt
        /\ mode = "read_logs" => reading' = "lines"
    BY <1>5 DEF run_status, rowVars, pumpVars
  <2>2. Orderly'
    BY <1>0, <2>1 DEF Orderly, Idle, Written
  <2>3. ToldOver'
    BY <2>1 DEF Orderly, ToldOver, TrueStill, Idle, Written
  <2>4. QED
    BY <2>1, <2>2, <2>3 DEF EndSeen
<1>6. CASE read_page \/ tail_max \/ tail_lines
  <2>1. UNCHANGED <<status, attempt, pc, late, told, of>> /\ reading' # "stopped"
    BY <1>6 DEF read_page, tail_max, tail_lines, rowVars, pumpVars
  <2>2. QED
    BY <1>3, <2>1 DEF EndSeen
<1>7. CASE read_rest
  <2>1. /\ UNCHANGED <<status, attempt, pc, late, told, of, rows, cursor>>
        /\ reading' = "stopped" => max_log_seq <= cursor
    BY <1>7 DEF read_rest, rowVars, pumpVars
  <2>2. EndSeen'
    BY <2>1, EndOfLog DEF EndSeen
  <2>3. QED
    BY <1>3, <2>1, <2>2
<1>8. QED
  BY <1>1, <1>2, <1>4, <1>5, <1>6, <1>7 DEF Reader_step

\* pump_logs and the notes write before finish_run, and read_logs counts what is left after
\* it read the status: a caller that stopped at the end of a finished run has its whole log.
THEOREM TailCompleteHolds == Spec => []TailComplete
<1>1. Init => TailInv
  <2> SUFFICES ASSUME Init PROVE TailInv
    OBVIOUS
  <2>1. \A w \in Attempts : pc[w] = "idle" /\ late[w] = {}
    BY DEF Init
  <2>2. status = "pending" /\ of = 0 /\ attempt = 0 /\ told = "none"
    BY DEF Init
  <2>3. QED
    BY <2>1, <2>2 DEF TailInv, Orderly, ToldOver, EndSeen, TrueStill, Idle
<1>2. TypeOK /\ LogInv /\ TailInv /\ [Next]_vars => TailInv'
  <2> SUFFICES ASSUME TypeOK, LogInv, TailInv, [Next]_vars, Calm'
               PROVE  Orderly' /\ ToldOver' /\ EndSeen'
    BY DEF TailInv
  <2>1. Calm /\ Orderly /\ ToldOver /\ EndSeen
    BY CalmBefore DEF TailInv
  <2>2. QED
    BY <2>1, AttemptTail, OtherTail DEF Next
<1>3. LogInv /\ TailInv => TailComplete
  <2> SUFFICES ASSUME LogInv, TailInv, mode = "read_logs", reading = "stopped", of = attempt,
                      told \in {"succeeded", "failed"}, Calm,
                      NEW s \in DOMAIN rows, s > from
               PROVE  <<s, rows[s]>> \in seen
    BY DEF TailComplete, Calm
  <2>1. s <= cursor
    BY DEF TailInv, EndSeen, TrueStill
  <2>2. QED
    BY <2>1 DEF LogInv, CursorSound
<1>4. QED
  BY <1>1, <1>2, <1>3, LogCorrect, PTL DEF Spec
=============================================================================
