------------------------------- MODULE Export -------------------------------
(***************************************************************************)
(* fatcat-export: the main thread reads a table of idents, worker threads  *)
(* fetch the entities, a printer thread writes them, and bounded channels  *)
(* lie between.  do_export sends row by row, do_export_batch the rows of a *)
(* group together; a row is the number of its line.                        *)
(*                                                                         *)
(* A send waits for room and cannot fail, whether or not anybody is left   *)
(* to receive; a receive ends when the channel is empty and its senders    *)
(* are dropped.  When main returns, the process ends, and the threads.     *)
(***************************************************************************)
EXTENDS Naturals, Sequences, FiniteSets, SequencesExt

CONSTANTS
    Group, NoGroup,    \* the fourth column of a line, or its absence
    NoArg,             \* no -j on the command line
    WorkersArg, Cpus,  \* -j, and num_cpus::get()
    BufferLen,         \* CHANNEL_BUFFER_LEN
    Jobs               \* what is asked: records of lines, by_work and redirects

\* A line that cannot be read or parsed is bad; a deleted one has no revision.
Line == [kind : {"active", "redirect", "deleted", "bad"}, group : Group \cup {NoGroup}]

ASSUME ExportAssumption ==
    /\ NoGroup \notin Group
    /\ WorkersArg = NoArg \/ WorkersArg \in Nat
    /\ Cpus \in Nat \ {0} /\ BufferLen \in Nat \ {0}
    /\ Jobs \subseteq [lines : Seq(Line), by_work : BOOLEAN, redirects : BOOLEAN]

\* std::cmp::min(1, num_cpus::get() / 2)
NumWorkers ==
    IF WorkersArg # NoArg THEN WorkersArg ELSE IF Cpus \div 2 < 1 THEN Cpus \div 2 ELSE 1

Worker == 1 .. NumWorkers

VARIABLES
    job,      \* what is asked
    main,     \* where the main thread is; "ok" and "err" are its ends
    next,     \* lines read
    batch,    \* the rows of the group being read
    last,     \* last_group_id
    parcel,   \* what main is sending
    rowQ,     \* the row channel
    worker,   \* of each worker thread, where it is and the rows at hand
    outQ,     \* the output channel
    printer,  \* the same of the printer thread
    out       \* what was printed

readVars == <<next, batch, last>>
exportVars == <<job, main, readVars, parcel, rowQ, worker, outQ, printer, out>>

Idle == [at |-> "recv", rows |-> << >>]

Rows == Seq(DOMAIN job.lines)

ExportTypeOK ==
    /\ job \in Jobs
    /\ main \in {"reading", "sending", "waiting", "ok", "err"}
    /\ next \in 0 .. Len(job.lines) /\ last \in Group \cup {NoGroup}
    /\ batch \in Rows /\ parcel \in Rows /\ out \in Rows
    /\ rowQ \in Seq(Rows) /\ Len(rowQ) <= BufferLen
    /\ outQ \in Seq(Rows) /\ Len(outQ) <= BufferLen
    /\ worker \in [Worker -> [at : {"recv", "busy", "send", "gone", "dead"}, rows : Rows]]
    /\ printer \in [at : {"recv", "busy", "gone", "dead"}, rows : Rows]
    /\ main = "sending" <=> parcel # << >>

Running == main \notin {"ok", "err"}

\* assert!(num_workers > 0) ends a run that would have no worker.
ExportInit ==
    /\ job \in Jobs
    /\ main = IF NumWorkers > 0 THEN "reading" ELSE "err"
    /\ next = 0 /\ batch = << >> /\ last = NoGroup /\ parcel = << >>
    /\ rowQ = << >> /\ worker = [w \in Worker |-> Idle]
    /\ outQ = << >> /\ printer = Idle /\ out = << >>

-----------------------------------------------------------------------------
(* The main thread. *)

Row == job.lines[next + 1]
Reading == main = "reading" /\ next < Len(job.lines)

\* Rows without a revision are skipped, and redirects unless they are asked for.
Wanted(line) == line.kind = "active" \/ (line.kind = "redirect" /\ job.redirects)

\* What is not main's own.
threadVars == <<rowQ, worker, outQ, printer, out>>

ReadBad ==
    /\ Reading /\ Row.kind = "bad"
    /\ main' = "err"
    /\ UNCHANGED <<job, readVars, parcel, threadVars>>

ReadSkipped ==
    /\ Reading /\ Row.kind # "bad" /\ ~Wanted(Row)
    /\ next' = next + 1
    /\ UNCHANGED <<job, main, batch, last, parcel, threadVars>>

\* do_export
ReadRow ==
    /\ Reading /\ Wanted(Row) /\ ~job.by_work
    /\ next' = next + 1
    /\ parcel' = <<next + 1>> /\ main' = "sending"
    /\ UNCHANGED <<job, batch, last, threadVars>>

NewGroup(row) == row.group = NoGroup \/ row.group # last

\* Mutant of ReadGroupRow: batch is sent and not emptied.
ReadGroupRowKept ==
    /\ Reading /\ Wanted(Row) /\ job.by_work
    /\ next' = next + 1 /\ last' = Row.group
    /\ batch' = Append(batch, next + 1)
    /\ IF NewGroup(Row) /\ batch # << >>
       THEN parcel' = batch /\ main' = "sending"
       ELSE UNCHANGED <<parcel, main>>
    /\ UNCHANGED <<job, threadVars>>

\* Mutant of ReadGroupRow: the row that begins a group goes with the one before.
ReadGroupRowLate ==
    /\ Reading /\ Wanted(Row) /\ job.by_work
    /\ next' = next + 1 /\ last' = Row.group
    /\ IF NewGroup(Row) /\ batch # << >>
       THEN parcel' = Append(batch, next + 1) /\ batch' = << >> /\ main' = "sending"
       ELSE batch' = Append(batch, next + 1) /\ UNCHANGED <<parcel, main>>
    /\ UNCHANGED <<job, threadVars>>

\* do_export_batch: the rows of a group are sent when a row of another is read.
ReadGroupRow ==
    /\ Reading /\ Wanted(Row) /\ job.by_work
    /\ next' = next + 1 /\ last' = Row.group
    /\ IF NewGroup(Row) /\ batch # << >>
       THEN parcel' = batch /\ batch' = <<next + 1>> /\ main' = "sending"
       ELSE batch' = Append(batch, next + 1) /\ UNCHANGED <<parcel, main>>
    /\ UNCHANGED <<job, threadVars>>

\* Mutant of SendRows: the channel is not bounded.
SendRowsUnbounded ==
    /\ main = "sending"
    /\ rowQ' = Append(rowQ, parcel)
    /\ parcel' = << >> /\ main' = "reading"
    /\ UNCHANGED <<job, readVars, worker, outQ, printer, out>>

\* row_sender.send(), which waits for room.
SendRows ==
    /\ main = "sending" /\ Len(rowQ) < BufferLen
    /\ rowQ' = Append(rowQ, parcel)
    /\ parcel' = << >> /\ main' = "reading"
    /\ UNCHANGED <<job, readVars, worker, outQ, printer, out>>

\* Mutant of EndOfInput: the last batch is not sent.
EndOfInputLossy ==
    /\ main = "reading" /\ next = Len(job.lines)
    /\ main' = "waiting"
    /\ UNCHANGED <<job, readVars, parcel, threadVars>>

\* The last batch is sent; then the sender is dropped.
EndOfInput ==
    /\ main = "reading" /\ next = Len(job.lines)
    /\ IF batch # << >> THEN parcel' = batch /\ batch' = << >> /\ main' = "sending"
       ELSE main' = "waiting" /\ UNCHANGED <<parcel, batch>>
    /\ UNCHANGED <<job, next, last, threadVars>>

\* done_receiver.recv(): the printer has ended, in order or not.
Quit ==
    /\ main = "waiting" /\ printer.at \in {"gone", "dead"}
    /\ main' = "ok"
    /\ UNCHANGED <<job, readVars, parcel, threadVars>>

-----------------------------------------------------------------------------
(* The workers: loop_work_<entity>, loop_work_release_by_work. *)

WorkerAt(w, at) == Running /\ worker[w].at = at
MainVars == <<job, main, readVars, parcel>>

ReceiveRows(w) ==
    /\ WorkerAt(w, "recv") /\ rowQ # << >>
    /\ worker' = [worker EXCEPT ![w] = [at |-> "busy", rows |-> Head(rowQ)]]
    /\ rowQ' = Tail(rowQ)
    /\ UNCHANGED <<MainVars, outQ, printer, out>>

FetchRows(w) ==
    /\ WorkerAt(w, "busy")
    /\ worker' = [worker EXCEPT ![w].at = "send"]
    /\ UNCHANGED <<MainVars, rowQ, outQ, printer, out>>

\* An entity cannot be read, expanded or serialized: result.unwrap() panics.
\* What was at hand is lost, the rows of the batch that were fetched included.
FetchFails(w) ==
    /\ WorkerAt(w, "busy")
    /\ worker' = [worker EXCEPT ![w].at = "dead"]
    /\ UNCHANGED <<MainVars, rowQ, outQ, printer, out>>

SendOutput(w) ==
    /\ WorkerAt(w, "send") /\ Len(outQ) < BufferLen
    /\ outQ' = Append(outQ, worker[w].rows)
    /\ worker' = [worker EXCEPT ![w] = Idle]
    /\ UNCHANGED <<MainVars, rowQ, printer, out>>

\* The row channel is closed and empty.
RowsEnd(w) ==
    /\ WorkerAt(w, "recv") /\ rowQ = << >> /\ main = "waiting"
    /\ worker' = [worker EXCEPT ![w].at = "gone"]
    /\ UNCHANGED <<MainVars, rowQ, outQ, printer, out>>

-----------------------------------------------------------------------------
(* The printer: loop_printer, loop_batch_printer. *)

PrinterAt(at) == Running /\ printer.at = at

ReceiveOutput ==
    /\ PrinterAt("recv") /\ outQ # << >>
    /\ printer' = [at |-> "busy", rows |-> Head(outQ)]
    /\ outQ' = Tail(outQ)
    /\ UNCHANGED <<MainVars, rowQ, worker, out>>

PrintRow ==
    /\ PrinterAt("busy")
    /\ out' = Append(out, Head(printer.rows))
    /\ printer' = [at |-> IF Tail(printer.rows) = << >> THEN "recv" ELSE "busy",
                   rows |-> Tail(printer.rows)]
    /\ UNCHANGED <<MainVars, rowQ, worker, outQ>>

\* A write or the flush fails: expect() panics, and drops the done channel.
PrintFails ==
    /\ PrinterAt("busy")
    /\ printer' = [printer EXCEPT !.at = "dead"]
    /\ UNCHANGED <<MainVars, rowQ, worker, outQ, out>>

\* Mutant of OutputEnd: main keeps a sender of the output channel.
OutputEndNever == FALSE /\ UNCHANGED exportVars

\* The output channel is empty, and the workers, who held its senders, are over.
OutputEnd ==
    /\ PrinterAt("recv") /\ outQ = << >>
    /\ \A w \in Worker : worker[w].at \in {"gone", "dead"}
    /\ printer' = [printer EXCEPT !.at = "gone"]
    /\ UNCHANGED <<MainVars, rowQ, worker, outQ, out>>

-----------------------------------------------------------------------------
MainStep == ReadBad \/ ReadSkipped \/ ReadRow \/ ReadGroupRow \/ SendRows \/ EndOfInput \/ Quit
Work(w) == \/ ReceiveRows(w) \/ FetchRows(w) \/ FetchFails(w)
           \/ SendOutput(w) \/ RowsEnd(w)
PrinterStep == ReceiveOutput \/ PrintRow \/ PrintFails \/ OutputEnd

ExportNext == MainStep \/ (\E w \in Worker : Work(w)) \/ PrinterStep

\* The system runs every thread that is not blocked.
ExportFairness == WF_exportVars(MainStep) /\ (\A w \in Worker : WF_exportVars(Work(w)))
                  /\ WF_exportVars(PrinterStep)

ExportSpec == ExportInit /\ [][ExportNext]_exportVars /\ ExportFairness

-----------------------------------------------------------------------------
Dead(w) == worker[w].at = "dead"
AllDead == \A w \in Worker : Dead(w)

\* Rows of one group that follow one another in the table, skipped ones aside.
Together(i, j) ==
    \/ i = j
    \/ LET lines == job.lines
       IN  /\ lines[i].group # NoGroup /\ lines[j].group = lines[i].group
           /\ \A k \in (i .. j) \cup (j .. i) :
                 Wanted(lines[k]) => lines[k].group = lines[i].group

\* No row is printed twice, and none that was to be skipped, however the threads
\* hand the rows on and wherever one of them panics.
PrintedOnce ==
    /\ \A p, q \in DOMAIN out : p # q => out[p] # out[q]
    /\ \A p \in DOMAIN out : Wanted(job.lines[out[p]])

\* With "releasebywork" the releases of a work are contiguous in the output, in
\* whatever order several workers answer: "all release entities with the same
\* work_id contiguous" (proposals/20200804_grouped_release_exports.md).
GroupsContiguous ==
    job.by_work => \A p, q, r \in DOMAIN out :
                      p < q /\ q < r /\ Together(out[p], out[r]) => Together(out[p], out[q])

\* When do_export returns Ok and the printer did not panic, a row that is missing
\* was at hand of a worker that panicked, or is left in the channel because all
\* of them did; the exit code does not tell.
MissingIsTheDeads ==
    main = "ok" /\ printer.at # "dead" =>
        \A i \in DOMAIN job.lines : Wanted(job.lines[i]) =>
            \/ i \in ToSet(out)
            \/ \E w \in Worker : Dead(w) /\ i \in ToSet(worker[w].rows)
            \/ AllDead /\ \E k \in DOMAIN rowQ : i \in ToSet(rowQ[k])

\* do_export returns, but for two cases: every worker has panicked and the row
\* channel is full; the printer has panicked and both channels are full.
ExportEnds ==
    \/ <>(main \in {"ok", "err"})
    \/ <>[](/\ main = "sending" /\ Len(rowQ) = BufferLen
            /\ AllDead \/ (printer.at = "dead" /\ Len(outQ) = BufferLen))

=============================================================================
