---------------------------- MODULE ExportProofs ----------------------------
(***************************************************************************)
(* The safety of fatcat-export, for any table, any number of workers, any  *)
(* length of the channels and any panics.                                  *)
(***************************************************************************)
EXTENDS Export, SequenceTheorems, TLAPS

-----------------------------------------------------------------------------
(* Sequences of rows, and queues of them. *)

InSome(q, i) == \E k \in DOMAIN q : i \in ToSet(q[k])
InOne(q, i) == \A k, l \in DOMAIN q : i \in ToSet(q[k]) /\ i \in ToSet(q[l]) => k = l
Distinct(s) == \A p, q \in DOMAIN s : s[p] = s[q] => p = q

LEMMA NoRows == ToSet(<< >>) = {} /\ Distinct(<< >>) /\ \A S : << >> \in Seq(S)
BY DEF ToSet, Distinct

LEMMA OneRow ==
    ASSUME NEW S, NEW x \in S
    PROVE  <<x>> \in Seq(S) /\ ToSet(<<x>>) = {x} /\ Distinct(<<x>>) /\ <<x>> # << >>
BY DEF ToSet, Distinct

LEMMA LongerRows ==
    ASSUME NEW S, NEW s \in Seq(S), NEW x \in S
    PROVE  /\ Append(s, x) \in Seq(S) /\ Append(s, x) # << >>
           /\ ToSet(Append(s, x)) = ToSet(s) \cup {x}
           /\ Distinct(s) /\ x \notin ToSet(s) => Distinct(Append(s, x))
<1>1. PICK t : t = Append(s, x)
  OBVIOUS
<1>2. /\ t \in Seq(S) /\ Len(t) = Len(s) + 1 /\ DOMAIN t = 1 .. Len(t)
      /\ Len(s) \in Nat /\ DOMAIN s = 1 .. Len(s)
      /\ t[Len(s) + 1] = x /\ \A k \in 1 .. Len(s) : t[k] = s[k]
  BY <1>1, AppendProperties, LenProperties
<1>3. \A k \in DOMAIN t : k \in DOMAIN s \/ k = Len(s) + 1
  BY <1>2
<1>4. ToSet(t) = ToSet(s) \cup {x}
  BY <1>2, <1>3 DEF ToSet
<1>5. Distinct(s) /\ x \notin ToSet(s) => Distinct(t)
  BY <1>2, <1>3 DEF Distinct, ToSet
<1>6. t # << >>
  BY <1>2
<1> QED
  BY <1>1, <1>2, <1>4, <1>5, <1>6

LEMMA ShorterRows ==
    ASSUME NEW S, NEW s \in Seq(S), s # << >>
    PROVE  /\ Tail(s) \in Seq(S) /\ Head(s) \in S
           /\ ToSet(s) = {Head(s)} \cup ToSet(Tail(s))
           /\ Distinct(s) => Distinct(Tail(s)) /\ Head(s) \notin ToSet(Tail(s))
<1>1. PICK t : t = Tail(s)
  OBVIOUS
<1>2. /\ t \in Seq(S) /\ Head(s) = s[1] /\ s[1] \in S
      /\ Len(s) \in Nat \ {0} /\ DOMAIN s = 1 .. Len(s) /\ DOMAIN t = 1 .. Len(s) - 1
      /\ \A k \in 1 .. Len(s) - 1 : t[k] = s[k + 1]
  BY <1>1, HeadTailProperties, LenProperties, EmptySeq
<1>3. \A k \in DOMAIN s : k = 1 \/ (k - 1 \in DOMAIN t /\ t[k - 1] = s[k])
  BY <1>2
<1>4. \A k \in DOMAIN t : k + 1 \in DOMAIN s /\ k + 1 # 1 /\ t[k] = s[k + 1]
  BY <1>2
<1>5. ToSet(s) = {s[1]} \cup ToSet(t)
  BY <1>2, <1>3, <1>4 DEF ToSet
<1>6. Distinct(s) => Distinct(t)
  BY <1>2, <1>4 DEF Distinct
<1>7. Distinct(s) => s[1] \notin ToSet(t)
  BY <1>2, <1>4 DEF Distinct, ToSet
<1> QED
  BY <1>1, <1>2, <1>5, <1>6, <1>7

\* Rows are sent to a queue, and received from it.
LEMMA QueueSend ==
    ASSUME NEW T, NEW q \in Seq(T), NEW s \in T, NEW i
    PROVE  /\ InSome(Append(q, s), i) <=> InSome(q, i) \/ i \in ToSet(s)
           /\ InOne(q, i) /\ ~(InSome(q, i) /\ i \in ToSet(s)) => InOne(Append(q, s), i)
<1>1. PICK t : t = Append(q, s)
  OBVIOUS
<1>2. /\ DOMAIN t = 1 .. Len(q) + 1 /\ Len(q) \in Nat /\ DOMAIN q = 1 .. Len(q)
      /\ t[Len(q) + 1] = s /\ \A k \in 1 .. Len(q) : t[k] = q[k]
  BY <1>1, AppendProperties, LenProperties
<1>3. \A k \in DOMAIN t : (k \in DOMAIN q /\ t[k] = q[k]) \/ (k = Len(q) + 1 /\ t[k] = s)
  BY <1>2
<1>4. Len(q) + 1 \in DOMAIN t /\ \A k \in DOMAIN q : k \in DOMAIN t /\ t[k] = q[k]
  BY <1>2
<1>5. InSome(t, i) <=> InSome(q, i) \/ i \in ToSet(s)
  BY <1>2, <1>3, <1>4 DEF InSome
<1>6. InOne(q, i) /\ ~(InSome(q, i) /\ i \in ToSet(s)) => InOne(t, i)
  BY <1>3 DEF InOne, InSome
<1> QED
  BY <1>1, <1>5, <1>6

LEMMA QueueReceive ==
    ASSUME NEW T, NEW q \in Seq(T), q # << >>, NEW i
    PROVE  /\ InSome(q, i) <=> i \in ToSet(Head(q)) \/ InSome(Tail(q), i)
           /\ InOne(q, i) => /\ InOne(Tail(q), i)
                             /\ ~(i \in ToSet(Head(q)) /\ InSome(Tail(q), i))
<1>1. PICK t : t = Tail(q)
  OBVIOUS
<1>2. /\ Head(q) = q[1] /\ Len(q) \in Nat \ {0} /\ DOMAIN q = 1 .. Len(q)
      /\ DOMAIN t = 1 .. Len(q) - 1 /\ \A k \in 1 .. Len(q) - 1 : t[k] = q[k + 1]
  BY <1>1, HeadTailProperties, LenProperties, EmptySeq
<1>3. 1 \in DOMAIN q /\ \A k \in DOMAIN q : k = 1 \/ (k - 1 \in DOMAIN t /\ t[k - 1] = q[k])
  BY <1>2
<1>4. \A k \in DOMAIN t : k \in Nat /\ k + 1 \in DOMAIN q /\ k + 1 # 1 /\ t[k] = q[k + 1]
  BY <1>2
<1>5. InSome(q, i) <=> i \in ToSet(Head(q)) \/ InSome(t, i)
  BY <1>2, <1>3, <1>4 DEF InSome
<1>6. InOne(q, i) => InOne(t, i)
  <2> SUFFICES ASSUME InOne(q, i), NEW k \in DOMAIN t, NEW l \in DOMAIN t,
                      i \in ToSet(t[k]), i \in ToSet(t[l])
               PROVE  k = l
    BY DEF InOne
  <2>1. k + 1 = l + 1
    BY <1>4 DEF InOne
  <2> QED
    BY <1>4, <2>1
<1>7. InOne(q, i) => ~(i \in ToSet(Head(q)) /\ InSome(t, i))
  BY <1>2, <1>3, <1>4 DEF InOne, InSome
<1> QED
  BY <1>1, <1>5, <1>6, <1>7

\* The rows at hand of one of several change.
LEMMA HandChanges ==
    ASSUME NEW W, NEW f, DOMAIN f = W, NEW w \in W, NEW s,
           NEW g, g = [f EXCEPT ![w] = s], NEW i
    PROVE  /\ InOne(f, i) => (i \in ToSet(f[w]) => (InSome(g, i) <=> i \in ToSet(s)))
           /\ i \notin ToSet(f[w]) => (InSome(g, i) <=> InSome(f, i) \/ i \in ToSet(s))
           /\ InOne(f, i) /\ ~(InSome(f, i) /\ i \in ToSet(s)) => InOne(g, i)
<1>1. DOMAIN g = W /\ g[w] = s /\ \A v \in W : v # w => g[v] = f[v]
  OBVIOUS
<1>2. InOne(f, i) => (i \in ToSet(f[w]) => (InSome(g, i) <=> i \in ToSet(s)))
  BY <1>1 DEF InOne, InSome
<1>3. i \notin ToSet(f[w]) => (InSome(g, i) <=> InSome(f, i) \/ i \in ToSet(s))
  BY <1>1 DEF InSome
<1>4. InOne(f, i) /\ ~(InSome(f, i) /\ i \in ToSet(s)) => InOne(g, i)
  BY <1>1 DEF InOne, InSome
<1> QED
  BY <1>2, <1>3, <1>4

-----------------------------------------------------------------------------
(* Types, and how the threads end. *)

WorkerType == [at : {"recv", "busy", "send", "gone", "dead"}, rows : Rows]
PrinterType == [at : {"recv", "busy", "gone", "dead"}, rows : Rows]

\* A thread that waits has no rows at hand, and nothing empty is passed on.
AtHand ==
    /\ \A w \in Worker : worker[w].at \in {"recv", "gone"} <=> worker[w].rows = << >>
    /\ printer.at \in {"recv", "gone"} <=> printer.rows = << >>
    /\ \A k \in DOMAIN rowQ : rowQ[k] # << >>
    /\ \A k \in DOMAIN outQ : outQ[k] # << >>

\* Main first, then the workers that live, then the printer, then main again.
EndsInOrder ==
    /\ main \in {"waiting", "ok"} => next = Len(job.lines) /\ batch = << >>
    /\ \A w \in Worker :
          worker[w].at = "gone" => rowQ = << >> /\ main \in {"waiting", "ok"}
    /\ printer.at = "gone" =>
          outQ = << >> /\ \A w \in Worker : worker[w].at \in {"gone", "dead"}
    /\ main = "ok" => printer.at \in {"gone", "dead"}

ExportInv == ExportTypeOK /\ AtHand /\ EndsInOrder

LEMMA Lines ==
    ASSUME ExportTypeOK
    PROVE  /\ job.lines \in Seq(Line) /\ Len(job.lines) \in Nat
           /\ DOMAIN job.lines = 1 .. Len(job.lines)
           /\ job.by_work \in BOOLEAN /\ job.redirects \in BOOLEAN
<1>1. job \in [lines : Seq(Line), by_work : BOOLEAN, redirects : BOOLEAN]
  BY ExportAssumption DEF ExportTypeOK
<1> QED
  BY <1>1, LenProperties

LEMMA NothingAtFirst ==
    ASSUME ExportInit
    PROVE  ExportInv
<1>1. job.lines \in Seq(Line) /\ Len(job.lines) \in Nat
  BY ExportAssumption, LenProperties DEF ExportInit
<1>2. << >> \in Rows /\ << >> \in Seq(Rows) /\ Len(<< >>) <= BufferLen
  BY ExportAssumption, EmptySeq DEF Rows
<1>3. Idle \in WorkerType /\ Idle \in PrinterType
  BY <1>2 DEF Idle, WorkerType, PrinterType
<1>4. worker \in [Worker -> WorkerType] /\ \A w \in Worker : worker[w] = Idle
  BY <1>3 DEF ExportInit
<1>5. ExportTypeOK
  BY <1>1, <1>2, <1>3, <1>4 DEF ExportInit, ExportTypeOK, WorkerType, PrinterType
<1>6. AtHand
  BY <1>4 DEF ExportInit, AtHand, Idle
<1>7. EndsInOrder
  BY <1>4 DEF ExportInit, EndsInOrder, Idle
<1> QED
  BY <1>5, <1>6, <1>7 DEF ExportInv

LEMMA MainKeeps ==
    ASSUME ExportInv, MainStep
    PROVE  ExportInv'
<1> USE DEF ExportInv, ExportTypeOK
<1>1. job' = job /\ Rows' = Rows /\ UNCHANGED <<worker, outQ, printer, out>> /\ main \notin {"ok", "err"}
  BY DEF MainStep, ReadBad, ReadSkipped, ReadRow, ReadGroupRow, SendRows, EndOfInput, Quit,
         Reading, threadVars, Rows
<1>2. Len(job.lines) \in Nat /\ DOMAIN job.lines = 1 .. Len(job.lines)
  BY Lines
<1>3. << >> \in Rows
  BY NoRows DEF Rows
<1>4. \A w \in Worker : worker[w].at # "gone" \/ main = "waiting"
  BY <1>1 DEF EndsInOrder
<1>5. CASE ReadBad
  BY <1>1, <1>5 DEF ReadBad, Reading, readVars, threadVars, AtHand, EndsInOrder
<1>6. CASE ReadSkipped
  <2>1. next' \in 0 .. Len(job.lines)
    BY <1>2, <1>6 DEF ReadSkipped, Reading
  <2> QED
    BY <1>1, <1>6, <2>1 DEF ReadSkipped, Reading, threadVars, AtHand, EndsInOrder
<1>7. CASE ReadRow
  <2>1. next' \in 0 .. Len(job.lines) /\ next + 1 \in DOMAIN job.lines
    BY <1>2, <1>7 DEF ReadRow, Reading
  <2>2. <<next + 1>> \in Rows /\ <<next + 1>> # << >>
    BY <2>1, OneRow DEF Rows
  <2> QED
    BY <1>1, <1>7, <2>1, <2>2 DEF ReadRow, Reading, threadVars, AtHand, EndsInOrder
<1>8. CASE ReadGroupRow
  <2>1. next' \in 0 .. Len(job.lines) /\ next + 1 \in DOMAIN job.lines
    BY <1>2, <1>8 DEF ReadGroupRow, Reading
  <2>2. <<next + 1>> \in Rows /\ Append(batch, next + 1) \in Rows
    BY <2>1, OneRow, LongerRows DEF Rows
  <2>3. last' \in Group \cup {NoGroup}
    <3>1. job.lines[next + 1] \in Line
      BY <1>2, <2>1, Lines
    <3> QED
      BY <1>8, <3>1 DEF ReadGroupRow, Row, Line
  <2>4. /\ batch' \in Rows /\ parcel' \in Rows /\ main' \in {"reading", "sending"}
        /\ main' = "sending" <=> parcel' # << >>
    BY <1>8, <2>2 DEF ReadGroupRow, Reading
  <2> QED
    BY <1>1, <1>4, <1>8, <2>1, <2>3, <2>4 DEF ReadGroupRow, Reading, threadVars, AtHand, EndsInOrder
<1>9. CASE SendRows
  <2>1. rowQ' = Append(rowQ, parcel) /\ parcel # << >> /\ main' = "reading" /\ parcel' = << >>
    BY <1>9 DEF SendRows
  <2>2. rowQ' \in Seq(Rows) /\ Len(rowQ') = Len(rowQ) + 1 /\ Len(rowQ') <= BufferLen
    BY <1>9, <2>1, AppendProperties, LenProperties, ExportAssumption DEF SendRows
  <2>3. \A k \in DOMAIN rowQ' : rowQ'[k] # << >>
    BY <2>1, AppendProperties, LenProperties DEF AtHand
  <2>4. ExportTypeOK'
    BY <1>1, <1>3, <1>9, <2>1, <2>2 DEF SendRows, readVars
  <2>5. AtHand'
    BY <1>1, <2>3 DEF AtHand
  <2>6. EndsInOrder'
    BY <1>1, <1>4, <1>9, <2>1 DEF SendRows, readVars, EndsInOrder
  <2> QED
    BY <2>4, <2>5, <2>6
<1>10. CASE EndOfInput
  <2>1. /\ next' = next /\ last' = last /\ next = Len(job.lines) /\ rowQ' = rowQ
        /\ \/ parcel' = batch /\ batch' = << >> /\ main' = "sending" /\ batch # << >>
           \/ batch = << >> /\ main' = "waiting" /\ UNCHANGED <<parcel, batch>>
        /\ main = "reading"
    BY <1>10 DEF EndOfInput, threadVars
  <2> QED
    BY <1>1, <1>3, <1>4, <2>1 DEF AtHand, EndsInOrder
<1>11. CASE Quit
  BY <1>1, <1>11 DEF Quit, readVars, threadVars, AtHand, EndsInOrder
<1> QED
  BY <1>5, <1>6, <1>7, <1>8, <1>9, <1>10, <1>11 DEF MainStep

\* Of one worker it is known where it is and what it has at hand.
LEMMA WorkerIs ==
    ASSUME ExportInv, NEW w \in Worker, NEW t \in WorkerType,
           NEW new, new = [worker EXCEPT ![w] = t]
    PROVE  /\ new \in [Worker -> WorkerType]
           /\ new[w] = t /\ \A v \in Worker : v # w => new[v] = worker[v]
<1>1. worker \in [Worker -> WorkerType]
  BY DEF ExportInv, ExportTypeOK, WorkerType
<1> HIDE DEF WorkerType
<1> QED
  BY <1>1

LEMMA WorkerStep ==
    ASSUME ExportInv, NEW w \in Worker, NEW at, worker' = [worker EXCEPT ![w].at = at],
           at \in {"send", "dead", "gone"}
    PROVE  \E t \in WorkerType : /\ t.at = at /\ t.rows = worker[w].rows
                                 /\ worker' = [worker EXCEPT ![w] = t]
<1>1. worker \in [Worker -> WorkerType]
  BY DEF ExportInv, ExportTypeOK, WorkerType
<1>2. PICK old \in WorkerType : old = worker[w]
  BY <1>1
<1>3. PICK t : t = [at |-> at, rows |-> old.rows]
  OBVIOUS
<1>4. t \in WorkerType /\ t.at = at /\ t.rows = worker[w].rows
  BY <1>2, <1>3 DEF WorkerType
<1>5. t = [old EXCEPT !.at = at]
  BY <1>2, <1>3 DEF WorkerType
<1>6. worker' = [worker EXCEPT ![w] = t]
  BY <1>1, <1>2, <1>5
<1> QED
  BY <1>4, <1>6

\* A worker takes the first rows of the channel.
Receives(w, t) ==
    /\ Running /\ worker[w].at = "recv" /\ rowQ # << >>
    /\ t \in WorkerType /\ t.at = "busy" /\ t.rows = Head(rowQ)
    /\ worker' = [worker EXCEPT ![w] = t] /\ rowQ' = Tail(rowQ)
    /\ UNCHANGED <<MainVars, outQ, printer, out>>
\* It sends what it has.
Sends(w, t) ==
    /\ Running /\ worker[w].at = "send" /\ Len(outQ) < BufferLen
    /\ t \in WorkerType /\ t.at = "recv" /\ t.rows = << >>
    /\ worker' = [worker EXCEPT ![w] = t] /\ outQ' = Append(outQ, worker[w].rows)
    /\ UNCHANGED <<MainVars, rowQ, printer, out>>
\* It goes on, or ends, with what it has.
GoesOn(w, t) ==
    /\ Running
    /\ t \in WorkerType /\ t.rows = worker[w].rows
    /\ \/ worker[w].at = "busy" /\ t.at \in {"send", "dead"}
       \/ worker[w].at = "recv" /\ t.at = "gone" /\ rowQ = << >> /\ main = "waiting"
    /\ worker' = [worker EXCEPT ![w] = t]
    /\ UNCHANGED <<MainVars, rowQ, outQ, printer, out>>

LEMMA WorkIs ==
    ASSUME ExportInv, NEW w \in Worker, Work(w)
    PROVE  \E t : Receives(w, t) \/ Sends(w, t) \/ GoesOn(w, t)
<1>1. CASE ReceiveRows(w)
  <2>1. PICK t : t = [at |-> "busy", rows |-> Head(rowQ)]
    OBVIOUS
  <2>2. Head(rowQ) \in Rows
    BY <1>1, ShorterRows DEF ReceiveRows, ExportInv, ExportTypeOK
  <2>3. t \in WorkerType /\ t.at = "busy" /\ t.rows = Head(rowQ)
    BY <2>1, <2>2 DEF WorkerType
  <2> QED
    BY <1>1, <2>1, <2>3 DEF ReceiveRows, WorkerAt, Receives
<1>2. CASE SendOutput(w)
  <2>1. Idle \in WorkerType /\ Idle.at = "recv" /\ Idle.rows = << >>
    BY NoRows DEF Idle, WorkerType, Rows
  <2> QED
    BY <1>2, <2>1 DEF SendOutput, WorkerAt, Sends
<1>3. CASE FetchRows(w)
  <2>1. PICK t \in WorkerType : /\ t.at = "send" /\ t.rows = worker[w].rows
                                /\ worker' = [worker EXCEPT ![w] = t]
    BY <1>3, WorkerStep DEF FetchRows
  <2> QED
    BY <1>3, <2>1 DEF FetchRows, WorkerAt, GoesOn
<1>4. CASE FetchFails(w)
  <2>1. PICK t \in WorkerType : /\ t.at = "dead" /\ t.rows = worker[w].rows
                                /\ worker' = [worker EXCEPT ![w] = t]
    BY <1>4, WorkerStep DEF FetchFails
  <2> QED
    BY <1>4, <2>1 DEF FetchFails, WorkerAt, GoesOn
<1>5. CASE RowsEnd(w)
  <2>1. PICK t \in WorkerType : /\ t.at = "gone" /\ t.rows = worker[w].rows
                                /\ worker' = [worker EXCEPT ![w] = t]
    BY <1>5, WorkerStep DEF RowsEnd
  <2> QED
    BY <1>5, <2>1 DEF RowsEnd, WorkerAt, GoesOn
<1> QED
  BY <1>1, <1>2, <1>3, <1>4, <1>5 DEF Work

LEMMA WorkKeeps ==
    ASSUME ExportInv, NEW w \in Worker, Work(w)
    PROVE  ExportInv'
<1>1. PICK t : Receives(w, t) \/ Sends(w, t) \/ GoesOn(w, t)
  BY WorkIs
<1>2. /\ t \in WorkerType /\ worker' = [worker EXCEPT ![w] = t]
      /\ UNCHANGED <<job, main, next, batch, last, parcel, printer, out>> /\ Running
  BY <1>1 DEF Receives, Sends, GoesOn, MainVars, readVars
<1>3. Rows' = Rows
  BY <1>2 DEF Rows
<1>4. PICK new : /\ new = worker' /\ new \in [Worker -> WorkerType]
                 /\ new[w] = t /\ \A v \in Worker : v # w => new[v] = worker[v]
  BY <1>2, WorkerIs
<1>5. /\ rowQ' \in Seq(Rows) /\ Len(rowQ') <= BufferLen
      /\ \A k \in DOMAIN rowQ' : rowQ'[k] # << >>
      /\ rowQ = << >> => rowQ' = << >>
  <2>1. CASE Receives(w, t)
    <3>1. PICK q : q = rowQ'
      OBVIOUS
    <3>2. rowQ \in Seq(Rows) /\ rowQ # << >> /\ q = Tail(rowQ) /\ Len(rowQ) <= BufferLen
      BY <2>1, <3>1 DEF Receives, ExportInv, ExportTypeOK
    <3>3. /\ q \in Seq(Rows) /\ Len(q) = Len(rowQ) - 1 /\ Len(rowQ) \in Nat
          /\ \A k \in DOMAIN q : q[k] = rowQ[k + 1] /\ k + 1 \in DOMAIN rowQ
      BY <3>2, HeadTailProperties, LenProperties
    <3>4. Len(q) <= BufferLen
      BY <3>2, <3>3, ExportAssumption
    <3> QED
      BY <3>1, <3>2, <3>3, <3>4 DEF ExportInv, AtHand
  <2>2. CASE rowQ' = rowQ
    BY <2>2 DEF ExportInv, ExportTypeOK, AtHand
  <2> QED
    BY <1>1, <2>1, <2>2 DEF Sends, GoesOn
<1>6. /\ outQ' \in Seq(Rows) /\ Len(outQ') <= BufferLen
      /\ \A k \in DOMAIN outQ' : outQ'[k] # << >>
      /\ worker[w].at \in {"recv", "busy"} => outQ' = outQ
  <2>1. CASE Sends(w, t)
    <3>1. PICK q, s : q = outQ' /\ s = worker[w].rows
      OBVIOUS
    <3>2. outQ \in Seq(Rows) /\ q = Append(outQ, s) /\ Len(outQ) < BufferLen /\ s \in Rows /\ s # << >>
      BY <2>1, <3>1 DEF Sends, ExportInv, ExportTypeOK, AtHand
    <3>3. q \in Seq(Rows) /\ Len(q) = Len(outQ) + 1 /\ Len(outQ) \in Nat
      BY <3>2, AppendProperties, LenProperties
    <3>4. \A k \in DOMAIN q : q[k] # << >>
      BY <3>2, <3>3, AppendProperties, LenProperties DEF ExportInv, AtHand
    <3>5. Len(q) <= BufferLen
      BY <3>2, <3>3, ExportAssumption
    <3> QED
      BY <2>1, <3>1, <3>3, <3>4, <3>5 DEF Sends
  <2>2. CASE outQ' = outQ
    BY <2>2 DEF ExportInv, ExportTypeOK, AtHand
  <2> QED
    BY <1>1, <2>1, <2>2 DEF Receives, GoesOn
<1>7. t.at \in {"recv", "gone"} <=> t.rows = << >>
  BY <1>1, <1>5 DEF Receives, Sends, GoesOn, ExportInv, AtHand, ExportTypeOK
<1>8. worker[w].at \notin {"gone", "dead"}
  BY <1>1 DEF Receives, Sends, GoesOn
<1>9. ExportTypeOK'
  BY <1>2, <1>3, <1>4, <1>5, <1>6 DEF ExportInv, ExportTypeOK, WorkerType
<1>10. AtHand'
  BY <1>2, <1>4, <1>5, <1>6, <1>7 DEF ExportInv, AtHand
<1>11. EndsInOrder'
  <2>1. printer.at # "gone"
    BY <1>8 DEF ExportInv, EndsInOrder
  <2>2. t.at = "gone" => rowQ' = << >> /\ main = "waiting"
    BY <1>1 DEF Receives, Sends, GoesOn
  <2>3. \A v \in Worker : v # w /\ new[v].at = "gone" => rowQ' = << >> /\ main \in {"waiting", "ok"}
    BY <1>4, <1>5 DEF ExportInv, EndsInOrder
  <2>4. \A v \in Worker : new[v].at = "gone" => rowQ' = << >> /\ main \in {"waiting", "ok"}
    BY <1>4, <2>2, <2>3
  <2> QED
    BY <1>2, <1>4, <2>1, <2>4 DEF ExportInv, EndsInOrder
<1> QED
  BY <1>9, <1>10, <1>11 DEF ExportInv

LEMMA PrinterKeeps ==
    ASSUME ExportInv, PrinterStep
    PROVE  ExportInv'
<1>1. /\ UNCHANGED <<job, main, next, batch, last, parcel, rowQ, worker>> /\ Running
      /\ printer.at \in {"recv", "busy"}
  BY DEF PrinterStep, ReceiveOutput, PrintRow, PrintFails, OutputEnd, PrinterAt, MainVars, readVars
<1>2. Rows' = Rows /\ main # "ok"
  BY <1>1 DEF Rows, Running
<1>3. printer \in PrinterType /\ outQ \in Seq(Rows) /\ out \in Rows
  BY DEF ExportInv, ExportTypeOK, PrinterType
<1>4. PICK p, q, o : p = printer' /\ q = outQ' /\ o = out'
  OBVIOUS
<1>5. /\ p \in PrinterType /\ o \in Rows
      /\ p.at \in {"recv", "gone"} <=> p.rows = << >>
      /\ p.at = "gone" => q = << >> /\ \A w \in Worker : worker[w].at \in {"gone", "dead"}
      /\ q = outQ \/ (outQ # << >> /\ q = Tail(outQ))
  <2>1. CASE ReceiveOutput
    <3>1. outQ # << >> /\ q = Tail(outQ) /\ o = out /\ p = [at |-> "busy", rows |-> Head(outQ)]
      BY <1>4, <2>1 DEF ReceiveOutput
    <3>2. Head(outQ) \in Rows /\ Head(outQ) # << >>
      BY <1>3, <3>1, ShorterRows, HeadTailProperties, LenProperties, EmptySeq DEF ExportInv, AtHand
    <3> QED
      BY <1>3, <3>1, <3>2 DEF PrinterType
  <2>2. CASE PrintRow
    <3>1. PICK s \in Rows : s = printer.rows
      BY <1>3 DEF PrinterType
    <3>2. s # << >>
      BY <2>2, <3>1 DEF PrintRow, PrinterAt, ExportInv, AtHand
    <3>3. Tail(s) \in Rows /\ Append(out, Head(s)) \in Rows
      BY <1>3, <3>2, ShorterRows, LongerRows DEF Rows
    <3>4. /\ q = outQ /\ o = Append(out, Head(s))
          /\ p = [at |-> IF Tail(s) = << >> THEN "recv" ELSE "busy", rows |-> Tail(s)]
      BY <1>4, <2>2, <3>1 DEF PrintRow, MainVars
    <3> QED
      BY <3>3, <3>4 DEF PrinterType
  <2>3. CASE PrintFails
    <3>1. q = outQ /\ o = out /\ printer.at = "busy" /\ p = [printer EXCEPT !.at = "dead"]
      BY <1>4, <2>3 DEF PrintFails, PrinterAt
    <3>2. p.at = "dead" /\ p.rows = printer.rows /\ p \in PrinterType
      BY <1>3, <3>1 DEF PrinterType
    <3> QED
      BY <1>3, <3>1, <3>2 DEF ExportInv, AtHand
  <2>4. CASE OutputEnd
    <3>1. /\ q = outQ /\ o = out /\ printer.at = "recv" /\ p = [printer EXCEPT !.at = "gone"]
          /\ outQ = << >> /\ \A w \in Worker : worker[w].at \in {"gone", "dead"}
      BY <1>4, <2>4 DEF OutputEnd, PrinterAt
    <3>2. p.at = "gone" /\ p.rows = printer.rows /\ p \in PrinterType
      BY <1>3, <3>1 DEF PrinterType
    <3> QED
      BY <1>3, <3>1, <3>2 DEF ExportInv, AtHand
  <2> QED
    BY <2>1, <2>2, <2>3, <2>4 DEF PrinterStep
<1>6. /\ q \in Seq(Rows) /\ Len(q) <= BufferLen /\ \A k \in DOMAIN q : q[k] # << >>
  <2>1. CASE q = outQ
    BY <2>1 DEF ExportInv, ExportTypeOK, AtHand
  <2>2. CASE outQ # << >> /\ q = Tail(outQ)
    <3>1. /\ q \in Seq(Rows) /\ Len(q) = Len(outQ) - 1 /\ Len(outQ) \in Nat
          /\ \A k \in DOMAIN q : q[k] = outQ[k + 1] /\ k + 1 \in DOMAIN outQ
      BY <1>3, <2>2, HeadTailProperties, LenProperties
    <3>2. Len(outQ) <= BufferLen
      BY DEF ExportInv, ExportTypeOK
    <3> QED
      BY <3>1, <3>2, ExportAssumption DEF ExportInv, AtHand
  <2> QED
    BY <1>5, <2>1, <2>2
<1>7. ExportTypeOK'
  BY <1>1, <1>2, <1>4, <1>5, <1>6 DEF ExportInv, ExportTypeOK, PrinterType
<1>8. AtHand'
  BY <1>1, <1>4, <1>5, <1>6 DEF ExportInv, AtHand
<1>9. EndsInOrder'
  BY <1>1, <1>2, <1>4, <1>5 DEF ExportInv, EndsInOrder
<1> QED
  BY <1>7, <1>8, <1>9 DEF ExportInv

LEMMA StepKeeps ==
    ASSUME ExportInv, [ExportNext]_exportVars
    PROVE  ExportInv'
<1>1. CASE UNCHANGED exportVars
  <2>1. Rows' = Rows
    BY <1>1 DEF exportVars, Rows
  <2> QED
    BY <1>1, <2>1 DEF exportVars, readVars, ExportInv, ExportTypeOK, AtHand, EndsInOrder
<1> QED
  BY <1>1, MainKeeps, WorkKeeps, PrinterKeeps DEF ExportNext

LEMMA ExportInvHolds == ExportSpec => []ExportInv
BY NothingAtFirst, StepKeeps, PTL DEF ExportSpec

\* Types: what is at hand, passed on or printed are lines of the table, and
\* neither channel is ever over its length.
THEOREM ExportTypesCorrect == ExportSpec => []ExportTypeOK
<1>1. ExportInv => ExportTypeOK
  BY DEF ExportInv
<1> QED
  BY <1>1, ExportInvHolds, PTL

-----------------------------------------------------------------------------
(* How rows move, whatever else a step does. *)

Hands == [w \in Worker |-> worker[w].rows]
Printing == printer.rows

WantedRow(asked, i) ==
    \/ asked.lines[i].kind = "active"
    \/ asked.lines[i].kind = "redirect" /\ asked.redirects

Reads == next' = next + 1 /\ next + 1 \in DOMAIN job.lines
Places == <<rowQ, Hands, outQ, Printing, out>>

Stays ==
    /\ next' = next \/ (Reads /\ ~WantedRow(job, next + 1))
    /\ UNCHANGED <<batch, last, parcel, Places>>
RowTaken ==
    /\ Reads /\ WantedRow(job, next + 1) /\ ~job.by_work
    /\ parcel = << >> /\ parcel' = <<next + 1>>
    /\ UNCHANGED <<batch, last, Places>>
GroupEnds == NewGroup(job.lines[next + 1]) /\ batch # << >>
GroupGoesOn ==
    /\ Reads /\ WantedRow(job, next + 1) /\ job.by_work
    /\ ~GroupEnds /\ batch' = Append(batch, next + 1)
    /\ last' = job.lines[next + 1].group
    /\ UNCHANGED <<parcel, Places>>
GroupBegins ==
    /\ Reads /\ WantedRow(job, next + 1) /\ job.by_work
    /\ GroupEnds /\ parcel = << >> /\ parcel' = batch /\ batch' = <<next + 1>>
    /\ last' = job.lines[next + 1].group
    /\ UNCHANGED Places
BatchSent ==
    /\ next' = next /\ next = Len(job.lines)
    /\ parcel = << >> /\ parcel' = batch /\ batch' = << >>
    /\ UNCHANGED <<last, Places>>
ParcelSent ==
    /\ parcel' = << >> /\ rowQ' = Append(rowQ, parcel)
    /\ UNCHANGED <<next, batch, last, Hands, outQ, Printing, out>>
ParcelReceived(w) ==
    /\ rowQ # << >> /\ rowQ' = Tail(rowQ)
    /\ Hands[w] = << >> /\ Hands' = [Hands EXCEPT ![w] = Head(rowQ)]
    /\ UNCHANGED <<next, batch, last, parcel, outQ, Printing, out>>
OutputSent(w) ==
    /\ outQ' = Append(outQ, Hands[w]) /\ Hands' = [Hands EXCEPT ![w] = << >>]
    /\ UNCHANGED <<next, batch, last, parcel, rowQ, Printing, out>>
OutputReceived ==
    /\ outQ # << >> /\ outQ' = Tail(outQ)
    /\ Printing = << >> /\ Printing' = Head(outQ)
    /\ UNCHANGED <<next, batch, last, parcel, rowQ, Hands, out>>
RowPrinted ==
    /\ Printing # << >> /\ Printing' = Tail(Printing)
    /\ out' = Append(out, Head(Printing))
    /\ UNCHANGED <<next, batch, last, parcel, rowQ, Hands, outQ>>

Move ==
    \/ Stays \/ RowTaken \/ GroupGoesOn \/ GroupBegins \/ BatchSent \/ ParcelSent
    \/ (\E w \in Worker : ParcelReceived(w) \/ OutputSent(w))
    \/ OutputReceived \/ RowPrinted

LEMMA WantedIs ==
    ASSUME ExportInv, NEW i \in DOMAIN job.lines
    PROVE  Wanted(job.lines[i]) <=> WantedRow(job, i)
BY DEF Wanted, WantedRow

LEMMA MainMoves ==
    ASSUME ExportInv, MainStep
    PROVE  job' = job /\ Move
<1>1. job' = job /\ UNCHANGED <<worker, outQ, printer, out>>
  BY DEF MainStep, ReadBad, ReadSkipped, ReadRow, ReadGroupRow, SendRows, EndOfInput, Quit,
         threadVars
<1>2. UNCHANGED <<Hands, outQ, Printing, out>>
  BY <1>1 DEF Hands, Printing
<1>3. main = "reading" => parcel = << >>
  BY DEF ExportInv, ExportTypeOK
<1>4. Reading => next + 1 \in DOMAIN job.lines /\ (Wanted(Row) <=> WantedRow(job, next + 1))
  <2>1. next < Len(job.lines) => next + 1 \in DOMAIN job.lines
    BY Lines DEF ExportInv, ExportTypeOK
  <2> QED
    BY <2>1, WantedIs DEF Reading, Row
<1>5. CASE ReadBad
  <2>1. Stays
    BY <1>2, <1>5 DEF ReadBad, readVars, threadVars, Stays, Places
  <2> QED
    BY <1>1, <2>1 DEF Move
<1>6. CASE ReadSkipped
  <2>1. Stays
    BY <1>2, <1>4, <1>6 DEF ReadSkipped, threadVars, Stays, Reads, Places
  <2> QED
    BY <1>1, <2>1 DEF Move
<1>7. CASE ReadRow
  <2>1. RowTaken
    BY <1>2, <1>3, <1>4, <1>7 DEF ReadRow, Reading, threadVars, RowTaken, Reads, Places
  <2> QED
    BY <1>1, <2>1 DEF Move
<1>8. CASE ReadGroupRow
  <2>1. /\ Reads /\ WantedRow(job, next + 1) /\ job.by_work /\ last' = job.lines[next + 1].group
        /\ UNCHANGED Places /\ parcel = << >>
        /\ IF GroupEnds THEN parcel' = batch /\ batch' = <<next + 1>>
           ELSE batch' = Append(batch, next + 1) /\ parcel' = parcel
    BY <1>2, <1>3, <1>4, <1>8
       DEF ReadGroupRow, Reading, threadVars, Reads, Places, GroupEnds, Row
  <2>2. GroupBegins \/ GroupGoesOn
    BY <2>1 DEF GroupBegins, GroupGoesOn
  <2> QED
    BY <1>1, <2>2 DEF Move
<1>9. CASE SendRows
  <2>1. ParcelSent
    BY <1>2, <1>9 DEF SendRows, readVars, ParcelSent
  <2> QED
    BY <1>1, <2>1 DEF Move
<1>10. CASE EndOfInput
  <2>1. BatchSent
    BY <1>2, <1>3, <1>10 DEF EndOfInput, threadVars, BatchSent, Places
  <2> QED
    BY <1>1, <2>1 DEF Move
<1>11. CASE Quit
  <2>1. Stays
    BY <1>2, <1>11 DEF Quit, readVars, threadVars, Stays, Places
  <2> QED
    BY <1>1, <2>1 DEF Move
<1> QED
  BY <1>5, <1>6, <1>7, <1>8, <1>9, <1>10, <1>11 DEF MainStep

LEMMA WorkMoves ==
    ASSUME ExportInv, NEW w \in Worker, Work(w)
    PROVE  job' = job /\ Move
<1>1. PICK t : Receives(w, t) \/ Sends(w, t) \/ GoesOn(w, t)
  BY WorkIs
<1>2. /\ t \in WorkerType /\ worker' = [worker EXCEPT ![w] = t]
      /\ UNCHANGED <<job, next, batch, last, parcel, printer, out>>
  BY <1>1 DEF Receives, Sends, GoesOn, MainVars, readVars
<1>3. UNCHANGED <<Printing, out>> /\ Hands[w] = worker[w].rows
  BY <1>2 DEF Printing, Hands
<1>4. Hands' = [Hands EXCEPT ![w] = t.rows]
  <2>1. PICK new : /\ new = worker' /\ new \in [Worker -> WorkerType]
                   /\ new[w] = t /\ \A v \in Worker : v # w => new[v] = worker[v]
    BY <1>2, WorkerIs
  <2> QED
    BY <2>1 DEF Hands
<1>5. CASE Receives(w, t)
  <2>1. ParcelReceived(w)
    BY <1>2, <1>3, <1>4, <1>5 DEF Receives, ParcelReceived, ExportInv, AtHand
  <2> QED
    BY <1>2, <2>1 DEF Move
<1>6. CASE Sends(w, t)
  <2>1. OutputSent(w)
    BY <1>2, <1>3, <1>4, <1>6 DEF Sends, OutputSent
  <2> QED
    BY <1>2, <2>1 DEF Move
<1>7. CASE GoesOn(w, t)
  <2>1. UNCHANGED <<rowQ, outQ>> /\ t.rows = Hands[w]
    BY <1>3, <1>7 DEF GoesOn
  <2>2. Hands' = Hands
    BY <1>4, <2>1 DEF Hands
  <2>3. Stays
    BY <1>2, <1>3, <2>1, <2>2 DEF Stays, Places
  <2> QED
    BY <1>2, <2>3 DEF Move
<1> QED
  BY <1>1, <1>5, <1>6, <1>7

LEMMA PrinterMoves ==
    ASSUME ExportInv, PrinterStep
    PROVE  job' = job /\ Move
<1>1. UNCHANGED <<job, next, batch, last, parcel, rowQ, Hands>>
  BY DEF PrinterStep, ReceiveOutput, PrintRow, PrintFails, OutputEnd, MainVars, readVars, Hands
<1>2. printer \in PrinterType
  BY DEF ExportInv, ExportTypeOK, PrinterType
<1>3. CASE ReceiveOutput
  <2>1. OutputReceived
    BY <1>1, <1>3 DEF ReceiveOutput, PrinterAt, OutputReceived, Printing, ExportInv, AtHand
  <2> QED
    BY <1>1, <2>1 DEF Move
<1>4. CASE PrintRow
  <2>1. RowPrinted
    BY <1>1, <1>4 DEF PrintRow, PrinterAt, RowPrinted, Printing, ExportInv, AtHand
  <2> QED
    BY <1>1, <2>1 DEF Move
<1>5. CASE PrintFails \/ OutputEnd
  <2>1. printer'.rows = printer.rows /\ UNCHANGED <<outQ, out>>
    BY <1>2, <1>5 DEF PrintFails, OutputEnd, PrinterType
  <2>2. Stays
    BY <1>1, <2>1 DEF Stays, Places, Printing
  <2> QED
    BY <1>1, <2>2 DEF Move
<1> QED
  BY <1>3, <1>4, <1>5 DEF PrinterStep

LEMMA StepMoves ==
    ASSUME ExportInv, [ExportNext]_exportVars
    PROVE  job' = job /\ Move
<1>1. CASE UNCHANGED exportVars
  <2>1. job' = job /\ Stays
    BY <1>1 DEF exportVars, readVars, Stays, Places, Hands, Printing
  <2> QED
    BY <2>1 DEF Move
<1> QED
  BY <1>1, MainMoves, WorkMoves, PrinterMoves DEF ExportNext

-----------------------------------------------------------------------------
(* A row that was read and is wanted is in one place, once. *)

Placed(i) ==
    \/ i \in ToSet(batch) \/ i \in ToSet(parcel) \/ InSome(rowQ, i) \/ InSome(Hands, i)
    \/ InSome(outQ, i) \/ i \in ToSet(Printing) \/ i \in ToSet(out)

Apart(i) ==
    /\ i \in ToSet(batch) => ~(\/ i \in ToSet(parcel) \/ InSome(rowQ, i) \/ InSome(Hands, i)
                               \/ InSome(outQ, i) \/ i \in ToSet(Printing) \/ i \in ToSet(out))
    /\ i \in ToSet(parcel) => ~(\/ InSome(rowQ, i) \/ InSome(Hands, i) \/ InSome(outQ, i)
                                \/ i \in ToSet(Printing) \/ i \in ToSet(out))
    /\ InSome(rowQ, i) => ~(\/ InSome(Hands, i) \/ InSome(outQ, i)
                            \/ i \in ToSet(Printing) \/ i \in ToSet(out))
    /\ InSome(Hands, i) => ~(InSome(outQ, i) \/ i \in ToSet(Printing) \/ i \in ToSet(out))
    /\ InSome(outQ, i) => ~(i \in ToSet(Printing) \/ i \in ToSet(out))
    /\ i \in ToSet(Printing) => i \notin ToSet(out)
    /\ InOne(rowQ, i) /\ InOne(Hands, i) /\ InOne(outQ, i)

InPlace(i) == Apart(i) /\ (Placed(i) <=> i <= next /\ WantedRow(job, i))

PlacesInv == \A i \in DOMAIN job.lines : InPlace(i)

LEMMA PlacesAtFirst ==
    ASSUME ExportInit
    PROVE  PlacesInv
<1> SUFFICES ASSUME NEW i \in DOMAIN job.lines
             PROVE  InPlace(i)
  BY DEF PlacesInv
<1>1. i \in Nat \ {0} /\ ~(i <= next)
  BY NothingAtFirst, Lines DEF ExportInv, ExportInit
<1>2. ~InSome(<< >>, i) /\ InOne(<< >>, i)
  BY DEF InSome, InOne
<1>3. /\ i \notin ToSet(batch) /\ i \notin ToSet(parcel) /\ i \notin ToSet(Printing)
      /\ i \notin ToSet(out)
  BY NoRows DEF ExportInit, Printing, Idle
<1>4. ~InSome(Hands, i) /\ InOne(Hands, i)
  <2>1. \A w \in Worker : Hands[w] = << >>
    BY DEF ExportInit, Hands, Idle
  <2> QED
    BY <2>1, NoRows DEF InSome, InOne, Hands
<1>5. ~InSome(rowQ, i) /\ InOne(rowQ, i) /\ ~InSome(outQ, i) /\ InOne(outQ, i)
  BY <1>2 DEF ExportInit
<1> QED
  BY <1>1, <1>3, <1>4, <1>5 DEF InPlace, Apart, Placed

\* The types of what moves.
LEMMA MovingTypes ==
    ASSUME ExportTypeOK
    PROVE  /\ batch \in Rows /\ parcel \in Rows /\ out \in Rows /\ Printing \in Rows
           /\ rowQ \in Seq(Rows) /\ outQ \in Seq(Rows)
           /\ next \in Nat /\ DOMAIN Hands = Worker
           /\ \A w \in Worker : Hands[w] \in Rows
<1>1. next \in Nat
  BY Lines DEF ExportTypeOK
<1>2. \A w \in Worker : worker[w].rows \in Rows
  BY DEF ExportTypeOK
<1> QED
  BY <1>1, <1>2 DEF ExportTypeOK, Hands, Printing

LEMMA PlacesStep ==
    ASSUME ExportInv, job' = job, Move, NEW i \in DOMAIN job.lines, InPlace(i), Distinct(Printing)
    PROVE  InPlace(i)'
<1>1. /\ batch \in Rows /\ parcel \in Rows /\ out \in Rows /\ Printing \in Rows
      /\ rowQ \in Seq(Rows) /\ outQ \in Seq(Rows) /\ next \in Nat /\ DOMAIN Hands = Worker
  BY MovingTypes DEF ExportInv
<1>2. i \in Nat
  BY Lines DEF ExportInv
<1>3. ToSet(<< >>) = {}
  BY NoRows
<1>4. WantedRow(job', i) <=> WantedRow(job, i)
  OBVIOUS
<1>5. Reads => (i <= next' <=> i <= next \/ i = next + 1) /\ ~(next + 1 <= next)
  BY <1>1, <1>2 DEF Reads
<1>6. Reads /\ WantedRow(job, next + 1) =>
         /\ i <= next' /\ WantedRow(job, i) <=> i = next + 1 \/ (i <= next /\ WantedRow(job, i))
         /\ i = next + 1 => ~Placed(i)
  BY <1>5 DEF InPlace
<1>7. CASE Stays
  <2>1. i <= next' /\ WantedRow(job, i) <=> i <= next /\ WantedRow(job, i)
    BY <1>5, <1>7 DEF Stays
  <2> QED
    BY <1>4, <1>7, <2>1 DEF Stays, Places, InPlace, Apart, Placed
<1>8. CASE RowTaken
  <2>1. ToSet(parcel') = {next + 1} /\ ToSet(parcel) = {}
    BY <1>3, <1>8, OneRow DEF RowTaken, Reads
  <2>2. UNCHANGED <<batch, Places>>
    BY <1>8 DEF RowTaken
  <2> QED
    BY <1>4, <1>6, <1>8, <2>1, <2>2 DEF RowTaken, Places, InPlace, Apart, Placed
<1>9. CASE GroupGoesOn
  <2>1. ToSet(batch') = ToSet(batch) \cup {next + 1}
    BY <1>1, <1>9, LongerRows DEF GroupGoesOn, Reads, Rows
  <2>2. UNCHANGED <<parcel, Places>>
    BY <1>9 DEF GroupGoesOn
  <2> QED
    BY <1>4, <1>6, <1>9, <2>1, <2>2 DEF GroupGoesOn, Places, InPlace, Apart, Placed
<1>10. CASE GroupBegins
  <2>1. ToSet(batch') = {next + 1} /\ parcel' = batch /\ ToSet(parcel) = {}
    BY <1>3, <1>10, OneRow DEF GroupBegins, Reads
  <2>2. UNCHANGED Places
    BY <1>10 DEF GroupBegins
  <2> QED
    BY <1>4, <1>6, <1>10, <2>1, <2>2 DEF GroupBegins, Places, InPlace, Apart, Placed
<1>11. CASE BatchSent
  <2>1. ToSet(batch') = {} /\ parcel' = batch /\ ToSet(parcel) = {}
    BY <1>3, <1>11 DEF BatchSent
  <2>2. UNCHANGED <<next, Places>>
    BY <1>11 DEF BatchSent
  <2> QED
    BY <1>4, <2>1, <2>2 DEF Places, InPlace, Apart, Placed
<1>12. CASE ParcelSent
  <2>1. /\ ToSet(parcel') = {}
        /\ InSome(rowQ', i) <=> InSome(rowQ, i) \/ i \in ToSet(parcel)
        /\ InOne(rowQ, i) /\ ~(InSome(rowQ, i) /\ i \in ToSet(parcel)) => InOne(rowQ', i)
    BY <1>1, <1>3, <1>12, QueueSend DEF ParcelSent
  <2>2. UNCHANGED <<next, batch, Hands, outQ, Printing, out>>
    BY <1>12 DEF ParcelSent
  <2> QED
    BY <1>4, <2>1, <2>2 DEF InPlace, Apart, Placed
<1>13. ASSUME NEW w \in Worker, ParcelReceived(w)
       PROVE  InPlace(i)'
  <2>1. PICK h : h = Head(rowQ)
    OBVIOUS
  <2>2. /\ InSome(rowQ, i) <=> i \in ToSet(h) \/ InSome(rowQ', i)
        /\ InOne(rowQ, i) => InOne(rowQ', i) /\ ~(i \in ToSet(h) /\ InSome(rowQ', i))
    BY <1>1, <1>13, <2>1, QueueReceive DEF ParcelReceived
  <2>3. /\ InSome(Hands', i) <=> InSome(Hands, i) \/ i \in ToSet(h)
        /\ InOne(Hands, i) /\ ~(InSome(Hands, i) /\ i \in ToSet(h)) => InOne(Hands', i)
    <3>1. PICK f, g : f = Hands /\ g = Hands'
      OBVIOUS
    <3>2. DOMAIN f = Worker /\ g = [f EXCEPT ![w] = h] /\ i \notin ToSet(f[w])
      BY <1>1, <1>3, <1>13, <2>1, <3>1 DEF ParcelReceived
    <3> QED
      BY <3>1, <3>2, HandChanges
  <2>4. UNCHANGED <<next, batch, parcel, outQ, Printing, out>>
    BY <1>13 DEF ParcelReceived
  <2> QED
    BY <1>4, <2>2, <2>3, <2>4 DEF InPlace, Apart, Placed
<1>14. ASSUME NEW w \in Worker, OutputSent(w)
       PROVE  InPlace(i)'
  <2>1. PICK f, g, h : f = Hands /\ g = Hands' /\ h = Hands[w]
    OBVIOUS
  <2>2. h \in Rows
    BY <2>1, MovingTypes DEF ExportInv
  <2>3. DOMAIN f = Worker /\ g = [f EXCEPT ![w] = << >>] /\ f[w] = h
    BY <1>1, <1>14, <2>1 DEF OutputSent
  <2>4. /\ InOne(f, i) => (i \in ToSet(h) => ~InSome(g, i))
        /\ i \notin ToSet(h) => (InSome(g, i) <=> InSome(f, i))
        /\ InOne(f, i) => InOne(g, i)
    BY <1>3, <2>3, HandChanges
  <2>5. i \in ToSet(h) => InSome(f, i)
    BY <2>3 DEF InSome
  <2>6. /\ InSome(outQ', i) <=> InSome(outQ, i) \/ i \in ToSet(h)
        /\ InOne(outQ, i) /\ ~(InSome(outQ, i) /\ i \in ToSet(h)) => InOne(outQ', i)
    BY <1>1, <1>14, <2>1, <2>2, QueueSend DEF OutputSent
  <2>7. UNCHANGED <<next, batch, parcel, rowQ, Printing, out>>
    BY <1>14 DEF OutputSent
  <2> QED
    BY <1>4, <2>1, <2>4, <2>5, <2>6, <2>7 DEF InPlace, Apart, Placed
<1>15. CASE OutputReceived
  <2>1. PICK h : h = Head(outQ)
    OBVIOUS
  <2>2. /\ InSome(outQ, i) <=> i \in ToSet(h) \/ InSome(outQ', i)
        /\ InOne(outQ, i) => InOne(outQ', i) /\ ~(i \in ToSet(h) /\ InSome(outQ', i))
    BY <1>1, <1>15, <2>1, QueueReceive DEF OutputReceived
  <2>3. Printing' = h /\ ToSet(Printing) = {} /\ UNCHANGED <<next, batch, parcel, rowQ, Hands, out>>
    BY <1>3, <1>15, <2>1 DEF OutputReceived
  <2> QED
    BY <1>4, <2>2, <2>3 DEF InPlace, Apart, Placed
<1>16. CASE RowPrinted
  <2>1. /\ i \in ToSet(Printing) <=> i = Head(Printing) \/ i \in ToSet(Printing')
        /\ ~(i = Head(Printing) /\ i \in ToSet(Printing'))
        /\ Head(Printing) \in DOMAIN job.lines
    BY <1>1, <1>16, ShorterRows DEF RowPrinted, Rows
  <2>2. i \in ToSet(out') <=> i = Head(Printing) \/ i \in ToSet(out)
    BY <1>1, <1>16, <2>1, LongerRows DEF RowPrinted, Rows
  <2>3. UNCHANGED <<next, batch, parcel, rowQ, Hands, outQ>>
    BY <1>16 DEF RowPrinted
  <2> QED
    BY <1>4, <2>1, <2>2, <2>3 DEF InPlace, Apart, Placed
<1> QED
  BY <1>7, <1>8, <1>9, <1>10, <1>11, <1>12, <1>13, <1>14, <1>15, <1>16 DEF Move

-----------------------------------------------------------------------------
(* No sequence of rows holds one twice. *)

AllDistinct ==
    /\ Distinct(batch) /\ Distinct(parcel) /\ Distinct(Printing) /\ Distinct(out)
    /\ \A k \in DOMAIN rowQ : Distinct(rowQ[k])
    /\ \A w \in Worker : Distinct(Hands[w])
    /\ \A k \in DOMAIN outQ : Distinct(outQ[k])

\* What is passed on was in the queue, and what is in the queue was passed on.
LEMMA QueueParts ==
    ASSUME NEW T, NEW q \in Seq(T)
    PROVE  /\ \A s \in T : \A k \in DOMAIN Append(q, s) :
                 Append(q, s)[k] = s \/ \E l \in DOMAIN q : Append(q, s)[k] = q[l]
           /\ q # << >> => /\ \E l \in DOMAIN q : Head(q) = q[l]
                           /\ \A k \in DOMAIN Tail(q) : \E l \in DOMAIN q : Tail(q)[k] = q[l]
<1>1. ASSUME NEW s \in T, NEW k \in DOMAIN Append(q, s)
      PROVE  Append(q, s)[k] = s \/ \E l \in DOMAIN q : Append(q, s)[k] = q[l]
  <2>1. PICK t : t = Append(q, s)
    OBVIOUS
  <2>2. /\ DOMAIN t = 1 .. Len(q) + 1 /\ Len(q) \in Nat /\ DOMAIN q = 1 .. Len(q)
        /\ t[Len(q) + 1] = s /\ \A l \in 1 .. Len(q) : t[l] = q[l]
    BY <2>1, AppendProperties, LenProperties
  <2> QED
    BY <2>1, <2>2
<1>2. ASSUME q # << >>
      PROVE  /\ \E l \in DOMAIN q : Head(q) = q[l]
             /\ \A k \in DOMAIN Tail(q) : \E l \in DOMAIN q : Tail(q)[k] = q[l]
  <2>1. PICK t : t = Tail(q)
    OBVIOUS
  <2>2. /\ Head(q) = q[1] /\ Len(q) \in Nat \ {0} /\ DOMAIN q = 1 .. Len(q)
        /\ DOMAIN t = 1 .. Len(q) - 1 /\ \A k \in 1 .. Len(q) - 1 : t[k] = q[k + 1]
    BY <1>2, <2>1, HeadTailProperties, LenProperties, EmptySeq
  <2>3. 1 \in DOMAIN q /\ \A k \in DOMAIN t : k + 1 \in DOMAIN q /\ t[k] = q[k + 1]
    BY <2>2
  <2> QED
    BY <2>1, <2>2, <2>3
<1> QED
  BY <1>1, <1>2

LEMMA DistinctStep ==
    ASSUME ExportInv, job' = job, Move, PlacesInv, AllDistinct
    PROVE  AllDistinct'
<1>1. /\ batch \in Rows /\ parcel \in Rows /\ out \in Rows /\ Printing \in Rows
      /\ rowQ \in Seq(Rows) /\ outQ \in Seq(Rows) /\ next \in Nat /\ DOMAIN Hands = Worker
  BY MovingTypes DEF ExportInv
<1>2. Distinct(<< >>)
  BY NoRows
<1>3. CASE Stays
  BY <1>3 DEF Stays, Places, AllDistinct
<1>4. CASE RowTaken
  <2>1. Distinct(parcel')
    BY <1>4, OneRow DEF RowTaken
  <2> QED
    BY <1>4, <2>1 DEF RowTaken, Places, AllDistinct
<1>5. CASE GroupGoesOn
  <2>1. next + 1 \in DOMAIN job.lines /\ ~(next + 1 <= next)
    BY <1>1, <1>5 DEF GroupGoesOn, Reads
  <2>2. next + 1 \notin ToSet(batch)
    BY <2>1 DEF PlacesInv, InPlace, Placed
  <2>3. Distinct(batch')
    BY <1>1, <1>5, <2>1, <2>2, LongerRows DEF GroupGoesOn, Rows, AllDistinct
  <2> QED
    BY <1>5, <2>3 DEF GroupGoesOn, Places, AllDistinct
<1>6. CASE GroupBegins
  <2>1. Distinct(batch')
    BY <1>6, OneRow DEF GroupBegins
  <2> QED
    BY <1>6, <2>1 DEF GroupBegins, Places, AllDistinct
<1>7. CASE BatchSent
  BY <1>2, <1>7 DEF BatchSent, Places, AllDistinct
<1>8. CASE ParcelSent
  <2>1. \A k \in DOMAIN rowQ' : Distinct(rowQ'[k])
    BY <1>1, <1>8, QueueParts DEF ParcelSent, AllDistinct
  <2> QED
    BY <1>2, <1>8, <2>1 DEF ParcelSent, AllDistinct
<1>9. ASSUME NEW w \in Worker, ParcelReceived(w)
      PROVE  AllDistinct'
  <2>1. Distinct(Head(rowQ)) /\ \A k \in DOMAIN rowQ' : Distinct(rowQ'[k])
    BY <1>1, <1>9, QueueParts DEF ParcelReceived, AllDistinct
  <2>2. \A v \in Worker : Hands'[v] = Hands[v] \/ Hands'[v] = Head(rowQ)
    BY <1>1, <1>9 DEF ParcelReceived
  <2>3. \A v \in Worker : Distinct(Hands'[v])
    BY <2>1, <2>2 DEF AllDistinct
  <2> QED
    BY <1>9, <2>1, <2>3 DEF ParcelReceived, AllDistinct
<1>10. ASSUME NEW w \in Worker, OutputSent(w)
       PROVE  AllDistinct'
  <2>1. Hands[w] \in Rows /\ Distinct(Hands[w])
    BY MovingTypes DEF ExportInv, AllDistinct
  <2>2. \A k \in DOMAIN outQ' : Distinct(outQ'[k])
    BY <1>1, <1>10, <2>1, QueueParts DEF OutputSent, AllDistinct
  <2>3. \A v \in Worker : Hands'[v] = Hands[v] \/ Hands'[v] = << >>
    BY <1>1, <1>10 DEF OutputSent
  <2>4. \A v \in Worker : Distinct(Hands'[v])
    BY <1>2, <2>3 DEF AllDistinct
  <2> QED
    BY <1>10, <2>2, <2>4 DEF OutputSent, AllDistinct
<1>11. CASE OutputReceived
  <2>1. Distinct(Printing') /\ \A k \in DOMAIN outQ' : Distinct(outQ'[k])
    BY <1>1, <1>11, QueueParts DEF OutputReceived, AllDistinct
  <2> QED
    BY <1>11, <2>1 DEF OutputReceived, AllDistinct
<1>12. CASE RowPrinted
  <2>1. /\ Distinct(Printing') /\ Head(Printing) \in DOMAIN job.lines
        /\ Head(Printing) \in ToSet(Printing)
    BY <1>1, <1>12, ShorterRows DEF RowPrinted, AllDistinct, Rows
  <2>2. Head(Printing) \notin ToSet(out)
    BY <2>1 DEF PlacesInv, InPlace, Apart
  <2>3. Distinct(out')
    BY <1>1, <1>12, <2>1, <2>2, LongerRows DEF RowPrinted, Rows, AllDistinct
  <2> QED
    BY <1>12, <2>1, <2>3 DEF RowPrinted, AllDistinct
<1> QED
  BY <1>3, <1>4, <1>5, <1>6, <1>7, <1>8, <1>9, <1>10, <1>11, <1>12 DEF Move

DeliveryInv == ExportInv /\ PlacesInv /\ AllDistinct

LEMMA DeliveryAtFirst ==
    ASSUME ExportInit
    PROVE  DeliveryInv
<1>1. AllDistinct
  BY NoRows DEF ExportInit, AllDistinct, Hands, Printing, Idle
<1> QED
  BY <1>1, NothingAtFirst, PlacesAtFirst DEF DeliveryInv

LEMMA DeliveryStep ==
    ASSUME DeliveryInv, [ExportNext]_exportVars
    PROVE  DeliveryInv'
<1>1. ExportInv' /\ job' = job /\ Move
  BY StepKeeps, StepMoves DEF DeliveryInv
<1>2. \A i \in DOMAIN job.lines : InPlace(i)'
  BY <1>1, PlacesStep DEF DeliveryInv, PlacesInv, AllDistinct
<1>3. PlacesInv'
  BY <1>1, <1>2 DEF PlacesInv
<1>4. AllDistinct'
  BY <1>1, DistinctStep DEF DeliveryInv
<1> QED
  BY <1>1, <1>3, <1>4 DEF DeliveryInv

LEMMA DeliveryInvHolds == ExportSpec => []DeliveryInv
BY DeliveryAtFirst, DeliveryStep, PTL DEF ExportSpec

\* No row is printed twice, and none that was to be skipped: what moves a row
\* takes it from one place to another.
THEOREM RowsPrintedOnce == ExportSpec => []PrintedOnce
<1>1. ASSUME DeliveryInv
      PROVE  PrintedOnce
  <2>1. \A p, q \in DOMAIN out : p # q => out[p] # out[q]
    BY <1>1 DEF DeliveryInv, AllDistinct, Distinct
  <2>2. ASSUME NEW p \in DOMAIN out
        PROVE  Wanted(job.lines[out[p]])
    <3>1. out \in Seq(DOMAIN job.lines)
      BY <1>1, MovingTypes DEF DeliveryInv, ExportInv, Rows
    <3>2. out[p] \in DOMAIN job.lines /\ out[p] \in ToSet(out)
      BY <3>1, ElementOfSeq, LenProperties DEF ToSet
    <3> QED
      BY <1>1, <3>2, WantedIs DEF DeliveryInv, PlacesInv, InPlace, Placed
  <2> QED
    BY <2>1, <2>2 DEF PrintedOnce
<1> QED
  BY <1>1, DeliveryInvHolds, PTL

\* What is missing after an end in order is the rows of workers that panicked.
THEOREM MissingRowsAreTheDeads == ExportSpec => []MissingIsTheDeads
<1>1. ASSUME DeliveryInv
      PROVE  MissingIsTheDeads
  <2> SUFFICES ASSUME main = "ok", printer.at # "dead",
                      NEW i \in DOMAIN job.lines, Wanted(job.lines[i])
               PROVE  \/ i \in ToSet(out)
                      \/ \E w \in Worker : Dead(w) /\ i \in ToSet(worker[w].rows)
                      \/ AllDead /\ \E k \in DOMAIN rowQ : i \in ToSet(rowQ[k])
    BY DEF MissingIsTheDeads
  <2>1. ExportTypeOK /\ AtHand /\ EndsInOrder
    BY <1>1 DEF DeliveryInv, ExportInv
  <2>2. /\ next = Len(job.lines) /\ batch = << >> /\ parcel = << >>
        /\ outQ = << >> /\ Printing = << >>
        /\ \A w \in Worker : worker[w].at \in {"gone", "dead"}
    BY <2>1 DEF ExportTypeOK, AtHand, EndsInOrder, Printing
  <2>3. i <= next /\ WantedRow(job, i)
    BY <1>1, <2>1, <2>2, Lines, WantedIs DEF DeliveryInv
  <2>4. \/ i \in ToSet(batch) \/ i \in ToSet(parcel) \/ InSome(rowQ, i) \/ InSome(Hands, i)
        \/ InSome(outQ, i) \/ i \in ToSet(Printing) \/ i \in ToSet(out)
    BY <1>1, <2>3 DEF DeliveryInv, PlacesInv, InPlace, Placed
  <2>5. ToSet(<< >>) = {} /\ ~InSome(<< >>, i)
    BY NoRows DEF InSome
  <2>6. InSome(rowQ, i) \/ InSome(Hands, i) \/ i \in ToSet(out)
    BY <2>2, <2>4, <2>5
  <2>7. CASE InSome(rowQ, i)
    <3>1. rowQ # << >>
      BY <2>5, <2>7
    <3>2. AllDead
      BY <2>1, <2>2, <3>1 DEF EndsInOrder, AllDead, Dead
    <3> QED
      BY <2>7, <3>2 DEF InSome
  <2>8. CASE InSome(Hands, i)
    <3>1. PICK w \in Worker : i \in ToSet(worker[w].rows)
      BY <2>8 DEF InSome, Hands
    <3>2. worker[w].at # "gone"
      BY <2>1, <2>5, <3>1 DEF AtHand
    <3> QED
      BY <2>2, <3>1, <3>2 DEF Dead
  <2> QED
    BY <2>6, <2>7, <2>8
<1> QED
  BY <1>1, DeliveryInvHolds, PTL

-----------------------------------------------------------------------------
(* The rows of a work stay together. *)

\* Together, of a constant job.
TogetherIn(asked, i, j) ==
    \/ i = j
    \/ /\ asked.lines[i].group # NoGroup /\ asked.lines[j].group = asked.lines[i].group
       /\ \A k \in (i .. j) \cup (j .. i) :
             WantedRow(asked, k) => asked.lines[k].group = asked.lines[i].group

LEMMA TogetherIs ==
    ASSUME ExportInv, NEW i \in DOMAIN job.lines, NEW j \in DOMAIN job.lines
    PROVE  Together(i, j) <=> TogetherIn(job, i, j)
<1>1. \A k \in (i .. j) \cup (j .. i) : k \in DOMAIN job.lines
  BY Lines DEF ExportInv
<1>2. \A k \in (i .. j) \cup (j .. i) : Wanted(job.lines[k]) <=> WantedRow(job, k)
  BY <1>1, WantedIs
<1> QED
  BY <1>2 DEF Together, TogetherIn

LEMMA TogetherSymmetric ==
    ASSUME NEW asked, NEW i \in Nat, NEW j \in Nat, TogetherIn(asked, i, j)
    PROVE  TogetherIn(asked, j, i)
BY DEF TogetherIn

LEMMA TogetherTransitive ==
    ASSUME NEW asked, NEW i \in Nat, NEW j \in Nat, NEW k \in Nat,
           TogetherIn(asked, i, j), TogetherIn(asked, j, k)
    PROVE  TogetherIn(asked, i, k)
<1>1. CASE i = j \/ j = k
  BY <1>1
<1>2. CASE i # j /\ j # k
  <2>1. /\ asked.lines[i].group # NoGroup
        /\ asked.lines[j].group = asked.lines[i].group
        /\ asked.lines[k].group = asked.lines[i].group
    BY <1>2 DEF TogetherIn
  <2>2. ASSUME NEW m \in (i .. k) \cup (k .. i), WantedRow(asked, m)
        PROVE  asked.lines[m].group = asked.lines[i].group
    <3>1. m \in (i .. j) \cup (j .. i) \/ m \in (j .. k) \cup (k .. j)
      OBVIOUS
    <3>2. \A n \in (i .. j) \cup (j .. i) :
             WantedRow(asked, n) => asked.lines[n].group = asked.lines[i].group
      BY <1>2 DEF TogetherIn
    <3>3. \A n \in (j .. k) \cup (k .. j) :
             WantedRow(asked, n) => asked.lines[n].group = asked.lines[j].group
      BY <1>2 DEF TogetherIn
    <3> QED
      BY <2>1, <2>2, <3>1, <3>2, <3>3
  <2> QED
    BY <2>1, <2>2 DEF TogetherIn
<1> QED
  BY <1>1, <1>2

\* With a row, the rows together with it and no other.
Whole(asked, s) ==
    \A i \in ToSet(s), j \in DOMAIN asked.lines :
        WantedRow(asked, j) => (j \in ToSet(s) <=> TogetherIn(asked, i, j))

\* The same of the lines that were read, the last row being where it goes on from.
Open(asked, s, n, group) ==
    /\ \A i \in ToSet(s) : \A j \in 1 .. n :
          WantedRow(asked, j) => (j \in ToSet(s) <=> TogetherIn(asked, i, j))
    /\ \A i \in ToSet(s) : i \in 1 .. n /\ WantedRow(asked, i)
    /\ s # << >> =>
          \E m \in ToSet(s) : /\ group = asked.lines[m].group
                              /\ \A k \in m + 1 .. n : ~WantedRow(asked, k)
    /\ s = << >> /\ n < Len(asked.lines) => \A j \in 1 .. n : ~WantedRow(asked, j)

\* A line that is skipped.
LEMMA OpenStays ==
    ASSUME NEW asked, Len(asked.lines) \in Nat, NEW s, NEW n \in Nat, NEW group,
           Open(asked, s, n, group),
           n < Len(asked.lines), ~WantedRow(asked, n + 1)
    PROVE  Open(asked, s, n + 1, group)
<1>1. \A j \in 1 .. n + 1 : WantedRow(asked, j) => j \in 1 .. n
  OBVIOUS
<1>2. \A i \in ToSet(s) : i \in 1 .. n + 1 /\ WantedRow(asked, i)
  BY DEF Open
<1>3. s # << >> =>
         \E m \in ToSet(s) : /\ group = asked.lines[m].group
                             /\ \A k \in m + 1 .. n + 1 : ~WantedRow(asked, k)
  <2> SUFFICES ASSUME s # << >>
               PROVE  \E m \in ToSet(s) : /\ group = asked.lines[m].group
                                          /\ \A k \in m + 1 .. n + 1 : ~WantedRow(asked, k)
    OBVIOUS
  <2>1. PICK m \in ToSet(s) : /\ group = asked.lines[m].group
                              /\ \A k \in m + 1 .. n : ~WantedRow(asked, k)
    BY DEF Open
  <2>2. m \in 1 .. n
    BY DEF Open
  <2>3. \A k \in m + 1 .. n + 1 : ~WantedRow(asked, k)
    BY <2>1, <2>2
  <2> QED
    BY <2>1, <2>3
<1>4. s = << >> /\ n + 1 < Len(asked.lines) => \A j \in 1 .. n + 1 : ~WantedRow(asked, j)
  BY <1>1 DEF Open
<1> QED
  BY <1>1, <1>2, <1>3, <1>4 DEF Open

\* The row that begins a batch, when no row before it is together with it.
LEMMA OpenBegins ==
    ASSUME NEW asked, NEW n \in Nat, WantedRow(asked, n + 1),
           NEW s, ToSet(s) = {n + 1}, s # << >>,
           \A j \in 1 .. n : WantedRow(asked, j) => ~TogetherIn(asked, n + 1, j)
    PROVE  Open(asked, s, n + 1, asked.lines[n + 1].group)
<1>1. \A j \in 1 .. n + 1 : WantedRow(asked, j) => (j = n + 1 <=> TogetherIn(asked, n + 1, j))
  <2>1. TogetherIn(asked, n + 1, n + 1)
    BY DEF TogetherIn
  <2> QED
    BY <2>1
<1>2. n + 1 \in 1 .. n + 1 /\ (n + 1) + 1 .. n + 1 = {}
  OBVIOUS
<1> QED
  BY <1>1, <1>2 DEF Open

\* A row of the group of the last one.
LEMMA OpenGrows ==
    ASSUME NEW asked, NEW n \in Nat, NEW s, NEW t, NEW group,
           Open(asked, s, n, group), s # << >>,
           WantedRow(asked, n + 1),
           asked.lines[n + 1].group # NoGroup, asked.lines[n + 1].group = group,
           t # << >>, ToSet(t) = ToSet(s) \cup {n + 1}
    PROVE  Open(asked, t, n + 1, group)
<1>1. PICK m \in ToSet(s) : /\ group = asked.lines[m].group
                            /\ \A k \in m + 1 .. n : ~WantedRow(asked, k)
  BY DEF Open
<1>2. m \in 1 .. n /\ \A i \in ToSet(s) : i \in 1 .. n /\ WantedRow(asked, i)
  BY DEF Open
<1>3. TogetherIn(asked, m, n + 1)
  <2>1. \A k \in (m .. n + 1) \cup (n + 1 .. m) :
           WantedRow(asked, k) => k = m \/ k = n + 1
    BY <1>1, <1>2
  <2> QED
    BY <1>1, <2>1 DEF TogetherIn
<1>4. \A j \in 1 .. n : WantedRow(asked, j) => (j \in ToSet(s) <=> TogetherIn(asked, n + 1, j))
  <2> SUFFICES ASSUME NEW j \in 1 .. n, WantedRow(asked, j)
               PROVE  j \in ToSet(s) <=> TogetherIn(asked, n + 1, j)
    OBVIOUS
  <2>1. m \in Nat /\ n + 1 \in Nat /\ j \in Nat
    BY <1>2
  <2>2. j \in ToSet(s) <=> TogetherIn(asked, m, j)
    BY DEF Open
  <2>3. TogetherIn(asked, n + 1, m)
    BY <1>3, <2>1, TogetherSymmetric
  <2> QED
    BY <1>3, <2>1, <2>2, <2>3, TogetherTransitive
<1>5. ASSUME NEW i \in ToSet(s)
      PROVE  TogetherIn(asked, i, n + 1)
  <2>1. TogetherIn(asked, i, m)
    BY <1>2 DEF Open
  <2>2. i \in Nat /\ m \in Nat /\ n + 1 \in Nat
    <3>1. i \in 1 .. n /\ m \in 1 .. n
      BY <1>2
    <3> QED
      BY <3>1
  <2> QED
    BY <1>3, <2>1, <2>2, TogetherTransitive
<1>6. ASSUME NEW i \in ToSet(t), NEW j \in 1 .. n + 1, WantedRow(asked, j)
      PROVE  j \in ToSet(t) <=> TogetherIn(asked, i, j)
  <2>1. CASE i \in ToSet(s) /\ j = n + 1
    BY <1>5, <2>1
  <2>2. CASE i \in ToSet(s) /\ j \in 1 .. n
    <3>1. j # n + 1
      BY <2>2
    <3>2. j \in ToSet(s) <=> TogetherIn(asked, i, j)
      BY <1>6, <2>2 DEF Open
    <3> QED
      BY <3>1, <3>2
  <2>3. CASE i = n + 1 /\ j = n + 1
    BY <2>3 DEF TogetherIn
  <2>4. CASE i = n + 1 /\ j \in 1 .. n
    <3>1. j # n + 1
      BY <2>4
    <3> QED
      BY <1>4, <1>6, <2>4, <3>1
  <2>5. j = n + 1 \/ j \in 1 .. n
    OBVIOUS
  <2> QED
    BY <2>1, <2>2, <2>3, <2>4, <2>5
<1>7. \A i \in ToSet(t) : i \in 1 .. n + 1 /\ WantedRow(asked, i)
  BY <1>2
<1>8. \E l \in ToSet(t) : /\ group = asked.lines[l].group
                          /\ \A k \in l + 1 .. n + 1 : ~WantedRow(asked, k)
  <2>1. n + 1 \in ToSet(t) /\ (n + 1) + 1 .. n + 1 = {}
    OBVIOUS
  <2> QED
    BY <2>1
<1> QED
  BY <1>6, <1>7, <1>8 DEF Open

\* A row that begins a group is together with none before it.
LEMMA NothingBefore ==
    ASSUME NEW asked, NEW n \in Nat, NEW s, NEW group,
           Open(asked, s, n, group), s # << >>,
           WantedRow(asked, n + 1),
           asked.lines[n + 1].group = NoGroup \/ asked.lines[n + 1].group # group
    PROVE  /\ \A j \in 1 .. n : WantedRow(asked, j) => ~TogetherIn(asked, n + 1, j)
           /\ \A i \in ToSet(s), j \in Nat : j > n => ~TogetherIn(asked, i, j)
<1>1. PICK m \in ToSet(s) : /\ group = asked.lines[m].group
                            /\ \A k \in m + 1 .. n : ~WantedRow(asked, k)
  BY DEF Open
<1>2. /\ m \in 1 .. n /\ WantedRow(asked, m)
      /\ \A i \in ToSet(s) : i \in 1 .. n /\ TogetherIn(asked, i, m)
  BY DEF Open
<1>3. ASSUME NEW j \in 1 .. n, WantedRow(asked, j), TogetherIn(asked, n + 1, j)
      PROVE  FALSE
  <2>1. m \in j .. n + 1 /\ j # n + 1
    BY <1>1, <1>2, <1>3
  <2>2. /\ asked.lines[n + 1].group # NoGroup
        /\ \A k \in (n + 1 .. j) \cup (j .. n + 1) :
              WantedRow(asked, k) => asked.lines[k].group = asked.lines[n + 1].group
    BY <1>3, <2>1 DEF TogetherIn
  <2>3. asked.lines[m].group = asked.lines[n + 1].group
    BY <1>2, <2>1, <2>2
  <2> QED
    BY <1>1, <2>2, <2>3
<1>4. ASSUME NEW i \in ToSet(s), NEW j \in Nat, j > n, TogetherIn(asked, i, j)
      PROVE  FALSE
  <2>1. i \in 1 .. n /\ i # j /\ n + 1 \in i .. j
    BY <1>2, <1>4
  <2>2. /\ asked.lines[i].group # NoGroup
        /\ \A k \in (i .. j) \cup (j .. i) :
              WantedRow(asked, k) => asked.lines[k].group = asked.lines[i].group
    BY <1>4, <2>1 DEF TogetherIn
  <2>3. asked.lines[n + 1].group = asked.lines[i].group
    BY <2>1, <2>2
  <2>4. asked.lines[m].group = asked.lines[i].group
    BY <1>2 DEF TogetherIn
  <2> QED
    BY <1>1, <2>2, <2>3, <2>4
<1> QED
  BY <1>3, <1>4

\* The parcels: what is handed on from main to the printer.
WholeInv ==
    job.by_work =>
        /\ Open(job, batch, next, last) /\ Whole(job, parcel)
        /\ \A k \in DOMAIN rowQ : Whole(job, rowQ[k])
        /\ \A w \in Worker : Whole(job, Hands[w])
        /\ \A k \in DOMAIN outQ : Whole(job, outQ[k])

LEMMA WholeAtFirst ==
    ASSUME ExportInit
    PROVE  WholeInv
<1>1. ToSet(<< >>) = {}
  BY NoRows
<1>2. Whole(job, << >>)
  BY <1>1 DEF Whole
<1>3. Open(job, << >>, 0, NoGroup)
  BY <1>1 DEF Open
<1>4. \A w \in Worker : Hands[w] = << >>
  BY DEF ExportInit, Hands, Idle
<1> QED
  BY <1>2, <1>3, <1>4 DEF ExportInit, WholeInv

LEMMA WholeStep ==
    ASSUME ExportInv, job' = job, Move, WholeInv
    PROVE  WholeInv'
<1> SUFFICES ASSUME job.by_work
             PROVE  WholeInv'
  BY DEF WholeInv
<1>1. /\ batch \in Rows /\ parcel \in Rows /\ out \in Rows /\ Printing \in Rows
      /\ rowQ \in Seq(Rows) /\ outQ \in Seq(Rows) /\ next \in Nat /\ DOMAIN Hands = Worker
  BY MovingTypes DEF ExportInv
<1>2. Len(job.lines) \in Nat /\ DOMAIN job.lines = 1 .. Len(job.lines)
  BY Lines DEF ExportInv
<1>3. Whole(job, << >>) /\ ToSet(<< >>) = {}
  BY NoRows DEF Whole
<1>4. /\ Open(job, batch, next, last) /\ Whole(job, parcel)
      /\ \A k \in DOMAIN rowQ : Whole(job, rowQ[k])
      /\ \A w \in Worker : Whole(job, Hands[w])
      /\ \A k \in DOMAIN outQ : Whole(job, outQ[k])
  BY DEF WholeInv
<1>5. Reads => next < Len(job.lines)
  BY <1>1, <1>2 DEF Reads
<1>6. CASE Stays
  <2>1. Open(job, batch, next', last)
    <3>1. CASE next' = next
      BY <1>4, <3>1
    <3>2. CASE Reads /\ ~WantedRow(job, next + 1)
      BY <1>1, <1>2, <1>4, <1>5, <3>2, OpenStays DEF Reads
    <3> QED
      BY <1>6, <3>1, <3>2 DEF Stays
  <2> QED
    BY <1>4, <1>6, <2>1 DEF Stays, Places, WholeInv
<1>7. CASE RowTaken
  BY <1>7 DEF RowTaken
<1>8. CASE GroupGoesOn
  <2>1. /\ next' = next + 1 /\ next + 1 \in DOMAIN job.lines /\ WantedRow(job, next + 1)
        /\ last' = job.lines[next + 1].group
        /\ batch' = Append(batch, next + 1)
        /\ batch = << >> \/ (last' # NoGroup /\ last' = last)
    BY <1>8 DEF GroupGoesOn, Reads, GroupEnds, NewGroup
  <2>2. batch' # << >> /\ ToSet(batch') = ToSet(batch) \cup {next + 1}
    BY <1>1, <2>1, LongerRows DEF Rows
  <2>3. Open(job, batch', next + 1, last')
    <3>1. PICK s, t, g : s = batch /\ t = batch' /\ g = last'
      OBVIOUS
    <3>2. Open(job, s, next, last) /\ t # << >> /\ ToSet(t) = ToSet(s) \cup {next + 1}
      BY <1>4, <2>2, <3>1
    <3>3. CASE s = << >>
      <4>1. ToSet(t) = {next + 1}
        BY <1>3, <3>2, <3>3
      <4>2. \A j \in 1 .. next : ~WantedRow(job, j)
        BY <1>5, <1>8, <3>2, <3>3 DEF GroupGoesOn, Open
      <4>3. Open(job, t, next + 1, job.lines[next + 1].group)
        BY <1>1, <2>1, <3>2, <4>1, <4>2, OpenBegins
      <4> QED
        BY <2>1, <3>1, <4>3
    <3>4. CASE s # << >>
      <4>1. g = job.lines[next + 1].group /\ g # NoGroup /\ g = last
        BY <2>1, <3>1, <3>4
      <4>2. Open(job, t, next + 1, last)
        BY <1>1, <2>1, <3>2, <3>4, <4>1, OpenGrows
      <4> QED
        BY <3>1, <4>1, <4>2
    <3> QED
      BY <3>3, <3>4
  <2> QED
    BY <1>4, <1>8, <2>1, <2>3 DEF GroupGoesOn, Places, WholeInv
<1>9. CASE GroupBegins
  <2>1. /\ next' = next + 1 /\ next + 1 \in DOMAIN job.lines /\ WantedRow(job, next + 1)
        /\ last' = job.lines[next + 1].group
        /\ last' = NoGroup \/ last' # last
        /\ batch # << >> /\ batch' = <<next + 1>> /\ parcel' = batch
    BY <1>9 DEF GroupBegins, Reads, GroupEnds, NewGroup
  <2>2. /\ \A j \in 1 .. next : WantedRow(job, j) => ~TogetherIn(job, next + 1, j)
        /\ \A i \in ToSet(batch), j \in Nat : j > next => ~TogetherIn(job, i, j)
    BY <1>1, <1>4, <2>1, NothingBefore
  <2>3. ToSet(batch') = {next + 1} /\ batch' # << >>
    BY <2>1, OneRow
  <2>4. Open(job, batch', next + 1, job.lines[next + 1].group)
    <3>1. PICK t : t = batch'
      OBVIOUS
    <3>2. ToSet(t) = {next + 1} /\ t # << >>
      BY <2>3, <3>1
    <3>3. Open(job, t, next + 1, job.lines[next + 1].group)
      BY <1>1, <2>1, <2>2, <3>2, OpenBegins
    <3> QED
      BY <3>1, <3>3
  <2>5. Whole(job, batch)
    <3> SUFFICES ASSUME NEW i \in ToSet(batch), NEW j \in DOMAIN job.lines, WantedRow(job, j)
                 PROVE  j \in ToSet(batch) <=> TogetherIn(job, i, j)
      BY DEF Whole
    <3>1. CASE j <= next
      <4>1. j \in 1 .. next
        BY <1>1, <1>2, <3>1
      <4> QED
        BY <1>4, <4>1 DEF Open
    <3>2. CASE j > next
      <4>1. j \in Nat /\ j \notin 1 .. next
        BY <1>1, <1>2, <3>2
      <4>2. j \notin ToSet(batch)
        BY <1>4, <4>1 DEF Open
      <4> QED
        BY <2>2, <3>2, <4>1, <4>2
    <3> QED
      BY <1>1, <1>2, <3>1, <3>2
  <2> QED
    BY <1>4, <1>9, <2>1, <2>4, <2>5 DEF GroupBegins, Places, WholeInv
<1>10. CASE BatchSent
  <2>1. /\ next' = next /\ next = Len(job.lines) /\ parcel' = batch /\ batch' = << >>
        /\ UNCHANGED <<last, Places>>
    BY <1>10 DEF BatchSent
  <2>2. Whole(job, batch)
    BY <1>2, <1>4, <2>1 DEF Whole, Open
  <2>3. Open(job, << >>, next, last)
    BY <1>2, <1>3, <2>1 DEF Open
  <2> QED
    BY <1>4, <2>1, <2>2, <2>3 DEF Places, WholeInv
<1>11. CASE ParcelSent
  <2>1. \A k \in DOMAIN rowQ' : Whole(job, rowQ'[k])
    BY <1>1, <1>4, <1>11, QueueParts DEF ParcelSent
  <2> QED
    BY <1>3, <1>4, <1>11, <2>1 DEF ParcelSent, WholeInv
<1>12. ASSUME NEW w \in Worker, ParcelReceived(w)
       PROVE  WholeInv'
  <2>1. Whole(job, Head(rowQ)) /\ \A k \in DOMAIN rowQ' : Whole(job, rowQ'[k])
    BY <1>1, <1>4, <1>12, QueueParts DEF ParcelReceived
  <2>2. \A v \in Worker : Hands'[v] = Hands[v] \/ Hands'[v] = Head(rowQ)
    BY <1>1, <1>12 DEF ParcelReceived
  <2>3. \A v \in Worker : Whole(job, Hands'[v])
    BY <1>4, <2>1, <2>2
  <2> QED
    BY <1>4, <1>12, <2>1, <2>3 DEF ParcelReceived, WholeInv
<1>13. ASSUME NEW w \in Worker, OutputSent(w)
       PROVE  WholeInv'
  <2>1. Hands[w] \in Rows /\ Whole(job, Hands[w])
    BY <1>4, MovingTypes DEF ExportInv
  <2>2. \A k \in DOMAIN outQ' : Whole(job, outQ'[k])
    BY <1>1, <1>4, <1>13, <2>1, QueueParts DEF OutputSent
  <2>3. \A v \in Worker : Hands'[v] = Hands[v] \/ Hands'[v] = << >>
    BY <1>1, <1>13 DEF OutputSent
  <2>4. \A v \in Worker : Whole(job, Hands'[v])
    BY <1>3, <1>4, <2>3
  <2> QED
    BY <1>4, <1>13, <2>2, <2>4 DEF OutputSent, WholeInv
<1>14. CASE OutputReceived
  <2>1. \A k \in DOMAIN outQ' : Whole(job, outQ'[k])
    BY <1>1, <1>4, <1>14, QueueParts DEF OutputReceived
  <2> QED
    BY <1>4, <1>14, <2>1 DEF OutputReceived, WholeInv
<1>15. CASE RowPrinted
  BY <1>4, <1>15 DEF RowPrinted, WholeInv
<1> QED
  BY <1>6, <1>7, <1>8, <1>9, <1>10, <1>11, <1>12, <1>13, <1>14, <1>15 DEF Move

-----------------------------------------------------------------------------
(* The output. *)

\* What is together with a row that is printed is printed, or is being printed;
\* what is being printed is together, and with what was printed last.
Complete ==
    \A i \in ToSet(out) \cup ToSet(Printing), j \in DOMAIN job.lines :
        WantedRow(job, j) /\ TogetherIn(job, i, j) => j \in ToSet(out) \cup ToSet(Printing)
OneGroup == \A i, j \in ToSet(Printing) : TogetherIn(job, i, j)
LastGroup ==
    \A p, q \in DOMAIN out, i \in ToSet(Printing) :
        p < q /\ TogetherIn(job, out[p], i) => TogetherIn(job, out[p], out[q])
Contiguous ==
    \A p, q, r \in DOMAIN out :
        p < q /\ q < r /\ TogetherIn(job, out[p], out[r]) => TogetherIn(job, out[p], out[q])

PrintInv == job.by_work => Complete /\ OneGroup /\ LastGroup /\ Contiguous

LEMMA PrintAtFirst ==
    ASSUME ExportInit
    PROVE  PrintInv
<1>1. ToSet(<< >>) = {} /\ DOMAIN << >> = {}
  BY NoRows
<1>2. out = << >> /\ Printing = << >>
  BY DEF ExportInit, Printing, Idle
<1> QED
  BY <1>1, <1>2 DEF PrintInv, Complete, OneGroup, LastGroup, Contiguous

LEMMA PrintReceives ==
    ASSUME DeliveryInv, job' = job, WholeInv, PrintInv, job.by_work, OutputReceived
    PROVE  PrintInv'
<1>1. /\ Printing = << >> /\ ToSet(Printing) = {} /\ out' = out /\ Printing' = Head(outQ)
      /\ outQ # << >> /\ outQ \in Seq(Rows)
  BY NoRows, MovingTypes DEF OutputReceived, DeliveryInv, ExportInv
<1>2. PICK l \in DOMAIN outQ : Printing' = outQ[l]
  BY <1>1, QueueParts
<1>3. PICK h : h = outQ[l]
  OBVIOUS
<1>4. Whole(job, h)
  BY <1>3 DEF WholeInv
<1>5. h \in Rows
  BY <1>1, <1>3, ElementOfSeq, LenProperties
<1>6. ASSUME NEW i \in ToSet(h)
      PROVE  i \in DOMAIN job.lines /\ WantedRow(job, i) /\ i \notin ToSet(out)
  <2>1. i \in DOMAIN job.lines
    BY <1>5, <1>6, ElementOfSeq, LenProperties DEF ToSet, Rows
  <2>2. InSome(outQ, i)
    BY <1>3, <1>6 DEF InSome
  <2> QED
    BY <2>1, <2>2 DEF DeliveryInv, PlacesInv, InPlace, Apart, Placed
<1>7. Complete /\ Contiguous
  BY DEF PrintInv
<1>8. ASSUME NEW i \in ToSet(out) \cup ToSet(h), NEW j \in DOMAIN job.lines,
             WantedRow(job, j), TogetherIn(job, i, j)
      PROVE  j \in ToSet(out) \cup ToSet(h)
  BY <1>1, <1>4, <1>7, <1>8 DEF Complete, Whole
<1>9. \A i, j \in ToSet(h) : TogetherIn(job, i, j)
  BY <1>4, <1>6 DEF Whole
<1>10. ASSUME NEW p \in DOMAIN out, NEW i \in ToSet(h), TogetherIn(job, out[p], i)
       PROVE  FALSE
  <2>1. out[p] \in ToSet(out)
    BY DEF ToSet
  <2> QED
    BY <1>1, <1>6, <1>7, <1>10, <2>1 DEF Complete
<1>11. Complete'
  BY <1>1, <1>2, <1>3, <1>8 DEF Complete
<1>12. OneGroup'
  BY <1>2, <1>3, <1>9 DEF OneGroup
<1>13. LastGroup'
  BY <1>1, <1>2, <1>3, <1>10 DEF LastGroup
<1>14. Contiguous'
  BY <1>1, <1>7 DEF Contiguous
<1> QED
  BY <1>11, <1>12, <1>13, <1>14 DEF PrintInv

LEMMA PrintPrints ==
    ASSUME ExportInv, job' = job, PrintInv, job.by_work, RowPrinted
    PROVE  PrintInv'
<1>1. PICK s, t, o, n, r :
         s = Printing /\ t = Printing' /\ o = out /\ n = out' /\ r = Head(Printing)
  OBVIOUS
<1>2. o \in Seq(DOMAIN job.lines) /\ s \in Seq(DOMAIN job.lines)
  BY <1>1, MovingTypes DEF ExportInv, Rows
<1>3. s # << >> /\ t = Tail(s) /\ n = Append(o, r) /\ r = Head(s)
  BY <1>1 DEF RowPrinted
<1>4. r \in DOMAIN job.lines /\ ToSet(s) = {r} \cup ToSet(t)
  BY <1>2, <1>3, ShorterRows
<1>5. /\ Len(o) \in Nat /\ DOMAIN o = 1 .. Len(o) /\ DOMAIN n = 1 .. Len(o) + 1
      /\ n[Len(o) + 1] = r /\ \A k \in 1 .. Len(o) : n[k] = o[k]
      /\ ToSet(n) = ToSet(o) \cup {r}
  BY <1>2, <1>3, <1>4, AppendProperties, LenProperties, LongerRows
<1>6. /\ \A i \in ToSet(o) \cup ToSet(s), j \in DOMAIN job.lines :
            WantedRow(job, j) /\ TogetherIn(job, i, j) => j \in ToSet(o) \cup ToSet(s)
      /\ \A i, j \in ToSet(s) : TogetherIn(job, i, j)
      /\ \A p, q \in DOMAIN o, i \in ToSet(s) :
            p < q /\ TogetherIn(job, o[p], i) => TogetherIn(job, o[p], o[q])
      /\ \A p, q, m \in DOMAIN o :
            p < q /\ q < m /\ TogetherIn(job, o[p], o[m]) => TogetherIn(job, o[p], o[q])
  BY <1>1 DEF PrintInv, Complete, OneGroup, LastGroup, Contiguous
<1>7. ToSet(n) \cup ToSet(t) = ToSet(o) \cup ToSet(s)
  BY <1>4, <1>5
<1>8. \A p \in DOMAIN o : o[p] \in Nat
  BY <1>2, <1>5, Lines, ElementOfSeq DEF ExportInv
<1>9. ASSUME NEW p \in DOMAIN n, NEW q \in DOMAIN n, NEW i \in ToSet(t),
             p < q, TogetherIn(job, n[p], i)
      PROVE  TogetherIn(job, n[p], n[q])
  <2>1. p \in DOMAIN o /\ n[p] = o[p]
    BY <1>5, <1>9
  <2>2. CASE q \in DOMAIN o
    <3>1. n[q] = o[q] /\ i \in ToSet(s)
      BY <1>4, <1>5, <2>2
    <3> QED
      BY <1>6, <1>9, <2>1, <2>2, <3>1
  <2>3. CASE q = Len(o) + 1
    <3>1. n[q] = r /\ i \in ToSet(s) /\ r \in ToSet(s)
      BY <1>4, <1>5, <2>3
    <3>2. TogetherIn(job, i, r)
      BY <1>6, <3>1
    <3>3. i \in DOMAIN job.lines
      BY <1>2, <3>1, ElementOfSeq, LenProperties DEF ToSet
    <3>4. o[p] \in Nat /\ i \in Nat /\ r \in Nat
      BY <1>4, <1>8, <2>1, <3>3, Lines DEF ExportInv
    <3> QED
      BY <1>9, <2>1, <3>1, <3>2, <3>4, TogetherTransitive
  <2> QED
    BY <1>5, <2>2, <2>3
<1>10. ASSUME NEW p \in DOMAIN n, NEW q \in DOMAIN n, NEW m \in DOMAIN n,
              p < q, q < m, TogetherIn(job, n[p], n[m])
       PROVE  TogetherIn(job, n[p], n[q])
  <2>1. p \in DOMAIN o /\ n[p] = o[p] /\ q \in DOMAIN o /\ n[q] = o[q]
    BY <1>5, <1>10
  <2>2. CASE m \in DOMAIN o
    BY <1>5, <1>6, <1>10, <2>1, <2>2
  <2>3. CASE m = Len(o) + 1
    <3>1. n[m] = r /\ r \in ToSet(s)
      BY <1>4, <1>5, <2>3
    <3> QED
      BY <1>6, <1>10, <2>1, <3>1
  <2> QED
    BY <1>5, <2>2, <2>3
<1>11. Complete'
  BY <1>1, <1>6, <1>7 DEF Complete
<1>12. OneGroup'
  BY <1>1, <1>4, <1>6 DEF OneGroup
<1>13. LastGroup'
  BY <1>1, <1>9 DEF LastGroup
<1>14. Contiguous'
  BY <1>1, <1>10 DEF Contiguous
<1> QED
  BY <1>11, <1>12, <1>13, <1>14 DEF PrintInv

LEMMA PrintStep ==
    ASSUME DeliveryInv, job' = job, Move, WholeInv, PrintInv
    PROVE  PrintInv'
<1>1. CASE UNCHANGED <<Printing, out>>
  BY <1>1 DEF PrintInv, Complete, OneGroup, LastGroup, Contiguous
<1>2. CASE ~job.by_work
  BY <1>2 DEF PrintInv
<1>3. CASE job.by_work /\ OutputReceived
  BY <1>3, PrintReceives
<1>4. CASE job.by_work /\ RowPrinted
  BY <1>4, PrintPrints DEF DeliveryInv
<1>5. \/ UNCHANGED <<Printing, out>>
      \/ OutputReceived
      \/ RowPrinted
  BY DEF Move, Stays, RowTaken, GroupGoesOn, GroupBegins, BatchSent, ParcelSent,
         ParcelReceived, OutputSent, Places
<1> QED
  BY <1>1, <1>2, <1>3, <1>4, <1>5

GroupsInv == DeliveryInv /\ WholeInv /\ PrintInv

LEMMA GroupsStep ==
    ASSUME GroupsInv, [ExportNext]_exportVars
    PROVE  GroupsInv'
<1>1. job' = job /\ Move
  BY StepMoves DEF GroupsInv, DeliveryInv
<1>2. WholeInv'
  BY <1>1, WholeStep DEF GroupsInv, DeliveryInv
<1> QED
  BY <1>1, <1>2, DeliveryStep, PrintStep DEF GroupsInv

\* The rows of a work are contiguous in the output of "releasebywork".
THEOREM WorksPrintedTogether == ExportSpec => []GroupsContiguous
<1>1. ExportInit => GroupsInv
  BY DeliveryAtFirst, WholeAtFirst, PrintAtFirst DEF GroupsInv
<1>2. GroupsInv /\ [ExportNext]_exportVars => GroupsInv'
  BY GroupsStep
<1>3. ASSUME GroupsInv
      PROVE  GroupsContiguous
  <2> SUFFICES ASSUME job.by_work, NEW p \in DOMAIN out, NEW q \in DOMAIN out,
                      NEW r \in DOMAIN out, p < q, q < r, Together(out[p], out[r])
               PROVE  Together(out[p], out[q])
    BY DEF GroupsContiguous
  <2>1. ExportInv /\ Contiguous
    BY <1>3 DEF GroupsInv, DeliveryInv, PrintInv
  <2>2. \A k \in DOMAIN out : out[k] \in DOMAIN job.lines
    <3>1. out \in Seq(DOMAIN job.lines)
      BY <2>1, MovingTypes DEF ExportInv, Rows
    <3> QED
      BY <3>1, ElementOfSeq, LenProperties
  <2>3. TogetherIn(job, out[p], out[r])
    BY <2>1, <2>2, TogetherIs
  <2>4. TogetherIn(job, out[p], out[q])
    BY <2>1, <2>3 DEF Contiguous
  <2> QED
    BY <2>1, <2>2, <2>4, TogetherIs
<1> QED
  BY <1>1, <1>2, <1>3, PTL DEF ExportSpec

=============================================================================
