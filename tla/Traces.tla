-------------------------------- MODULE Traces ---------------------------------
(***************************************************************************)
(* Traces of client.go: StartTrace, StartSpan and EndSpan of goroutines    *)
(* that share a server.  Each is one or two requests, and a Put that fails *)
(* may have been applied (IPCClient says when).  The calls look at nothing *)
(* that is stored, but for the Get of EndSpan.                             *)
(*                                                                         *)
(* Callers pass on the identifiers they were given.  These are random, and *)
(* here they never repeat; 0 is the empty one.  Names and status are left  *)
(* out, and the clock does not go back.                                    *)
(***************************************************************************)
EXTENDS Naturals

CONSTANTS Tracers, MaxIdentifiers, MaxMicros   \* goroutines; bounds

ASSUME TracesAssumption == MaxIdentifiers \in Nat /\ MaxMicros \in Nat \ {0}

VARIABLES
    traces,     \* stored: root span and start, by trace
    spans,      \* stored: parent, start and end (0: none), by <<trace, span>>
    micros,     \* the time
    drawn,      \* the identifiers drawn so far
    job,        \* the call each goroutine is in
    given,      \* <<trace, span>> that calls returned
    returned,   \* history: the end the last EndSpan of a span returned
    muddled     \* history: spans of which an EndSpan failed or met another

tracesVars == <<traces, spans, micros, drawn, job, given, returned, muddled>>

Record(parent, start, end) == [parent |-> parent, start |-> start, end |-> end]

Job(pc, trace, span, data) ==
    [pc |-> pc, trace |-> trace, span |-> span, data |-> data]

NoJob == Job("idle", 0, 0, Record(0, 0, 0))

SpanOf(j) == <<j.trace, j.span>>

WithRecord(f, k, v) == [x \in DOMAIN f \cup {k} |-> IF x = k THEN v ELSE f[x]]

BeginJob(t, j) == job[t] = NoJob /\ job' = [job EXCEPT ![t] = j]

EndJob(t) == job' = [job EXCEPT ![t] = NoJob]

TracesInit ==
    /\ traces = [x \in {} |-> 0] /\ spans = traces /\ returned = traces
    /\ micros = 1 /\ drawn = 0
    /\ job = [t \in Tracers |-> NoJob]
    /\ given = {} /\ muddled = {}

TimePasses ==
    /\ micros < MaxMicros /\ micros' = micros + 1
    /\ UNCHANGED <<traces, spans, drawn, job, given, returned, muddled>>

-----------------------------------------------------------------------------
(* The time is read once, before the first Put. *)
StartTrace(t) ==
    /\ drawn + 2 <= MaxIdentifiers /\ drawn' = drawn + 2
    /\ BeginJob(t, Job("trace", drawn + 1, drawn + 2, Record(0, micros, 0)))
    /\ UNCHANGED <<traces, spans, micros, given, returned, muddled>>

(* Neither the trace nor the parent is looked up. *)
StartSpan(t, p) ==
    /\ drawn < MaxIdentifiers /\ drawn' = drawn + 1
    /\ BeginJob(t, Job("span", p[1], drawn + 1, Record(p[2], micros, 0)))
    /\ UNCHANGED <<traces, spans, micros, given, returned, muddled>>

WithTrace(j) == WithRecord(traces, j.trace, [root |-> j.span, start |-> j.data.start])

PutTrace(t) ==
    /\ job[t].pc = "trace"
    /\ traces' = WithTrace(job[t])
    /\ job' = [job EXCEPT ![t].pc = "span"]
    /\ UNCHANGED <<spans, micros, drawn, given, returned, muddled>>

(* A trace without a root span may stay behind. *)
PutTraceFails(t) ==
    /\ job[t].pc = "trace" /\ EndJob(t)
    /\ traces' \in {traces, WithTrace(job[t])}
    /\ UNCHANGED <<spans, micros, drawn, given, returned, muddled>>

WithSpan(j) == WithRecord(spans, SpanOf(j), j.data)

PutSpan(t) ==
    /\ job[t].pc = "span" /\ EndJob(t)
    /\ spans' = WithSpan(job[t])
    /\ given' = given \cup {SpanOf(job[t])}
    /\ UNCHANGED <<traces, micros, drawn, returned, muddled>>

(* Mutant: the identifiers are returned all the same. *)
GivenAnyway(t) == given \cup {SpanOf(job[t])}

GivenOnError(t) == given

PutSpanFails(t) ==
    /\ job[t].pc = "span" /\ EndJob(t)
    /\ spans' \in {spans, WithSpan(job[t])}
    /\ given' = GivenOnError(t)
    /\ UNCHANGED <<traces, micros, drawn, returned, muddled>>

-----------------------------------------------------------------------------
EndersOf(p) == {t \in Tracers : job[t].pc = "end" /\ SpanOf(job[t]) = p}

(* The Get of EndSpan: what it reads is what it will put back.  Until then *)
(* data.end is the earliest time there can be then.                        *)
EndSpan(t, p) ==
    /\ p \in given /\ p \in DOMAIN spans
    /\ BeginJob(t, Job("end", p[1], p[2], [spans[p] EXCEPT !.end = micros]))
    /\ muddled' = IF EndersOf(p) = {} THEN muddled ELSE muddled \cup {p}
    /\ UNCHANGED <<traces, spans, micros, drawn, given, returned>>

(* The time is read at some point between the Get and the Put. *)
EndTimes(j) == j.data.end..micros

WithEnd(j, now) == WithRecord(spans, SpanOf(j), [j.data EXCEPT !.end = now])

PutEnd(t) ==
    /\ job[t].pc = "end" /\ EndJob(t)
    /\ \E now \in EndTimes(job[t]) :
         /\ spans' = WithEnd(job[t], now)
         /\ returned' = WithRecord(returned, SpanOf(job[t]), now)
    /\ UNCHANGED <<traces, micros, drawn, given, muddled>>

(* Mutant: the duration is returned all the same. *)
ReturnedAnyway(p, now) == WithRecord(returned, p, now)

ReturnedOnError(p, now) == returned

PutEndFails(t) ==
    /\ job[t].pc = "end" /\ EndJob(t)
    /\ muddled' = muddled \cup {SpanOf(job[t])}
    /\ \E now \in EndTimes(job[t]) :
         /\ spans' \in {spans, WithEnd(job[t], now)}
         /\ returned' = ReturnedOnError(SpanOf(job[t]), now)
    /\ UNCHANGED <<traces, micros, drawn, given>>

TracesNext ==
    \/ TimePasses
    \/ \E t \in Tracers :
         \/ StartTrace(t) \/ PutTrace(t) \/ PutTraceFails(t)
         \/ PutSpan(t) \/ PutSpanFails(t) \/ PutEnd(t) \/ PutEndFails(t)
         \/ \E p \in given : StartSpan(t, p) \/ EndSpan(t, p)

TracesSpec == TracesInit /\ [][TracesNext]_tracesVars
=============================================================================
