------------------------------- MODULE Bench -------------------------------
(***************************************************************************)
(* One benchmark step of suite/exec.c from the file to its metrics: the    *)
(* lint, then run_bench_weld, run_bench_conc, run_ramp_weld or             *)
(* run_ramp_conc, which issue payloads or workloads at a rate, look for    *)
(* them in logs, lists or journals for a grace time, and report.           *)
(*                                                                         *)
(* The clock ticks in milliseconds and advances with the steps of the      *)
(* runner; what it waits for arrives in between.                           *)
(***************************************************************************)
EXTENDS BenchLint, Sequences, SequencesExt

CONSTANTS Cases,      \* the files and benchmark mappings to look at
          Second,     \* ticks of a second
          Grace,      \* ticks of the grace dwell (kBenchGrace)
          MaxLate,    \* bound: ticks by which an issue may be late
          Unstamped   \* issues for which clock_gettime may fail

ASSUME BenchAssumption ==
    /\ Second \in Nat \ {0} /\ Grace \in Nat /\ MaxLate \in Nat
    /\ Unstamped \subseteq Nat

VARIABLES
    case,     \* the file and the mapping of its step
    s,        \* the validated step (ExStep)
    pc,       \* "lint" "begin" "climb" "issue" "scan" "over"
    now,      \* CLOCK_MONOTONIC
    t0,       \* when the ramp began
    step,     \* steps of the ramp begun
    start,    \* when the issue loop began
    grace,    \* when the dwell ends
    pub,      \* send stamp of each issue; 0 when the clock failed
    seen,     \* time of the sighting; 0 for none
    log,      \* sinks that hold the issue
    relay,    \* is the echo relay up?
    alive,    \* does any node live?
    tab,      \* entries of the workload table
    stats,    \* metrics, one record for each step measured
    ceiling,
    reason,   \* what the ceiling is limited by
    verdict   \* how the step ended

input  == <<case, s>>
loop   == <<step, start, grace, pub, seen>>
report == <<stats, ceiling, reason>>
world  == <<log, alive>>
vars   == <<input, pc, now, t0, loop, world, relay, tab, report, verdict>>

F == case.file

Init ==
    /\ case \in Cases /\ s = <<>>
    /\ pc = "lint" /\ now = 1 /\ t0 = 0
    /\ step = 0 /\ start = 0 /\ grace = 0 /\ pub = <<>> /\ seen = <<>>
    /\ log = <<>> /\ relay = FALSE /\ alive = TRUE /\ tab = 0
    /\ stats = <<>> /\ ceiling = 0 /\ reason = "max_steps"
    /\ verdict = "none"

End(v) == pc' = "over" /\ verdict' = v

Lint ==
    /\ pc = "lint"
    /\ IF val_bench(case.doc, F)
       THEN pc' = "begin" /\ s' = ExStep(case.doc, F) /\ UNCHANGED verdict
       ELSE End("lint") /\ UNCHANGED s
    /\ UNCHANGED <<case, now, t0, loop, world, relay, tab, report>>

-----------------------------------------------------------------------------
(* The start.                                                              *)

\* ST_BENCH of apply_step: a kind that submits issues workloads.
Submits == CanSubmit(s.from)

\* The verb that a ramp misses when it starts.
Missing ==
    IF ~s.ramp \/ Submits THEN "none"
    ELSE IF ~CanObserve(s.on) THEN "observe"
    ELSE IF s.echo /\ ~CanRelay(s.relay) THEN "relay"
    ELSE "none"

Begin ==
    /\ pc = "begin" /\ Missing = "none"
    /\ relay' = (s.echo /\ ~Submits)
    /\ t0' = now
    /\ IF s.ramp THEN pc' = "climb" /\ UNCHANGED start
                 ELSE pc' = "issue" /\ start' = now
    /\ UNCHANGED <<input, now, step, grace, pub, seen, world, tab, report, verdict>>

BeginFails ==
    /\ pc = "begin"
    /\ \/ Missing # "none" /\ End(Missing)
       \/ Missing = "none" /\ s.echo /\ ~Submits /\ End("sut")
    /\ UNCHANGED <<input, now, t0, loop, world, relay, tab, report>>

-----------------------------------------------------------------------------
(* One step of a ladder, or the whole of a plain benchmark.                *)

Rate ==
    IF s.ramp
    THEN Min({s.r.start_rate + (step - 1) * s.r.step_rate, s.r.max_rate})
    ELSE s.rate

\* bench_want: with a count and a duration, the smaller.
bench_want ==
    IF s.ramp THEN Rate * s.r.step_duration_s
    ELSE IF s.count = 0 THEN s.rate * s.dur
    ELSE IF s.dur = 0 THEN s.count
    ELSE Min({s.count, s.rate * s.dur})

TimeUp(ticks) == now - ticks[1] >= ticks[2] * Second

\* The loop goes on: the arrays, the count or quota, the time, the table.
More ==
    /\ Len(pub) < FamilyCap(Submits)
    /\ s.ramp => Len(pub) < bench_want
    /\ s.count # 0 => Len(pub) < s.count
    /\ s.ramp => ~TimeUp(<<start, s.r.step_duration_s>>)
    /\ s.dur # 0 => ~TimeUp(<<start, s.dur>>)
    /\ Submits => tab < MaxWl

\* The ladder's next rung, or its end when the time of the ramp is over.
Climb ==
    /\ pc = "climb"
    /\ IF TimeUp(<<t0, s.r.max_duration_s>>)
       THEN /\ reason' = "max_duration" /\ relay' = FALSE /\ End("ok")
            /\ UNCHANGED <<loop, log>>
       ELSE /\ step' = step + 1 /\ start' = now
            /\ pub' = <<>> /\ seen' = <<>> /\ log' = <<>>
            /\ pc' = "issue"
            /\ UNCHANGED <<grace, relay, reason, verdict>>
    /\ UNCHANGED <<input, now, t0, alive, tab, stats, ceiling>>

\* pace_poll waits a period after every issue but the first.
Paces == IF pub = <<>> THEN {0}
                       ELSE {Second \div Rate + late : late \in 0..MaxLate}

\* bench_weld_pay: tag and body, or the template, fit the issue buffer.
bench_weld_pay == ~s.huge

\* What an issue adds to the loop, with the stamp t.
Sent(t) ==
    /\ pub' = Append(pub, t) /\ seen' = Append(seen, 0) /\ log' = Append(log, {})
    /\ UNCHANGED <<input, pc, t0, step, start, grace, alive, relay,
                   report, verdict>>

Waited == \E wait \in Paces : now' = now + wait

\* do_pub_once or do_ros_pub_once, stamped before the publish.
IssuePub ==
    /\ pc = "issue" /\ ~Submits /\ More /\ bench_weld_pay
    /\ Waited
    /\ \E t \in {now'} \union (IF Len(pub) + 1 \in Unstamped THEN {0} ELSE {}) :
           Sent(t)
    /\ UNCHANGED tab

\* do_submit_once, stamped when it has returned, into the next entry.
IssueSubmit ==
    /\ pc = "issue" /\ Submits /\ More /\ s.as # "long"
    /\ Waited
    /\ Sent(now')
    /\ tab' = tab + 1

Fails(v) ==
    /\ Waited
    /\ End(v)
    /\ UNCHANGED <<input, t0, loop, world, tab, report>>

\* Slip: the relay stays up when a publish fails.
PubFailsRelay ==
    /\ pc = "issue" /\ ~Submits /\ More
    /\ Fails(IF bench_weld_pay THEN "sut" ELSE "huge")
    /\ UNCHANGED relay

\* The payload outgrows its buffer, or the publish fails.
PubFails ==
    /\ pc = "issue" /\ ~Submits /\ More
    /\ Fails(IF bench_weld_pay THEN "sut" ELSE "huge")
    /\ relay' = FALSE

\* The submit fails or, once it is done, the name has no room for a number.
SubmitFails ==
    /\ pc = "issue" /\ Submits /\ More
    /\ Fails("sut") \/ (s.as = "long" /\ Fails("name"))
    /\ UNCHANGED relay

Issued ==
    /\ pc = "issue" /\ ~More
    /\ grace' = now + Grace
    /\ pc' = "scan"
    /\ UNCHANGED <<input, now, t0, step, start, pub, seen, world, relay, tab, report,
                   verdict>>

-----------------------------------------------------------------------------
(* The sightings.                                                          *)

\* A payload or a workload of one family that is expected in the other.
generic_miss ==
    /\ s.gen /\ s.expect # "prometheus-scrape"
    /\ Submits # (s.expect \in {"journal-has", "workload-running"})

\* Where the issues of the step must be: a weld node's log and, when a ROS
\* peer runs beside it, the capture of the peer as well.  "nowhere" is the
\* log of a concord node.
Sinks ==
    IF Submits THEN {IF s.expect = "journal-has" THEN "journal" ELSE "list"}
    ELSE CASE s.on = "weld" -> {"weld"} \union (IF F.peer THEN {"ros"} ELSE {})
           [] s.on = "ros"  -> {"ros"}
           [] OTHER         -> {"nowhere"}

Visible(j) == Sinks \subseteq log[j] /\ ~generic_miss

\* The system under test delivers an issue.
Deliver ==
    /\ pc \in {"issue", "scan"}
    /\ \E j \in DOMAIN log : \E k \in Sinks \ (log[j] \union {"nowhere"}) :
           log' = [log EXCEPT ![j] = @ \union {k}]
    /\ UNCHANGED <<input, pc, now, t0, loop, alive, relay, tab, report, verdict>>

NodesDie ==
    /\ pc \in {"issue", "scan"} /\ alive
    /\ alive' = FALSE
    /\ UNCHANGED <<input, pc, now, t0, loop, log, relay, tab, report, verdict>>

Sight(j) == IF seen[j] = 0 /\ Visible(j) THEN now ELSE seen[j]
Sighted  == [j \in DOMAIN seen |-> Sight(j)]

\* Slip: only nodes that are all dead, or nothing missing, end the dwell.
DwellLong == (\A j \in DOMAIN seen : Sighted[j] # 0) \/ ~alive

DwellOver ==
    (\A j \in DOMAIN seen : Sighted[j] # 0) \/ now >= grace \/ ~alive

\* A pass over the issues that finds some missing, and a poll.  Times past
\* the end of the dwell are not told apart.
Scan ==
    /\ pc = "scan" /\ ~DwellOver
    /\ seen' = Sighted
    /\ now' = Min({now + 1, grace})
    /\ UNCHANGED <<input, pc, t0, step, start, grace, pub, world, relay, tab, report,
                   verdict>>

-----------------------------------------------------------------------------
(* The metrics.                                                            *)

\* Slip: the rank is rounded down.
PctDown(sv, pct) ==
    IF sv = <<>> THEN 0 ELSE sv[Max({1, (pct * Len(sv)) \div 100})]

\* bench_pct on an ascending sequence.
bench_pct(sv, pct) ==
    LET n    == Len(sv)
        rank == (pct * n + 99) \div 100
    IN  IF n = 0 THEN 0 ELSE sv[Min({Max({rank, 1}), n})]

\* The issues of the warmup are not measured.
First == IF s.ramp THEN 0 ELSE Min({s.warmup, Len(pub)})

Hit(sn, j) == sn[j] # 0 /\ sn[j] >= pub[j] /\ pub[j] # 0

Hits(sn, gate) == {j \in (First + 1)..Len(pub) : gate /\ Hit(sn, j)}

\* What qsort with cmp_u64 leaves: the times of the hits, ascending.
qsort(sn, js) ==
    LET lat(j) == sn[j] - pub[j]
        ps == {p \in Bijection(1..Cardinality(js), js) :
                   \A i, k \in DOMAIN p : i < k => lat(p[i]) <= lat(p[k])}
    IN  {[i \in DOMAIN p |-> lat(p[i])] : p \in ps}

\* bench_stats and ramp_stats: percentiles are taken from the sorted hits.
bench_stats(sv) ==
    LET n == Len(pub) - First
    IN  [rate    |-> Rate,
         count   |-> n,
         loss    |-> n - Len(sv),
         target  |-> Max({bench_want - First, 0}),
         overrun |-> bench_want > Len(pub),
         p50     |-> bench_pct(sv, 50),
         p99     |-> bench_pct(sv, 99),
         max     |-> IF sv = <<>> THEN 0 ELSE Last(sv)]

\* scrape_gate: the gate of a scrape fails or holds, others hold.
Gates == IF s.expect = "prometheus-scrape" THEN BOOLEAN ELSE {TRUE}

LossPct(m) == IF m.count > 0 THEN (m.loss * 100) \div m.count ELSE 100

\* The stop that a measured step of a ladder meets.
Stopped(m) ==
    IF Has(s.r, "loss_pct") /\ LossPct(m) > s.r.loss_pct THEN "loss"
    ELSE IF Has(s.r, "p99_ms") /\ m.p99 > s.r.p99_ms THEN "p99"
    ELSE "none"

\* Slip: the ladder goes on at its highest rate.
BackstopNoRate ==
    IF step >= s.r.max_steps THEN "max_steps"
    ELSE IF TimeUp(<<t0, s.r.max_duration_s>>) THEN "max_duration"
    ELSE "none"

\* What ends a ladder whose step has passed.
Backstop ==
    IF Rate >= s.r.max_rate THEN "max_rate"
    ELSE IF step >= s.r.max_steps THEN "max_steps"
    ELSE IF TimeUp(<<t0, s.r.max_duration_s>>) THEN "max_duration"
    ELSE "none"

\* A plain benchmark reports and is done.
Measured ==
    /\ pc = "scan" /\ DwellOver /\ ~s.ramp
    /\ seen' = Sighted
    /\ relay' = FALSE
    /\ \E gate \in Gates : \E sv \in qsort(seen', Hits(seen', gate)) :
           stats' = <<bench_stats(sv)>>
    /\ End("ok")
    /\ UNCHANGED <<input, now, t0, step, start, grace, pub, world, tab, ceiling, reason>>

\* A ramp reports its step, and stops or goes on.
RampMeasured ==
    /\ pc = "scan" /\ DwellOver /\ s.ramp
    /\ seen' = Sighted
    /\ \E gate \in Gates : \E sv \in qsort(seen', Hits(seen', gate)) :
           LET m == bench_stats(sv)
               w == IF Stopped(m) # "none" THEN Stopped(m) ELSE Backstop
           IN  /\ stats' = Append(stats, m)
               /\ ceiling' = IF Stopped(m) = "none" THEN Rate ELSE ceiling
               /\ IF w = "none"
                  THEN pc' = "climb" /\ UNCHANGED <<relay, reason, verdict>>
                  ELSE relay' = FALSE /\ reason' = w /\ End("ok")
    /\ UNCHANGED <<input, now, t0, step, start, grace, pub, world, tab>>

-----------------------------------------------------------------------------
Runner == Lint \/ Begin \/ BeginFails \/ Climb \/ IssuePub \/ IssueSubmit
              \/ PubFails \/ SubmitFails \/ Issued \/ Scan \/ Measured \/ RampMeasured

Done == pc = "over" /\ UNCHANGED vars

Next == Runner \/ Deliver \/ NodesDie \/ Done

Spec == Init /\ [][Next]_vars /\ WF_vars(Runner)

-----------------------------------------------------------------------------
(* Properties.                                                             *)

TypeOK ==
    /\ pc \in {"lint", "begin", "climb", "issue", "scan", "over"}
    /\ now \in Nat /\ tab \in 0..MaxWl
    /\ DOMAIN pub = DOMAIN seen /\ DOMAIN pub = DOMAIN log
    /\ relay \in BOOLEAN /\ alive \in BOOLEAN
    /\ (verdict = "none") = (pc # "over")

\* The step has passed the lint, so it can be read.
Linted == pc # "lint" /\ verdict # "lint"

\* send and expect are of one family, and the payload and the name fit.
Paired ==
    /\ ~generic_miss /\ s.as = "ok" /\ ~s.huge
    /\ s.expect = "prometheus-scrape" => s.from = F.sut

\* "bad pairs fail lint (plus a runtime backstop) naming the missing verb":
\* the backstops of the run are idle.  A linted step ends with its metrics or
\* because the system under test failed, never for a verb that an endpoint
\* misses, a payload or a name; and a ladder on an empty table is never cut
\* short by the table.  It holds for pairs of one family; the lint looks at
\* send and expect one by one.
BackstopsIdle ==
    Linted /\ Paired =>
        /\ verdict \in {"none", "ok", "sut"}
        /\ pc = "issue" /\ s.ramp /\ Submits /\ tab = MaxWl
               => Len(pub) >= bench_want

\* The relay of an echo is up from the first issue to the last sighting, and
\* down when the step is over, whichever way it ends.
RelayHeld ==
    relay = (pc \in {"climb", "issue", "scan"} /\ s.echo /\ ~Submits)

\* The last report, and the issues it is about.
Reported == stats # <<>> /\ (pc = "climb" \/ verdict = "ok")

\* The smallest hit that pct of a hundred hits do not exceed.
NearestRank(js, pct) ==
    LET lat == [j \in js |-> seen[j] - pub[j]]
    IN  IF js = {} THEN 0
        ELSE Min({lat[i] : i \in {i \in js :
                 100 * Cardinality({j \in js : lat[j] <= lat[i]})
                     >= pct * Cardinality(js)}})

\* The metrics tell the truth: issues and losses add up to what was sent
\* after the warmup; unless the gate failed an issue is lost exactly when it
\* had no stamp or was not in every log it had to be in when the dwell ended;
\* the overrun is set exactly when fewer were issued than both the count and
\* the rate times the duration asked for; and the percentiles are the nearest
\* ranks of the hits.
StatsTrue ==
    Reported =>
        LET m    == Last(stats)
            js   == {j \in DOMAIN pub : j > s.warmup}
            good == {j \in js : pub[j] # 0 /\ Visible(j)}
        IN  /\ m.count = Cardinality(js)
            /\ \/ m.loss = m.count - Cardinality(good)
               \/ s.expect = "prometheus-scrape" /\ m.loss = m.count
            /\ m.loss # m.count => m.p50 = NearestRank(good, 50)
                                   /\ m.p99 = NearestRank(good, 99)
                                   /\ m.max = NearestRank(good, 100)
            /\ ~s.ramp => m.overrun =
                   /\ s.count # 0 => Len(pub) < s.count
                   /\ s.dur # 0 => Len(pub) < s.rate * s.dur

\* "The top passing rate is the ceiling.  A passed step raises it; the first
\* stopped step ends the ladder": the rates of a ladder rise with every step
\* and stay below the highest, all steps but the last have met their stops,
\* and the ceiling is the rate of the last step that has.
Ladder ==
    Linted /\ s.ramp =>
        LET ok == {i \in DOMAIN stats : Stopped(stats[i]) = "none"}
        IN  /\ \A i \in DOMAIN stats :
                   /\ stats[i].rate <= s.r.max_rate
                   /\ i > 1 => stats[i].rate > stats[i - 1].rate
                   /\ i < Len(stats) => i \in ok
            /\ ceiling = IF ok = {} THEN 0 ELSE stats[Max(ok)].rate
            /\ verdict = "ok" /\ ok # DOMAIN stats => reason \in {"loss", "p99"}

\* Every benchmark ends, also when nothing it sends arrives and no node lives.
BenchEnds == <>(pc = "over")
=============================================================================
