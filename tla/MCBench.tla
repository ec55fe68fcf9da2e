------------------------------- MODULE MCBench -------------------------------
(***************************************************************************)
(* Benchmark steps of every form, and each of them with one key left out,  *)
(* added, or given a value out of its range.                               *)
(***************************************************************************)
EXTENDS Bench

File(sut, needs, peer) ==
    [sut |-> sut, nodes |-> 2, needs |-> needs, peer |-> peer]
Weld     == File("weld", {"ros.pub", "relay.echo"}, FALSE)
WeldPeer == File("weld", {"ros.pub", "relay.echo"}, TRUE)
Conc     == File("concord", {"relay.echo"}, FALSE)

Ep(kind, n) == [kind |-> kind, n |-> n]
Counted     == [rate |-> 2, count |-> 2]
Timed       == [rate |-> 2, duration_s |-> 1]
Relayed     == [echo |-> [by |-> "weld", node |-> Ep("weld", 1)]]

\* Two rungs, at one and at two issues a second.
Rungs(stops) ==
    [ramp |-> stops @@ [start_rate |-> 1, step_rate |-> 1, step_duration_s |-> 1,
                        max_rate |-> 2, max_steps |-> 2, max_duration_s |-> 9]]
Loss(p)  == [loss_pct |-> p]
P99(ms)  == [p99_ms |-> ms]

PlainWeld == [from |-> Ep("bare", 0), on |-> Ep("bare", 1), text |-> "ok"]
PlainRos  == [from |-> Ep("ros", 0), on |-> Ep("ros", 1), payload_bytes |-> 1]
PlainConc == [node |-> Ep("bare", 0), image |-> "ok", as |-> "ok"]

Pub(via)   == [node |-> 0, via |-> via, body |-> "ok"]
Submit(as) == [node |-> 0, via |-> "workload-submit", image |-> "ok", as |-> as]
Expected(via) ==
    [node |-> 1, via |-> via, match |->
        CASE via = "journal-has" -> [field |-> "Image", value |-> "ok"]
          [] via = "workload-running" -> [text |-> "running"]
          [] via = "prometheus-scrape" ->
                 [metric |-> "ok", op |-> "ge", value |-> "ok", port |-> 9]
          [] OTHER -> [text |-> "ok"]]
Generic(send, via) == [send |-> send, expect |-> Expected(via)]

\* Steps that pass the lint.
PlainSteps ==
    ({Weld, WeldPeer} \X {PlainWeld @@ Timed, PlainWeld @@ Counted @@ Relayed})
    \union ({Weld} \X {PlainRos @@ Counted @@ [warmup |-> 1],
                       PlainWeld @@ Counted @@ [duration_s |-> 2]})
    \union ({Conc} \X {PlainConc @@ Counted @@ [warmup |-> 1], PlainConc @@ Timed})

RampSteps2 ==
    ({Weld} \X {PlainWeld @@ Relayed @@ Rungs(Loss(50)), PlainRos @@ Rungs(P99(1) @@ Loss(0))})
    \union ({Conc} \X {PlainConc @@ Rungs(Loss(0))})

GenericSteps ==
    ({Weld} \X {Generic(Pub("weld-pub"), v) @@ Counted :
                    v \in {"log-contains", "journal-has", "prometheus-scrape"}})
    \union ({Weld} \X {Generic(Pub("ros-pub"), "ros-log-contains") @@ Counted @@ Relayed,
                       Generic(Pub("weld-pub"), "journal-has") @@ Rungs(Loss(50)),
                       Generic(Pub("weld-pub") @@ [payload |-> "huge"], "log-contains")
                           @@ Counted @@ Relayed})
    \union ({Conc} \X {Generic(Submit("ok"), v) @@ Counted :
                           v \in {"log-contains", "journal-has", "workload-running"}})
    \union ({Conc} \X {Generic(Submit("long"), "workload-running") @@ Rungs(Loss(0))})

\* One change to a mapping.
Without(d, k) == [x \in DOMAIN d \ {k} |-> d[x]]
Odd ==
    [rate |-> {0}, count |-> {0, 5}, duration_s |-> {0, 3}, warmup |-> {2},
     from |-> {Ep("concord", 0), Ep("bare", 2)}, on |-> {Ep("concord", 0)},
     node |-> {Ep("ros", 0)}, image |-> {"bad"}, as |-> {"long"},
     text |-> {"bad"}, topic |-> {"bad"}, payload_bytes |-> {65537},
     echo |-> {[by |-> "weld", node |-> Ep("ros", 1)],
               [by |-> "concord", node |-> Ep("weld", 1)], [by |-> "weld"]},
     mode |-> {"ramp"}]
Changed(d) ==
    {Without(d, k) : k \in DOMAIN d}
        \union UNION {{[d EXCEPT ![k] = v] : v \in Odd[k]} : k \in DOMAIN d \intersect DOMAIN Odd}
        \union UNION {{(k :> v) @@ d : v \in Odd[k]} : k \in DOMAIN Odd \ DOMAIN d}

OddRungs ==
    [start_rate |-> {0, 3}, step_rate |-> {0}, step_duration_s |-> {3},
     max_rate |-> {0, 1, 3}, max_steps |-> {0, 3}, max_duration_s |-> {0},
     loss_pct |-> {101}, p99_ms |-> {-1}]
ChangedRungs(d) ==
    {[d EXCEPT !.ramp = Without(@, k)] : k \in DOMAIN d.ramp}
        \union UNION {{[d EXCEPT !.ramp = (k :> v) @@ @] : v \in OddRungs[k]} :
                          k \in DOMAIN OddRungs}

OddSteps ==
    UNION {{<<c[1], d>> : d \in Changed(c[2])} : c \in PlainSteps}
        \union UNION {{<<c[1], d>> : d \in Changed(c[2]) \union ChangedRungs(c[2])} :
                          c \in RampSteps2}

MCCases ==
    {[file |-> c[1], doc |-> c[2]] :
        c \in PlainSteps \union RampSteps2 \union GenericSteps \union OddSteps}
=============================================================================
