----------------------------- MODULE BenchLint -----------------------------
(***************************************************************************)
(* The benchmark step as the lint of suite/exec.c reads it: the plain      *)
(* forms (weld keys or concord keys), the generic form (send and expect),  *)
(* and the ramp block of each.                                             *)
(*                                                                         *)
(* A mapping of the file is a function from the keys present to their      *)
(* values.  A text is "ok", "bad" (empty, no string, an old tag, too long) *)
(* or one of the special texts named below; a number that is no number is  *)
(* one outside its range; an endpoint is a kind ("bare" without a prefix)  *)
(* and an index.                                                           *)
(***************************************************************************)
EXTENDS Integers, FiniteSetsExt

CONSTANTS WeldCap,   \* kBenchWeld: issues of one weld step
          ConcCap,   \* kBenchConc: issues of one concord step
          MaxWl,     \* kMaxWl: entries of the workload table
          RampSteps  \* kRampSteps

ASSUME CapsAssumption ==
    /\ WeldCap \in Nat \ {0} /\ ConcCap \in Nat \ {0}
    /\ MaxWl \in Nat \ {0} /\ RampSteps \in Nat \ {0}
    /\ ConcCap # WeldCap

MaxRate     == 1000000
MaxTimeoutS == 3600
MaxMs       == 3600000
BenchBytes  == 65536

Has(d, k)    == k \in DOMAIN d
AnyOf(d, ks)   == DOMAIN d \intersect ks # {}
AllOf(d, ks)   == ks \subseteq DOMAIN d
Only(d, ks)  == DOMAIN d \subseteq ks
Opt(d, k, S) == Has(d, k) => d[k] \in S

-----------------------------------------------------------------------------
(* Endpoints and probes.                                                   *)

Kinds == {"weld", "ros", "concord"}

CanPub(k)     == k \in {"weld", "ros"}
CanObserve(k) == k \in {"weld", "ros"}
CanRelay(k)   == k = "weld"
CanSubmit(k)  == k = "concord"

Sends   == {"weld-pub", "ros-pub", "workload-submit"}
Expects == {"log-contains", "ros-log-contains", "journal-has",
            "workload-running", "prometheus-scrape"}

\* sut_def_ep, and the kind of an endpoint that is parsed.
EpKind(f, e) == IF e.kind = "bare" THEN f.sut ELSE e.kind

ep_parse_node(f, e) == e.n \in 0..(f.nodes - 1)

-----------------------------------------------------------------------------
(* What both forms share.                                                  *)

RampForbids == {"rate", "count", "duration_s", "warmup"}

RampNeeds == {"start_rate", "step_rate", "step_duration_s", "max_rate",
              "max_steps", "max_duration_s"}

RampNumbers(r) ==
    /\ Only(r, RampNeeds \union {"loss_pct", "p99_ms"}) /\ AllOf(r, RampNeeds)
    /\ \A k \in {"start_rate", "step_rate", "max_rate"} : r[k] \in 1..MaxRate
    /\ r.step_duration_s \in 1..MaxTimeoutS
    /\ r.max_rate >= r.start_rate
    /\ r.max_steps \in 1..RampSteps
    /\ r.max_duration_s \in 1..MaxTimeoutS

\* The stops of a ramp, at least one, and the room its steps need.
val_ramp(r, cap) ==
    /\ RampNumbers(r)
    /\ Opt(r, "loss_pct", 0..100) /\ Opt(r, "p99_ms", 0..MaxMs)
    /\ AnyOf(r, {"loss_pct", "p99_ms"})
    /\ r.max_rate * r.step_duration_s <= cap
    /\ cap = ConcCap => r.max_steps * r.max_rate * r.step_duration_s <= MaxWl

RampBlock(d, cap) ==
    Has(d, "ramp") => ~AnyOf(d, RampForbids) /\ val_ramp(d.ramp, cap)

\* rate, count, duration and warmup, unless there is a ramp.
Paced(d, cap) ==
    Has(d, "ramp") \/
        /\ Has(d, "rate") /\ d.rate \in 1..MaxRate
        /\ AnyOf(d, {"count", "duration_s"})
        /\ Opt(d, "count", 1..cap)
        /\ Opt(d, "duration_s", 1..MaxTimeoutS)
        /\ Opt(d, "warmup", 0..WeldCap)
        /\ AllOf(d, {"count", "warmup"}) => d.warmup < d.count
        /\ Has(d, "duration_s") => d.rate * d.duration_s <= cap

\* Slip: any node may relay.
EchoAnywhere(d, f) ==
    Has(d, "echo") =>
        /\ Only(d.echo, {"by", "node"}) /\ AllOf(d.echo, {"by", "node"})
        /\ d.echo.by \in Kinds /\ CanObserve(d.echo.by)
        /\ ep_parse_node(f, d.echo.node)
        /\ "relay.echo" \in f.needs

Echo(d, f) ==
    Has(d, "echo") =>
        /\ Only(d.echo, {"by", "node"}) /\ AllOf(d.echo, {"by", "node"})
        /\ d.echo.by \in Kinds /\ CanObserve(d.echo.by)
        /\ ep_parse_node(f, d.echo.node)
        /\ CanRelay(EpKind(f, d.echo.node))
        /\ "relay.echo" \in f.needs

-----------------------------------------------------------------------------
(* The generic form.                                                       *)

SendKeys(s, f) ==
    /\ Only(s, {"node", "via", "topic", "image", "flags", "as", "body",
                "payload", "payload_bytes"})
    /\ AllOf(s, {"node", "via"})
    /\ s.node \in 0..(f.nodes - 1)
    /\ s.via \in Sends

SendPub(s, f) ==
    /\ ~AnyOf(s, {"image", "flags", "as"})
    /\ AnyOf(s, {"body", "payload_bytes"})
    /\ Opt(s, "body", {"ok"})
    /\ s.via = "ros-pub" => "ros.pub" \in f.needs

\* "huge" is a template that is well formed and grows past the buffer.
SendPayload(s) ==
    /\ Opt(s, "payload_bytes", 0..BenchBytes)
    /\ Opt(s, "payload", {"ok", "huge"})
    /\ Opt(s, "topic", {"ok"})

\* "long" is a name that fits, but not with the number of a member.
SendSubmit(s) ==
    /\ ~AnyOf(s, {"topic", "body", "payload", "payload_bytes"})
    /\ AllOf(s, {"image", "as"})
    /\ s.image = "ok" /\ s.as \in {"ok", "long"}
    /\ Opt(s, "flags", {"ok"})

Send(s, f) ==
    /\ SendKeys(s, f)
    /\ IF s.via = "workload-submit" THEN SendSubmit(s)
                                    ELSE SendPub(s, f) /\ SendPayload(s)

ExpectKeys(e, f) ==
    /\ Only(e, {"node", "via", "match"}) /\ AllOf(e, {"node", "via", "match"})
    /\ e.node \in 0..(f.nodes - 1)
    /\ e.via \in Expects

MatchJournal(m) ==
    /\ DOMAIN m = {"field", "value"}
    /\ m.field \in {"AssignedNodeID", "AssignmentEpoch", "Image"}
    /\ m.value = "ok"

MatchScrape(m) ==
    /\ Only(m, {"metric", "op", "value", "port", "path"})
    /\ AllOf(m, {"metric", "op", "value", "port"})
    /\ m.metric = "ok" /\ m.value = "ok"
    /\ m.op \in {"eq", "ne", "lt", "le", "gt", "ge"}
    /\ m.port \in 1..65535
    /\ Opt(m, "path", {"ok"})

\* A scalar is a mapping with the one key text.
MatchText(m, texts) == DOMAIN m = {"text"} /\ m.text \in texts

Match(e) ==
    CASE e.via = "journal-has"       -> MatchJournal(e.match)
      [] e.via = "prometheus-scrape" -> MatchScrape(e.match)
      [] e.via = "workload-running"  -> MatchText(e.match, {"running"})
      [] OTHER                       -> MatchText(e.match, {"ok"})

\* A name must leave room for a number, except that of a ramp: the test for
\* ramps stands where there is none.
GenericName(d) ==
    d.send.via = "workload-submit" /\ ~Has(d, "ramp") => d.send.as = "ok"

FamilyCap(submits) == IF submits THEN ConcCap ELSE WeldCap

\* send and expect are each looked at on their own.
val_bench_generic(d, f) ==
    /\ Only(d, {"send", "expect", "echo", "ramp"} \union RampForbids)
    /\ AllOf(d, {"send", "expect"})
    /\ Send(d.send, f)
    /\ ExpectKeys(d.expect, f) /\ Match(d.expect)
    /\ LET cap == FamilyCap(d.send.via = "workload-submit")
       IN  RampBlock(d, cap) /\ Paced(d, cap)
    /\ GenericName(d)
    /\ Echo(d, f)

SendKind(via) ==
    CASE via = "workload-submit" -> "concord"
      [] via = "ros-pub"         -> "ros"
      [] OTHER                   -> "weld"

ExpectKind(via, f) ==
    CASE via = "ros-log-contains"  -> "ros"
      [] via = "log-contains"      -> "weld"
      [] via = "prometheus-scrape" -> f.sut
      [] OTHER                     -> "concord"

-----------------------------------------------------------------------------
(* The plain forms.                                                        *)

ConcKeys == {"node", "image", "as", "flags"}
WeldKeys == {"from", "on", "text", "topic", "echo", "payload_bytes"}

PlainKeys(d) ==
    /\ Only(d, ConcKeys \union WeldKeys \union RampForbids \union {"ramp"})
    /\ ~(AnyOf(d, ConcKeys) /\ AnyOf(d, WeldKeys))

PlainRamp(d) == RampBlock(d, FamilyCap(AnyOf(d, ConcKeys)))

\* flags alone do not make a concord step here.
PlainPace(d) == Paced(d, FamilyCap(AnyOf(d, {"node", "image", "as"})))

\* from and the text; without a text the size of the payload must be set.
PlainFrom(d, f) ==
    /\ AllOf(d, {"from", "on"})
    /\ Opt(d, "payload_bytes", 0..BenchBytes)
    /\ Has(d, "text") \/ (Has(d, "payload_bytes") /\ d.payload_bytes > 0)
    /\ ep_parse_node(f, d.from) /\ CanPub(EpKind(f, d.from))
    /\ EpKind(f, d.from) = "ros" => "ros.pub" \in f.needs
    /\ Opt(d, "text", {"ok"})

PlainOn(d, f) ==
    /\ Opt(d, "topic", {"ok"})
    /\ ep_parse_node(f, d.on) /\ CanObserve(EpKind(f, d.on))

PlainEcho(d, f) == Echo(d, f)

PlainNode(d, f) ==
    /\ AllOf(d, {"node", "image", "as"})
    /\ ep_parse_node(f, d.node) /\ CanSubmit(EpKind(f, d.node))

\* Every concord step has a count, a duration or a ramp, so a name always
\* leaves room for a number.
PlainSubmit(d) ==
    d.image = "ok" /\ d.as = "ok" /\ Opt(d, "flags", {"ok"})

\* The benchmark branch of val_step.
val_bench(d, f) ==
    IF AnyOf(d, {"send", "expect"})
    THEN val_bench_generic(d, f)
    ELSE /\ PlainKeys(d) /\ PlainRamp(d) /\ PlainPace(d)
         /\ IF AnyOf(d, WeldKeys)
            THEN PlainFrom(d, f) /\ PlainOn(d, f) /\ PlainEcho(d, f)
            ELSE PlainNode(d, f) /\ PlainSubmit(d)

-----------------------------------------------------------------------------
(* The step that a linted mapping stands for (ExStep).                     *)

Val(d, k, otherwise) == IF Has(d, k) THEN d[k] ELSE otherwise

ExStep(d, f) ==
    LET gen  == Has(d, "send")
        echo == Has(d, "echo")
    IN  [gen    |-> gen,
         ramp   |-> Has(d, "ramp"),
         r      |-> Val(d, "ramp", <<>>),
         from   |-> IF gen THEN SendKind(d.send.via)
                    ELSE EpKind(f, Val(d, "from", Val(d, "node", [kind |-> "bare"]))),
         on     |-> IF gen THEN ExpectKind(d.expect.via, f)
                    ELSE IF Has(d, "on") THEN EpKind(f, d.on) ELSE "weld",
         send   |-> IF gen THEN d.send.via ELSE "none",
         expect |-> IF gen THEN d.expect.via ELSE "none",
         rate   |-> Val(d, "rate", 0),
         count  |-> Val(d, "count", 0),
         dur    |-> Val(d, "duration_s", 0),
         warmup |-> Val(d, "warmup", 0),
         echo   |-> echo,
         relay  |-> IF echo THEN EpKind(f, d.echo.node) ELSE "weld",
         huge   |-> gen /\ Val(d.send, "payload", "ok") = "huge",
         as     |-> IF gen THEN Val(d.send, "as", "ok") ELSE Val(d, "as", "ok")]
=============================================================================
