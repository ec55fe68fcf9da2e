----------------------------- MODULE Workloads -----------------------------
(***************************************************************************)
(* The names of workloads in a concord scenario, twice: in the registry    *)
(* that val_top of suite/exec.c builds while it lints a file, and in the   *)
(* table WlTab that the steps fill while the file runs.  Both read the     *)
(* same steps in the same order, but the lint counts what a step should    *)
(* mint and the run what it did mint.                                      *)
(*                                                                         *)
(* A name is a stem and its numeric suffixes: "x-1" is x with one suffix   *)
(* of value 1, "x-01" the same value with one leading zero.                *)
(***************************************************************************)
EXTENDS Naturals, Sequences, SequencesExt, FiniteSetsExt

CONSTANTS MaxWl,     \* kMaxWl: entries of the table
          BenchCap,  \* kBenchConc: issues of one benchmark step
          Steps,     \* the steps a file may hold
          MaxLen     \* bound on the steps of a file

\* What a step calls its workloads, and what a step refers to.
Mints == {"submit", "bench", "ramp"}
Refs  == {"stop", "update", "cond"}

Suffix == [v : Nat, pad : Nat]
Name   == [stem : STRING, sfx : Seq(Suffix)]

\* A step as val_step leaves it; dur is the product of rate and duration of
\* a benchmark and of the steps, rate and duration of a ramp, and 0 is a key
\* that is not there.
StepOk(s) ==
    /\ s \in [k : Mints \union Refs, as : Name, bare : BOOLEAN, cnt : Nat,
              dur : Nat, id : BOOLEAN]
    /\ s.k = "submit" => s.dur = 0
    /\ s.k = "bench"  => /\ s.cnt # 0 \/ s.dur # 0
                         /\ s.cnt <= BenchCap /\ s.dur <= BenchCap
    /\ s.k = "ramp"   => s.cnt = 0 /\ s.dur # 0

ASSUME WorkloadsAssumption ==
    /\ MaxWl \in Nat \ {0} /\ BenchCap \in Nat \ {0} /\ MaxLen \in Nat
    /\ \A s \in Steps : StepOk(s)

VARIABLES
    file,     \* the steps read so far
    names,    \* the lint's names
    bases,    \* the lint's counted bases, each with its count
    nentries, \* the lint's count of entries
    tab,      \* WlTab.ent; by is the step that minted the entry (history)
    rbases,   \* WlTab.bases with WlTab.bcount
    hits,     \* the entries the last stop, update or condition was about
    pc,       \* "lint" "run" "over"
    at,       \* the step that runs
    verdict   \* how the file ended

registry == <<names, bases, nentries>>
table    == <<tab, rbases>>
wlVars   == <<file, registry, table, hits, pc, at, verdict>>

\* Failures for which the run says that the file is wrong.
Rules == {"second", "dup", "many", "noref"}

WlTypeOK ==
    /\ file \in Seq(Steps) /\ Len(file) <= MaxLen
    /\ nentries \in 0..MaxWl /\ Len(tab) \in 0..MaxWl
    /\ hits \subseteq 1..Len(tab)
    /\ pc \in {"lint", "run", "over"} /\ at \in 1..(MaxLen + 1)
    /\ verdict \in {"none", "lint", "skip", "sut", "pass"} \union Rules
    /\ (verdict = "none") = (pc # "over")

WlInit ==
    /\ file = <<>> /\ names = {} /\ bases = {} /\ nentries = 0
    /\ tab = <<>> /\ rbases = {} /\ hits = {}
    /\ pc = "lint" /\ at = 1 /\ verdict = "none"

-----------------------------------------------------------------------------
(* Names.                                                                  *)

\* The k-th member of a base, as it is formatted: no leading zero.
Member(b, k) == [b EXCEPT !.sfx = Append(@, [v |-> k, pad |-> 0])]

\* reg_member: one more suffix than the base, of a value below the count,
\* leading zeros or not.
reg_member(b, c, ref) ==
    /\ ref.stem = b.stem
    /\ Len(ref.sfx) = Len(b.sfx) + 1
    /\ Front(ref.sfx) = b.sfx
    /\ Last(ref.sfx).v < c

\* Slip: the members of a counted base are not looked up.
RegHasNoMembers(ref) == ref \in names \/ \E b \in bases : b[1] = ref

reg_has(ref) ==
    ref \in names \/ \E b \in bases : b[1] = ref \/ reg_member(b[1], b[2], ref)

\* Slip: a base resolves to its first member.
ResolveFirst(name) ==
    LET exact == {j \in DOMAIN tab : tab[j].name = name}
        set   == {j \in DOMAIN tab : \E b \in rbases :
                      b[1] = name /\ reg_member(b[1], b[2], tab[j].name)}
    IN  IF exact # {} \/ set = {} THEN exact ELSE {Min(set)}

\* wl_resolve: exact names win, else the members of a base.
wl_resolve(name) ==
    LET exact == {j \in DOMAIN tab : tab[j].name = name}
        set   == {j \in DOMAIN tab : \E b \in rbases :
                      b[1] = name /\ reg_member(b[1], b[2], tab[j].name)}
    IN  IF exact # {} THEN exact ELSE set

-----------------------------------------------------------------------------
(* The lint.                                                               *)

\* Does a benchmark name its workloads like the members of a set?
Multi(s) == s.dur # 0 \/ s.cnt # 1

\* What the lint expects a step to mint.
Added(s) ==
    CASE s.k = "submit" -> IF s.cnt = 0 THEN 1 ELSE s.cnt
      [] s.k = "bench"  -> IF s.cnt # 0 THEN s.cnt ELSE s.dur
      [] s.k = "ramp"   -> s.dur

Counted(s) ==
    CASE s.k = "submit" -> s.cnt # 0
      [] s.k = "bench"  -> Multi(s)
      [] s.k = "ramp"   -> TRUE

\* val_top on one step.  The bench forms are told apart by their kind.
LintOk(s) ==
    IF s.k \in Mints
    THEN /\ ~(s.k = "submit" /\ s.bare /\ names # {})
         /\ ~reg_has(s.as)
         /\ nentries + Added(s) <= MaxWl
    ELSE reg_has(s.as)

\* The lint reads one more step and registers its names.
Lint(s) ==
    /\ pc = "lint" /\ Len(file) < MaxLen
    /\ LintOk(s)
    /\ file' = Append(file, s)
    /\ IF s.k \in Mints
       THEN /\ names' = names \union {s.as}
            /\ bases' = IF Counted(s) THEN bases \union {<<s.as, Added(s)>>}
                                      ELSE bases
            /\ nentries' = nentries + Added(s)
       ELSE UNCHANGED registry
    /\ UNCHANGED <<table, hits, pc, at, verdict>>

End(v) == pc' = "over" /\ verdict' = v

LintFails(s) ==
    /\ pc = "lint" /\ Len(file) < MaxLen
    /\ ~LintOk(s)
    /\ End("lint")
    /\ UNCHANGED <<file, registry, table, hits, at>>

Linted ==
    /\ pc = "lint" /\ file # <<>>
    /\ pc' = "run"
    /\ UNCHANGED <<file, registry, table, hits, at, verdict>>

-----------------------------------------------------------------------------
(* The run.                                                                *)

Running(ks) == pc = "run" /\ at <= Len(file) /\ file[at].k \in ks

\* Does the run add a number to the names of the step?
Suffixed(s) ==
    CASE s.k = "submit" -> Added(s) > 1
      [] s.k = "bench"  -> Multi(s)
      [] s.k = "ramp"   -> TRUE

\* n more entries of step at, called as, or as-0 .. as-(n-1).
Mint(s, n) ==
    tab' = tab \o [k \in 1..n |->
        [name |-> IF Suffixed(s) THEN Member(s.as, k - 1) ELSE s.as, by |-> at]]

\* A base is known once it has two members.
Base(s, n) ==
    rbases' = IF Suffixed(s) /\ n > 1 THEN rbases \union {<<s.as, n>>}
                                      ELSE rbases

Broken(s) ==
    IF s.bare /\ tab # <<>> THEN "second"
    ELSE IF wl_resolve(s.as) # {} THEN "dup"
    ELSE IF Added(s) + Len(tab) > MaxWl THEN "many"
    ELSE "none"

\* submit.  A fixed id ends the file as a skip before any rule.
Submit ==
    /\ Running({"submit"})
    /\ LET s == file[at]
           v == IF s.id THEN "skip" ELSE Broken(s)
       IN  IF v # "none"
           THEN End(v) /\ UNCHANGED <<table, at>>
           ELSE /\ Mint(s, Added(s)) /\ Base(s, Added(s))
                /\ at' = at + 1
                /\ UNCHANGED <<pc, verdict>>
    /\ hits' = {}
    /\ UNCHANGED <<file, registry>>

\* At most: the count, the product of rate and duration, the size of the
\* arrays.  Whether the time is over is looked at before the wait for the
\* next issue, so a duration leaves room for one issue more than its product;
\* a ramp counts its issues as well.
Limits(s) ==
    (IF s.k = "ramp" THEN {} ELSE {BenchCap})
        \union (IF s.cnt = 0 THEN {} ELSE {s.cnt})
        \union (IF s.dur = 0 THEN {}
                ELSE {IF s.k = "ramp" THEN s.dur ELSE s.dur + 1})

\* How many workloads a benchmark may issue: with a count all of them, with a
\* duration fewer when the system is slow, and what the table has room for.
Issues(s) ==
    LET room == MaxWl - Len(tab)
        most == Min(Limits(s) \union {room})
    IN  IF s.dur = 0 THEN {most} ELSE Min({1, room})..most

Issue(k) ==
    /\ Running({k})
    /\ \E n \in Issues(file[at]) : Mint(file[at], n) /\ Base(file[at], n)
    /\ at' = at + 1
    /\ hits' = {}
    /\ UNCHANGED <<file, registry, pc, verdict>>

Bench == Issue("bench")
Ramp  == Issue("ramp")

\* A name is resolved, and the step goes over what it stands for.
Tell(k) ==
    /\ Running({k})
    /\ hits' = wl_resolve(file[at].as)
    /\ IF hits' = {}
       THEN End("noref") /\ at' = at
       ELSE at' = at + 1 /\ UNCHANGED <<pc, verdict>>
    /\ UNCHANGED <<file, registry, table>>

Stop      == Tell("stop")
Update    == Tell("update")
Condition == Tell("cond")

\* A submit of a step fails after n others: the file has failed.
SubmitFails ==
    /\ Running(Mints)
    /\ LET s    == file[at]
           most == IF s.k = "submit" THEN Added(s) ELSE Max(Issues(s))
       IN  /\ s.k = "submit" => ~s.id /\ Broken(s) = "none"
           /\ \E n \in 0..(most - 1) : Mint(s, n)
    /\ End("sut")
    /\ hits' = {}
    /\ UNCHANGED <<file, registry, rbases, at>>

\* A stop or an update fails at a member, or a condition times out.
TellFails ==
    /\ Running(Refs)
    /\ \E h \in wl_resolve(file[at].as) :
           hits' = {j \in wl_resolve(file[at].as) : j < h}
    /\ End("sut")
    /\ UNCHANGED <<file, registry, table, at>>

Passed ==
    /\ pc = "run" /\ at > Len(file)
    /\ End("pass")
    /\ UNCHANGED <<file, registry, table, hits, at>>

WlNext ==
    \/ \E s \in Steps : Lint(s) \/ LintFails(s)
    \/ Linted
    \/ Submit \/ Bench \/ Ramp \/ SubmitFails
    \/ Stop \/ Update \/ Condition \/ TellFails
    \/ Passed

WlSpec == WlInit /\ [][WlNext]_wlVars

-----------------------------------------------------------------------------
(* Properties.                                                             *)

\* A step whose workloads the lint cannot foresee: one that time may cut
\* short or stretch, and a counted submit of one, which is named like a
\* single one.
Loose(s) == s.k \in Mints /\ (s.dur # 0 \/ s.cnt = 1)

Padded(s) == \E k \in DOMAIN s.as.sfx : s.as.sfx[k].pad # 0

\* A file that passes the lint does not break a rule of workload names when
\* it runs ("Break one and lint fails before anything runs"): no second bare
\* submit, no duplicate, no overflow of the table, and every name that a
\* stop, an update or a condition uses is that of an open workload or set.
\* It holds for files without loose steps and leading zeros.
PlainFilesRun ==
    (\A k \in DOMAIN file : ~Loose(file[k]) /\ ~Padded(file[k]))
        => verdict \notin Rules

\* The step before the current one was about a name and went well.
Referred == pc # "lint" /\ at > 1 /\ file[at - 1].k \in Refs /\ verdict # "sut"

\* The most that a step mints: a benchmark with a duration only may issue one
\* more than the lint has counted.
Most(s) == IF s.k = "bench" /\ s.cnt = 0 THEN s.dur + 1 ELSE Added(s)

\* A name has the form of a member of another step's set.  The lint lets that
\* pass when the member comes first, and when it is the one that it has not
\* counted; the names of the set then meet the other step's.
Clash ==
    \E k, l \in DOMAIN file :
        /\ k # l /\ file[k].k \in Mints /\ file[l].k \in Mints
        /\ reg_member(file[l].as, Most(file[l]), file[k].as)

\* A name stands for exactly what one step has minted ("A base name stops the
\* whole counted set"): a step on a base is about the whole set, and what any
\* step stops or updates is of one submit.
NamesExact ==
    Referred /\ hits # {} /\ ~Clash =>
        /\ \A j \in DOMAIN tab : file[tab[j].by].as = file[at - 1].as => j \in hits
        /\ \A j, l \in hits : tab[j].by = tab[l].by
=============================================================================
