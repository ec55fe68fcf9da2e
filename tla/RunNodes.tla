------------------------------ MODULE RunNodes ------------------------------
(***************************************************************************)
(* The child processes of one run and their descriptors: the tables of     *)
(* run/run.c (pids, logfds, fds, the poll vector, the dead slot) and the   *)
(* operations that change them: the spawns of sim/sim.c and driver/weld.c, *)
(* kill and restart of driver/concord.c and driver/weld.c, run_alive,      *)
(* run_note_dead, run_rearm and run_teardown.                              *)
(*                                                                         *)
(* The kernel is kept apart from the tables.  It knows every process       *)
(* number (free, one of our children, or somebody else's process) and      *)
(* every descriptor number; both are handed out again once free.  Children *)
(* die at any moment; they become zombies until they are waited for.       *)
(***************************************************************************)
EXTENDS Integers, FiniteSets

CONSTANTS N,     \* number of nodes
          Pids,  \* process numbers
          Fds,   \* descriptor numbers of log pipes
          None   \* -1 in pids, logfds and the poll vector

Nodes == 1..N

ASSUME NodesAssumption ==
    N \in Nat \ {0} /\ None \notin Pids /\ None \notin Fds

VARIABLES
    kst,    \* the kernel's processes: "free" "alien" "run" "zombie"
    knode,  \* the node a child was forked for; 0 for no child
    ksig,   \* the strongest signal a child was sent
    kfd,    \* the node whose log pipe a descriptor reads; 0 when free
    pids,   \* Run.pids
    logfd,  \* Run.logfds
    pollfd, \* the log half of Run.p
    tun,    \* Run.fds: is the TUN of a node open?
    dead,   \* Run.dead; 0 for -1
    sut,    \* which driver
    pc,     \* "spawn" "idle" "reap" "block" "wipe" "fork" "walk" "over"
    op,     \* what the wait or the walk is for
    cur     \* the node it is about

kernelVars == <<kst, knode, ksig, kfd>>
tableVars  == <<pids, logfd, pollfd, tun, dead>>
vars       == <<kernelVars, tableVars, sut, pc, op, cur>>

TypeOK ==
    /\ kst \in [Pids -> {"free", "alien", "run", "zombie"}]
    /\ knode \in [Pids -> 0..N]
    /\ ksig \in [Pids -> {"none", "TERM", "KILL"}]
    /\ kfd \in [Fds -> 0..N]
    /\ pids \in [Nodes -> Pids \union {None}]
    /\ logfd \in [Nodes -> Fds \union {None}]
    /\ pollfd \in [Nodes -> Fds \union {None}]
    /\ tun \in [Nodes -> BOOLEAN]
    /\ dead \in 0..N
    /\ sut \in {"concord", "weld"}
    /\ pc \in {"spawn", "idle", "reap", "block", "wipe", "fork", "walk", "over"}
    /\ op \in {"none", "kill", "restart", "unwind", "down"}
    /\ cur \in 1..(N + 1)

\* run_setup has opened the TUNs and parked the rest at -1.
Init ==
    /\ kst = [p \in Pids |-> "free"]
    /\ knode = [p \in Pids |-> 0]
    /\ ksig = [p \in Pids |-> "none"]
    /\ kfd = [d \in Fds |-> 0]
    /\ pids = [i \in Nodes |-> None]
    /\ logfd = [i \in Nodes |-> None]
    /\ pollfd = [i \in Nodes |-> None]
    /\ tun = [i \in Nodes |-> TRUE]
    /\ dead = 0
    /\ sut \in {"concord", "weld"}
    /\ pc = "spawn" /\ op = "none" /\ cur = 1

-----------------------------------------------------------------------------
(* Building blocks.                                                        *)

\* pipe and fork for a node: a free process number and a free descriptor.
Fork(i, p, d) ==
    /\ kst[p] = "free" /\ kfd[d] = 0
    /\ kst' = [kst EXCEPT ![p] = "run"]
    /\ knode' = [knode EXCEPT ![p] = i]
    /\ ksig' = [ksig EXCEPT ![p] = "none"]
    /\ kfd' = [kfd EXCEPT ![d] = i]
    /\ pids' = [pids EXCEPT ![i] = p]
    /\ logfd' = [logfd EXCEPT ![i] = d]

\* kill(pids[i], sig), whoever has that number.
Send(i, sig) == ksig' = [ksig EXCEPT ![pids[i]] = sig]

\* close(logfds[i]), if it is open.
CloseLog(i) ==
    /\ kfd' = [d \in Fds |-> IF d = logfd[i] THEN 0 ELSE kfd[d]]
    /\ logfd' = [logfd EXCEPT ![i] = None]

\* run_note_dead, on a node whose log is closed: one slot, the first keeps it.
NoteDead(i) ==
    /\ dead' = IF dead = 0 THEN i ELSE dead
    /\ pollfd' = IF dead = 0 THEN [pollfd EXCEPT ![i] = None] ELSE pollfd

\* The file ends or fails: run_teardown walks the nodes.
TearDown == pc' = "walk" /\ op' = "down" /\ cur' = 1

-----------------------------------------------------------------------------
(* Start.                                                                  *)

\* weld arms each node's log at once, concord all of them in the end.
SpawnOne ==
    /\ pc = "spawn" /\ cur <= N
    /\ \E p \in Pids, d \in Fds :
           /\ Fork(cur, p, d)
           /\ pollfd' = IF sut = "weld" THEN [pollfd EXCEPT ![cur] = d]
                                        ELSE pollfd
    /\ cur' = cur + 1
    /\ UNCHANGED <<tun, dead, sut, pc, op>>

Spawned ==
    /\ pc = "spawn" /\ cur > N
    /\ pollfd' = logfd
    /\ pc' = "idle"
    /\ UNCHANGED <<kernelVars, pids, logfd, tun, dead, sut, op, cur>>

\* Slip: a failed spawn ends the run, with neither unwind nor teardown.
SpawnFailsBare ==
    /\ pc = "spawn" /\ cur <= N
    /\ pc' = "over"
    /\ UNCHANGED <<kernelVars, tableVars, sut, op, cur>>

\* Seeding, pipe or fork fails.  concord unwinds the nodes it has started
\* before the caller tears down; weld leaves them to the teardown.
SpawnFails ==
    /\ pc = "spawn" /\ cur <= N
    /\ pc' = "walk" /\ cur' = 1
    /\ op' = IF sut = "concord" THEN "unwind" ELSE "down"
    /\ UNCHANGED <<kernelVars, tableVars, sut>>

-----------------------------------------------------------------------------
(* Steps of the scenario.                                                  *)

\* kill: concord_kill and weld_kill signal, then wait.
Kill(i, sig) ==
    /\ pc = "idle" /\ pids[i] # None
    /\ Send(i, sig)
    /\ pc' = "reap" /\ op' = "kill" /\ cur' = i
    /\ UNCHANGED <<kst, knode, kfd, tableVars, sut>>

\* Killing what is dead already closes the log and notes it.
KillGone(i) ==
    /\ pc = "idle" /\ pids[i] = None
    /\ CloseLog(i)
    /\ NoteDead(i)
    /\ UNCHANGED <<kst, knode, ksig, pids, tun, sut, pc, op, cur>>

\* Slip: the node is wiped and forked while its old process still runs.
RestartLive(i, sig) ==
    /\ pc = "idle" /\ pids[i] # None
    /\ CloseLog(i)
    /\ pc' = "wipe" /\ op' = "restart" /\ cur' = i
    /\ UNCHANGED <<kst, knode, ksig, pids, pollfd, tun, dead, sut>>

\* restart: kill_reap_close; TERM for the rotation of keys, else KILL.
Restart(i, sig) ==
    /\ pc = "idle" /\ pids[i] # None
    /\ Send(i, sig)
    /\ pc' = "reap" /\ op' = "restart" /\ cur' = i
    /\ UNCHANGED <<kst, knode, kfd, tableVars, sut>>

RestartGone(i) ==
    /\ pc = "idle" /\ pids[i] = None
    /\ CloseLog(i)
    /\ pc' = "wipe" /\ op' = "restart" /\ cur' = i
    /\ UNCHANGED <<kst, knode, ksig, pids, pollfd, tun, dead, sut>>

\* What the durability asks for: nothing, the node's directory, its key, its
\* journal and store, or a rotation by a helper process.  It may fail.
WipeOk ==
    /\ pc = "wipe"
    /\ pc' = "fork"
    /\ UNCHANGED <<kernelVars, tableVars, sut, op, cur>>

\* Slip: the new log is not published to the poll vector.
ForkUnarmed ==
    /\ pc = "fork"
    /\ \E p \in Pids, d \in Fds : Fork(cur, p, d)
    /\ dead' = IF dead = cur THEN 0 ELSE dead
    /\ pc' = "idle" /\ op' = "none"
    /\ UNCHANGED <<pollfd, tun, sut, cur>>

\* Fork again, then run_rearm: the log is polled and a dead mark is cleared.
ForkOk ==
    /\ pc = "fork"
    /\ \E p \in Pids, d \in Fds :
           Fork(cur, p, d) /\ pollfd' = [pollfd EXCEPT ![cur] = d]
    /\ dead' = IF dead = cur THEN 0 ELSE dead
    /\ pc' = "idle" /\ op' = "none"
    /\ UNCHANGED <<tun, sut, cur>>

RestartFails ==
    /\ pc \in {"wipe", "fork"}
    /\ TearDown
    /\ UNCHANGED <<kernelVars, tableVars, sut>>

\* The phases are over, or a step or a phase has failed.
EndFile ==
    /\ pc = "idle"
    /\ TearDown
    /\ UNCHANGED <<kernelVars, tableVars, sut>>

Running(i) == pids[i] # None /\ kst[pids[i]] = "run"

\* Slip: what was waited for stays in the table.
RunAliveKeeps(n) ==
    LET gone == {pids[i] : i \in {j \in 1..(n - 1) : pids[j] # None}}
    IN  /\ pc = "idle" /\ n \in Nodes /\ Running(n)
        /\ \A i \in 1..(n - 1) : ~Running(i)
        /\ gone # {}
        /\ kst' = [p \in Pids |-> IF p \in gone THEN "free" ELSE kst[p]]
        /\ knode' = [p \in Pids |-> IF p \in gone THEN 0 ELSE knode[p]]
        /\ UNCHANGED <<ksig, kfd, tableVars, sut, pc, op, cur>>

\* run_alive: waits for the dead below n, the first node that runs, and drops
\* them from the table; n = N + 1 when none runs, which fails the phase.
RunAlive(n) ==
    LET gone == {pids[i] : i \in {j \in 1..(n - 1) : pids[j] # None}}
    IN  /\ pc = "idle"
        /\ (n <= N => Running(n))
        /\ \A i \in 1..(n - 1) : ~Running(i)
        /\ gone # {}
        /\ kst' = [p \in Pids |-> IF p \in gone THEN "free" ELSE kst[p]]
        /\ knode' = [p \in Pids |-> IF p \in gone THEN 0 ELSE knode[p]]
        /\ pids' = [i \in Nodes |-> IF i < n THEN None ELSE pids[i]]
        /\ IF n <= N THEN UNCHANGED <<pc, op, cur>> ELSE TearDown
        /\ UNCHANGED <<ksig, kfd, logfd, pollfd, tun, dead, sut>>

-----------------------------------------------------------------------------
(* reap_bounded, spawn_wait and teardown_wait: poll for the child, after a *)
(* grace period KILL it and block.                                         *)

\* Slip: the grace period ends in another TERM.
GraceOverMild ==
    /\ pc = "reap" /\ kst[pids[cur]] = "run"
    /\ Send(cur, "TERM")
    /\ pc' = "block"
    /\ UNCHANGED <<kst, knode, kfd, tableVars, sut, op, cur>>

GraceOver ==
    /\ pc = "reap" /\ kst[pids[cur]] = "run"
    /\ Send(cur, "KILL")
    /\ pc' = "block"
    /\ UNCHANGED <<kst, knode, kfd, tableVars, sut, op, cur>>

\* Slip: a killed node keeps its number in the table.
WaitedKeeps ==
    /\ pc \in {"reap", "block"} /\ kst[pids[cur]] # "run"
    /\ kst' = [kst EXCEPT ![pids[cur]] = IF @ = "zombie" THEN "free" ELSE @]
    /\ knode' = [knode EXCEPT ![pids[cur]] = 0]
    /\ pids' = IF op = "kill" THEN pids ELSE [pids EXCEPT ![cur] = None]

\* waitpid yields the child, or ECHILD: the number is gone from the table.
Waited ==
    /\ pc \in {"reap", "block"} /\ kst[pids[cur]] # "run"
    /\ kst' = [kst EXCEPT ![pids[cur]] = IF @ = "zombie" THEN "free" ELSE @]
    /\ knode' = [knode EXCEPT ![pids[cur]] = 0]
    /\ pids' = [pids EXCEPT ![cur] = None]

KillDone ==
    /\ op = "kill" /\ Waited
    /\ CloseLog(cur)
    /\ NoteDead(cur)
    /\ pc' = "idle" /\ op' = "none"
    /\ UNCHANGED <<ksig, tun, sut, cur>>

RestartReaped ==
    /\ op = "restart" /\ Waited
    /\ CloseLog(cur)
    /\ pc' = "wipe"
    /\ UNCHANGED <<ksig, pollfd, tun, dead, sut, op, cur>>

WalkReaped ==
    /\ op \in {"unwind", "down"} /\ Waited
    /\ pc' = "walk"
    /\ UNCHANGED <<ksig, kfd, logfd, pollfd, tun, dead, sut, op, cur>>

-----------------------------------------------------------------------------
(* spawn_unwind and run_teardown walk the nodes.                           *)

AtDead == op = "down" /\ cur = dead

WalkDead ==
    /\ pc = "walk" /\ cur <= N /\ AtDead
    /\ tun' = [tun EXCEPT ![cur] = FALSE]
    /\ cur' = cur + 1
    /\ UNCHANGED <<kernelVars, pids, logfd, pollfd, dead, sut, pc, op>>

WalkTerm ==
    /\ pc = "walk" /\ cur <= N /\ ~AtDead /\ pids[cur] # None
    /\ Send(cur, "TERM")
    /\ pc' = "reap"
    /\ UNCHANGED <<kst, knode, kfd, tableVars, sut, op, cur>>

WalkClose ==
    /\ pc = "walk" /\ cur <= N /\ ~AtDead /\ pids[cur] = None
    /\ CloseLog(cur)
    /\ tun' = IF op = "down" THEN [tun EXCEPT ![cur] = FALSE] ELSE tun
    /\ cur' = cur + 1
    /\ UNCHANGED <<kst, knode, ksig, pids, pollfd, dead, sut, pc, op>>

Unwound ==
    /\ pc = "walk" /\ cur > N /\ op = "unwind"
    /\ TearDown
    /\ UNCHANGED <<kernelVars, tableVars, sut>>

TornDown ==
    /\ pc = "walk" /\ cur > N /\ op = "down"
    /\ pc' = "over"
    /\ UNCHANGED <<kernelVars, tableVars, sut, op, cur>>

-----------------------------------------------------------------------------
(* The kernel and the children.                                            *)

\* A child exits, crashes or heeds a signal.
Dies(p) ==
    /\ kst[p] = "run"
    /\ kst' = [kst EXCEPT ![p] = "zombie"]
    /\ UNCHANGED <<knode, ksig, kfd, tableVars, sut, pc, op, cur>>

\* A free number is given to a process that is none of ours, and back.
AlienStarts(p) ==
    /\ kst[p] = "free"
    /\ kst' = [kst EXCEPT ![p] = "alien"]
    /\ UNCHANGED <<knode, ksig, kfd, tableVars, sut, pc, op, cur>>

AlienEnds(p) ==
    /\ kst[p] = "alien"
    /\ kst' = [kst EXCEPT ![p] = "free"]
    /\ UNCHANGED <<knode, ksig, kfd, tableVars, sut, pc, op, cur>>

Waiting == GraceOver \/ KillDone \/ RestartReaped \/ WalkReaped
Walking == WalkDead \/ WalkTerm \/ WalkClose \/ Unwound \/ TornDown

Next ==
    \/ SpawnOne \/ Spawned \/ SpawnFails
    \/ \E i \in Nodes :
           \/ \E sig \in {"TERM", "KILL"} : Kill(i, sig) \/ Restart(i, sig)
           \/ KillGone(i) \/ RestartGone(i)
    \/ WipeOk \/ ForkOk \/ RestartFails \/ EndFile
    \/ \E n \in 1..(N + 1) : RunAlive(n)
    \/ Waiting \/ Walking
    \/ \E p \in Pids : Dies(p) \/ AlienStarts(p) \/ AlienEnds(p)

Spec == Init /\ [][Next]_vars

\* The runner goes on while it waits and walks, time passes, and a child that
\* was sent KILL dies.  Nothing is assumed of a child that was sent TERM.
Fairness ==
    /\ WF_vars(Waiting) /\ WF_vars(Walking)
    /\ \A p \in Pids : WF_vars(ksig[p] = "KILL" /\ Dies(p))

FairSpec == Spec /\ Fairness

-----------------------------------------------------------------------------
(* Properties.                                                             *)

Child(p) == kst[p] \in {"run", "zombie"}

\* The table and the kernel agree: a number in pids is a child of that node
\* that nobody has waited for, and every such child is in pids.  So what a
\* sample, a mesh count or a signal looks up is never a recycled number.
ChildrenTracked ==
    \A p \in Pids, i \in Nodes : pids[i] = p <=> Child(p) /\ knode[p] = i

\* No signal is sent to a number that is not, or no longer, a child of the
\* run (run_alive: "so teardown never kills a reused pid").
SignalsOwn == [][\A p \in Pids : ksig'[p] \notin {ksig[p], "none"} => Child(p)]_vars

\* Two processes of one node never exist at a time: a restart wipes and forks
\* only after the old process was waited for, so no home has two writers.
OneProcPerNode ==
    /\ \A p, q \in Pids : Child(p) /\ Child(q) /\ knode[p] = knode[q] => p = q
    /\ pc \in {"wipe", "fork"} => \A p \in Pids : ~(Child(p) /\ knode[p] = cur)

\* While the run polls, an open log is the one that is polled for its node,
\* so a ready log is read from the descriptor that is ready: the read does
\* not block, and the lines go to the right node.
LogsRouted ==
    pc = "idle" => \A i \in Nodes :
        logfd[i] # None => pollfd[i] = logfd[i] /\ kfd[logfd[i]] = i

\* However the file ended, once the teardown is over no child is left, not
\* even as a zombie, and no log or TUN is open.
NoLeak ==
    pc = "over" =>
        /\ \A p \in Pids : ~Child(p)
        /\ \A d \in Fds : kfd[d] = 0
        /\ \A i \in Nodes : ~tun[i]

\* A teardown ends, though children ignore TERM.
TeardownEnds == op = "down" ~> pc = "over"
=============================================================================
