--------------------------- MODULE RunNodesProofs ---------------------------
(***************************************************************************)
(* Proofs about the children of a run, for any number of nodes and any     *)
(* sets of process and descriptor numbers.                                 *)
(***************************************************************************)
EXTENDS RunNodes, TLAPS

\* A child was forked for a node.
KidsOfNodes == \A p \in Pids : Child(p) => knode[p] \in Nodes

\* The descriptor table and the kernel agree as the process table does.
FdsTracked == \A d \in Fds, i \in Nodes : logfd[i] = d <=> kfd[d] = i

\* The noted node has neither a process nor a log.
DeadGone == dead # 0 => pids[dead] = None /\ logfd[dead] = None

\* Outside the start and the end, what is open is polled.
Routed ==
    op \notin {"unwind", "down"} /\ pc # "spawn" =>
        \A i \in Nodes : logfd[i] # None => pollfd[i] = logfd[i]

\* The teardown leaves nothing behind where it has been.
Swept ==
    op = "down" => \A i \in Nodes :
        i < cur => pids[i] = None /\ logfd[i] = None /\ tun[i] = FALSE

\* What a wait, a wipe, a walk and the start know of the tables.
Stages ==
    /\ pc \in {"reap", "block"} => cur \in Nodes /\ pids[cur] # None /\ op # "none"
    /\ pc \in {"wipe", "fork"} =>
           cur \in Nodes /\ pids[cur] = None /\ logfd[cur] = None /\ op = "restart"
    /\ pc = "walk" => op \in {"unwind", "down"}
    /\ pc = "over" => op = "down" /\ cur = N + 1
    /\ pc = "idle" => op = "none"
    /\ pc = "spawn" =>
           /\ op = "none" /\ dead = 0
           /\ \A i \in Nodes : i >= cur => pids[i] = None /\ logfd[i] = None

Tables == ChildrenTracked /\ KidsOfNodes /\ FdsTracked /\ DeadGone
IInv   == TypeOK /\ Tables /\ Routed /\ Swept /\ Stages

LEMMA InitIInv == Init => IInv
  BY NodesAssumption
  DEF Init, IInv, Tables, TypeOK, ChildrenTracked, KidsOfNodes, FdsTracked,
      DeadGone, Routed, Swept, Stages, Child, Nodes

\* Every step keeps the invariant.  A process number or a descriptor enters
\* the tables by Fork and leaves them when it is waited for or closed; the
\* kernel gives it away again only after that.
LEMMA NextIInv == ASSUME IInv, [Next]_vars PROVE IInv'
<1> USE NodesAssumption DEF IInv, Tables, Child, Nodes, kernelVars, tableVars
<1>0. CASE UNCHANGED vars
  BY <1>0 DEF vars, TypeOK, ChildrenTracked, KidsOfNodes, FdsTracked, DeadGone,
      Routed, Swept, Stages
<1>1. CASE SpawnOne
  <2>1. TypeOK'
    BY <1>1 DEF SpawnOne, Fork, TypeOK, Stages
  <2>2. ChildrenTracked'
    BY <1>1 DEF SpawnOne, Fork, ChildrenTracked, TypeOK, Stages
  <2>3. KidsOfNodes'
    BY <1>1 DEF SpawnOne, Fork, KidsOfNodes, TypeOK, Stages, ChildrenTracked
  <2>4. FdsTracked'
    BY <1>1 DEF SpawnOne, Fork, FdsTracked, TypeOK, Stages
  <2>5. DeadGone'
    BY <1>1 DEF SpawnOne, Fork, DeadGone, TypeOK, Stages
  <2>6. Routed'
    BY <1>1 DEF SpawnOne, Fork, Routed, TypeOK, Stages
  <2>7. Swept'
    BY <1>1 DEF SpawnOne, Fork, Swept, TypeOK, Stages, DeadGone
  <2>8. Stages'
    BY <1>1 DEF SpawnOne, Fork, Stages, TypeOK
  <2> QED BY <2>1, <2>2, <2>3, <2>4, <2>5, <2>6, <2>7, <2>8
<1>2. CASE Spawned
  <2>1. TypeOK'
    BY <1>2 DEF Spawned, TypeOK, Stages
  <2>2. Routed'
    BY <1>2 DEF Spawned, Routed, TypeOK, Stages
  <2>3. Stages'
    BY <1>2 DEF Spawned, Stages, TypeOK
  <2> QED
    BY <1>2, <2>1, <2>2, <2>3 DEF Spawned, ChildrenTracked, KidsOfNodes,
       FdsTracked, DeadGone, Swept
<1>3. CASE SpawnFails
  BY <1>3 DEF SpawnFails, TypeOK, ChildrenTracked, KidsOfNodes,
     FdsTracked, DeadGone, Routed, Swept, Stages
<1>4. ASSUME NEW i \in Nodes, NEW sig \in {"TERM", "KILL"}, Kill(i, sig) PROVE IInv'
  BY <1>4 DEF Kill, Send, TypeOK, ChildrenTracked, KidsOfNodes,
     FdsTracked, DeadGone, Routed, Swept, Stages
<1>5. ASSUME NEW i \in Nodes, KillGone(i) PROVE IInv'
  <2>1. FdsTracked'
    BY <1>5 DEF KillGone, CloseLog, NoteDead, FdsTracked, TypeOK, Stages
  <2>2. DeadGone'
    BY <1>5 DEF KillGone, CloseLog, NoteDead, DeadGone, TypeOK, Stages
  <2>3. Routed'
    BY <1>5 DEF KillGone, CloseLog, NoteDead, Routed, TypeOK, Stages
  <2>4. Stages'
    BY <1>5 DEF KillGone, CloseLog, NoteDead, Stages, TypeOK
  <2> QED
    BY <1>5, <2>1, <2>2, <2>3, <2>4 DEF KillGone, CloseLog, NoteDead,
       TypeOK, ChildrenTracked, KidsOfNodes, Swept
<1>6. ASSUME NEW i \in Nodes, NEW sig \in {"TERM", "KILL"}, Restart(i, sig) PROVE IInv'
  BY <1>6 DEF Restart, Send, TypeOK, ChildrenTracked, KidsOfNodes,
     FdsTracked, DeadGone, Routed, Swept, Stages
<1>7. ASSUME NEW i \in Nodes, RestartGone(i) PROVE IInv'
  <2>1. FdsTracked'
    BY <1>7 DEF RestartGone, CloseLog, FdsTracked, TypeOK, Stages
  <2>2. DeadGone'
    BY <1>7 DEF RestartGone, CloseLog, DeadGone, TypeOK, Stages
  <2>3. Routed'
    BY <1>7 DEF RestartGone, CloseLog, Routed, TypeOK, Stages
  <2>4. Stages'
    BY <1>7 DEF RestartGone, CloseLog, Stages, TypeOK
  <2> QED
    BY <1>7, <2>1, <2>2, <2>3, <2>4 DEF RestartGone, CloseLog, TypeOK,
       ChildrenTracked, KidsOfNodes, Swept
<1>8. CASE WipeOk
  BY <1>8 DEF WipeOk, TypeOK, ChildrenTracked, KidsOfNodes, FdsTracked,
     DeadGone, Routed, Swept, Stages
<1>9. CASE ForkOk
  <2>1. TypeOK'
    BY <1>9 DEF ForkOk, Fork, TypeOK, Stages
  <2>2. ChildrenTracked'
    BY <1>9 DEF ForkOk, Fork, ChildrenTracked, TypeOK, Stages
  <2>3. KidsOfNodes'
    BY <1>9 DEF ForkOk, Fork, KidsOfNodes, TypeOK, Stages, ChildrenTracked
  <2>4. FdsTracked'
    BY <1>9 DEF ForkOk, Fork, FdsTracked, TypeOK, Stages
  <2>5. DeadGone'
    BY <1>9 DEF ForkOk, Fork, DeadGone, TypeOK, Stages
  <2>6. Routed'
    BY <1>9 DEF ForkOk, Fork, Routed, TypeOK, Stages
  <2>7. Stages'
    BY <1>9 DEF ForkOk, Fork, Stages, TypeOK
  <2> QED
    BY <1>9, <2>1, <2>2, <2>3, <2>4, <2>5, <2>6, <2>7 DEF ForkOk, Fork, Swept
<1>10. CASE RestartFails
  BY <1>10 DEF RestartFails, TearDown, TypeOK, ChildrenTracked,
     KidsOfNodes, FdsTracked, DeadGone, Routed, Swept, Stages
<1>11. CASE EndFile
  BY <1>11 DEF EndFile, TearDown, TypeOK, ChildrenTracked, KidsOfNodes,
     FdsTracked, DeadGone, Routed, Swept, Stages
<1>12. ASSUME NEW n \in 1..(N + 1), RunAlive(n) PROVE IInv'
  <2>1. TypeOK'
    BY <1>12 DEF RunAlive, Running, TearDown, TypeOK, Stages
  <2>2. ChildrenTracked'
    BY <1>12 DEF RunAlive, Running, TearDown, ChildrenTracked, TypeOK, Stages
  <2>3. KidsOfNodes'
    BY <1>12 DEF RunAlive, Running, TearDown, KidsOfNodes, TypeOK,
       Stages, ChildrenTracked
  <2>4. DeadGone'
    BY <1>12 DEF RunAlive, Running, TearDown, DeadGone, TypeOK, Stages
  <2>5. Swept'
    BY <1>12 DEF RunAlive, Running, TearDown, Swept, TypeOK, Stages, DeadGone
  <2>6. Stages'
    BY <1>12 DEF RunAlive, Running, TearDown, Stages, TypeOK
  <2> QED
    BY <1>12, <2>1, <2>2, <2>3, <2>4, <2>5, <2>6 DEF RunAlive, Running,
       TearDown, FdsTracked, Routed
<1>13. CASE GraceOver
  BY <1>13 DEF GraceOver, Send, TypeOK, ChildrenTracked, KidsOfNodes,
     FdsTracked, DeadGone, Routed, Swept, Stages
<1>14. CASE KillDone
  <2>1. TypeOK'
    BY <1>14 DEF KillDone, Waited, CloseLog, NoteDead, TypeOK, Stages
  <2>2. ChildrenTracked'
    BY <1>14 DEF KillDone, Waited, CloseLog, NoteDead, ChildrenTracked,
       TypeOK, Stages
  <2>3. KidsOfNodes'
    BY <1>14 DEF KillDone, Waited, CloseLog, NoteDead, KidsOfNodes,
       TypeOK, Stages, ChildrenTracked
  <2>4. FdsTracked'
    BY <1>14 DEF KillDone, Waited, CloseLog, NoteDead, FdsTracked,
       TypeOK, Stages
  <2>5. DeadGone'
    BY <1>14 DEF KillDone, Waited, CloseLog, NoteDead, DeadGone, TypeOK,
       Stages
  <2>6. Routed'
    BY <1>14 DEF KillDone, Waited, CloseLog, NoteDead, Routed, TypeOK, Stages
  <2>7. Swept'
    BY <1>14 DEF KillDone, Waited, CloseLog, NoteDead, Swept, TypeOK,
       Stages, DeadGone
  <2>8. Stages'
    BY <1>14 DEF KillDone, Waited, CloseLog, NoteDead, Stages, TypeOK
  <2> QED BY <2>1, <2>2, <2>3, <2>4, <2>5, <2>6, <2>7, <2>8
<1>15. CASE RestartReaped
  <2>1. TypeOK'
    BY <1>15 DEF RestartReaped, Waited, CloseLog, TypeOK, Stages
  <2>2. ChildrenTracked'
    BY <1>15 DEF RestartReaped, Waited, CloseLog, ChildrenTracked,
       TypeOK, Stages
  <2>3. KidsOfNodes'
    BY <1>15 DEF RestartReaped, Waited, CloseLog, KidsOfNodes, TypeOK,
       Stages, ChildrenTracked
  <2>4. FdsTracked'
    BY <1>15 DEF RestartReaped, Waited, CloseLog, FdsTracked, TypeOK, Stages
  <2>5. DeadGone'
    BY <1>15 DEF RestartReaped, Waited, CloseLog, DeadGone, TypeOK, Stages
  <2>6. Routed'
    BY <1>15 DEF RestartReaped, Waited, CloseLog, Routed, TypeOK, Stages
  <2>7. Swept'
    BY <1>15 DEF RestartReaped, Waited, CloseLog, Swept, TypeOK, Stages,
       DeadGone
  <2>8. Stages'
    BY <1>15 DEF RestartReaped, Waited, CloseLog, Stages, TypeOK
  <2> QED BY <2>1, <2>2, <2>3, <2>4, <2>5, <2>6, <2>7, <2>8
<1>16. CASE WalkReaped
  <2>1. TypeOK'
    BY <1>16 DEF WalkReaped, Waited, TypeOK, Stages
  <2>2. ChildrenTracked'
    BY <1>16 DEF WalkReaped, Waited, ChildrenTracked, TypeOK, Stages
  <2>3. KidsOfNodes'
    BY <1>16 DEF WalkReaped, Waited, KidsOfNodes, TypeOK, Stages,
       ChildrenTracked
  <2>4. FdsTracked'
    BY <1>16 DEF WalkReaped, Waited, FdsTracked, TypeOK, Stages
  <2>5. DeadGone'
    BY <1>16 DEF WalkReaped, Waited, DeadGone, TypeOK, Stages
  <2>6. Routed'
    BY <1>16 DEF WalkReaped, Waited, Routed, TypeOK, Stages
  <2>7. Swept'
    BY <1>16 DEF WalkReaped, Waited, Swept, TypeOK, Stages, DeadGone
  <2>8. Stages'
    BY <1>16 DEF WalkReaped, Waited, Stages, TypeOK
  <2> QED BY <2>1, <2>2, <2>3, <2>4, <2>5, <2>6, <2>7, <2>8
<1>17. CASE WalkDead
  <2>1. Swept'
    BY <1>17 DEF WalkDead, AtDead, Swept, TypeOK, Stages, DeadGone
  <2> QED
    BY <1>17, <2>1 DEF WalkDead, AtDead, TypeOK, ChildrenTracked,
       KidsOfNodes, FdsTracked, DeadGone, Routed, Stages
<1>18. CASE WalkTerm
  <2>1. Stages'
    BY <1>18 DEF WalkTerm, AtDead, Send, Stages, TypeOK
  <2> QED
    BY <1>18, <2>1 DEF WalkTerm, AtDead, Send, TypeOK, ChildrenTracked,
       KidsOfNodes, FdsTracked, DeadGone, Routed, Swept
<1>19. CASE WalkClose
  <2>1. FdsTracked'
    BY <1>19 DEF WalkClose, CloseLog, AtDead, FdsTracked, TypeOK, Stages
  <2>2. DeadGone'
    BY <1>19 DEF WalkClose, CloseLog, AtDead, DeadGone, TypeOK, Stages
  <2>3. Swept'
    BY <1>19 DEF WalkClose, CloseLog, AtDead, Swept, TypeOK, Stages, DeadGone
  <2>4. Stages'
    BY <1>19 DEF WalkClose, CloseLog, AtDead, Stages, TypeOK
  <2> QED
    BY <1>19, <2>1, <2>2, <2>3, <2>4 DEF WalkClose, CloseLog, AtDead,
       TypeOK, ChildrenTracked, KidsOfNodes, Routed
<1>20. CASE Unwound
  BY <1>20 DEF Unwound, TearDown, TypeOK, ChildrenTracked, KidsOfNodes,
     FdsTracked, DeadGone, Routed, Swept, Stages
<1>21. CASE TornDown
  BY <1>21 DEF TornDown, TypeOK, ChildrenTracked, KidsOfNodes, FdsTracked,
     DeadGone, Routed, Swept, Stages
<1>22. ASSUME NEW p \in Pids, Dies(p) PROVE IInv'
  <2>1. ChildrenTracked'
    BY <1>22 DEF Dies, ChildrenTracked, TypeOK, Stages
  <2>2. KidsOfNodes'
    BY <1>22 DEF Dies, KidsOfNodes, TypeOK, Stages, ChildrenTracked
  <2> QED
    BY <1>22, <2>1, <2>2 DEF Dies, TypeOK, FdsTracked, DeadGone, Routed,
       Swept, Stages
<1>23. ASSUME NEW p \in Pids, AlienStarts(p) PROVE IInv'
  <2>1. ChildrenTracked'
    BY <1>23 DEF AlienStarts, ChildrenTracked, TypeOK, Stages
  <2>2. KidsOfNodes'
    BY <1>23 DEF AlienStarts, KidsOfNodes, TypeOK, Stages, ChildrenTracked
  <2> QED
    BY <1>23, <2>1, <2>2 DEF AlienStarts, TypeOK, FdsTracked, DeadGone,
       Routed, Swept, Stages
<1>24. ASSUME NEW p \in Pids, AlienEnds(p) PROVE IInv'
  <2>1. ChildrenTracked'
    BY <1>24 DEF AlienEnds, ChildrenTracked, TypeOK, Stages
  <2>2. KidsOfNodes'
    BY <1>24 DEF AlienEnds, KidsOfNodes, TypeOK, Stages, ChildrenTracked
  <2> QED
    BY <1>24, <2>1, <2>2 DEF AlienEnds, TypeOK, FdsTracked, DeadGone,
       Routed, Swept, Stages
<1> HIDE DEF IInv
<1> QED
  BY <1>0, <1>1, <1>2, <1>3, <1>4, <1>5, <1>6, <1>7, <1>8, <1>9, <1>10, <1>11, <1>12,
     <1>13, <1>14, <1>15, <1>16, <1>17, <1>18, <1>19, <1>20, <1>21, <1>22, <1>23, <1>24
  DEF Next, Waiting, Walking

LEMMA InductiveIInv == Spec => []IInv
  BY InitIInv, NextIInv, PTL DEF Spec

-----------------------------------------------------------------------------

\* The tables of a run keep their types.
THEOREM TypeCorrect == Spec => []TypeOK
<1>1. IInv => TypeOK
  BY DEF IInv
<1> QED BY <1>1, InductiveIInv, PTL

\* pids names exactly the children nobody has waited for, so a number the
\* kernel has given to somebody else is never in it.
THEOREM ChildrenAreTracked == Spec => []ChildrenTracked
<1>1. IInv => ChildrenTracked
  BY DEF IInv, Tables
<1> QED BY <1>1, InductiveIInv, PTL

\* kill and restart wait before they fork or wipe: one process per home.
THEOREM HomesAreExclusive == Spec => []OneProcPerNode
<1>1. IInv => OneProcPerNode
  <2> SUFFICES ASSUME IInv PROVE OneProcPerNode
    OBVIOUS
  <2>1. ASSUME NEW p \in Pids, NEW q \in Pids, Child(p), Child(q), knode[p] = knode[q]
        PROVE  p = q
    BY <2>1 DEF IInv, Tables, ChildrenTracked, KidsOfNodes
  <2>2. ASSUME pc \in {"wipe", "fork"}, NEW p \in Pids, Child(p), knode[p] = cur
        PROVE  FALSE
    BY <2>2, NodesAssumption DEF IInv, Tables, ChildrenTracked, Stages
  <2> QED BY <2>1, <2>2 DEF OneProcPerNode
<1> QED BY <1>1, InductiveIInv, PTL

\* An open log is polled for its own node, though descriptors are reused.
THEOREM LogsAreRouted == Spec => []LogsRouted
<1>1. IInv => LogsRouted
  BY DEF IInv, Tables, LogsRouted, Routed, FdsTracked, TypeOK, Stages
<1> QED BY <1>1, InductiveIInv, PTL

\* Whatever happened before, after run_teardown there is no child, no log and
\* no TUN.
THEOREM NothingLeaks == Spec => []NoLeak
<1>1. IInv => NoLeak
  <2> SUFFICES ASSUME IInv, pc = "over" PROVE NoLeak
    BY DEF NoLeak
  <2>1. \A i \in Nodes : pids[i] = None /\ logfd[i] = None /\ tun[i] = FALSE
    BY NodesAssumption DEF IInv, Swept, Stages, Nodes
  <2>2. \A p \in Pids : ~Child(p)
    BY <2>1, NodesAssumption DEF IInv, Tables, ChildrenTracked, KidsOfNodes
  <2>3. \A d \in Fds : kfd[d] = 0
    BY <2>1, NodesAssumption DEF IInv, Tables, FdsTracked, TypeOK, Nodes
  <2> QED BY <2>1, <2>2, <2>3 DEF NoLeak
<1> QED BY <1>1, InductiveIInv, PTL

\* Only children of the run are signalled: a number is looked up in pids, and
\* pids forgets it in the step that waits for it.
THEOREM SignalsAreOwn == Spec => SignalsOwn
<1>1. ASSUME IInv, [Next]_vars
      PROVE  [\A p \in Pids : ksig'[p] \notin {ksig[p], "none"} => Child(p)]_vars
  <2> SUFFICES ASSUME Next, NEW p \in Pids, ksig'[p] \notin {ksig[p], "none"}
               PROVE  Child(p)
    BY <1>1
  <2>1. ASSUME NEW i \in Nodes, NEW sig, pids[i] # None, Send(i, sig) PROVE Child(p)
    <3>1. p = pids[i]
      BY <2>1, <1>1 DEF Send, IInv, TypeOK
    <3> QED BY <2>1, <3>1, <1>1 DEF IInv, Tables, ChildrenTracked
  <2>2. ASSUME NEW i \in Nodes, NEW q \in Pids, NEW d \in Fds, Fork(i, q, d) PROVE FALSE
    BY <2>2, <1>1 DEF Fork, IInv, TypeOK
  <2>3. CASE SpawnOne
    BY <2>2, <2>3, <1>1, NodesAssumption DEF SpawnOne, IInv, TypeOK, Nodes
  <2>4. CASE ForkOk
    BY <2>2, <2>4, <1>1 DEF ForkOk, IInv, Stages
  <2>5. CASE GraceOver
    BY <2>1, <2>5, <1>1 DEF GraceOver, IInv, Stages
  <2>6. CASE WalkTerm
    BY <2>1, <2>6, <1>1, NodesAssumption DEF WalkTerm, IInv, TypeOK, Nodes
  <2>7. ASSUME NEW i \in Nodes, NEW sig \in {"TERM", "KILL"}, Kill(i, sig) \/ Restart(i, sig)
        PROVE  Child(p)
    BY <2>1, <2>7 DEF Kill, Restart
  <2>8. CASE UNCHANGED ksig
    BY <2>8
  <2> QED
    BY <2>3, <2>4, <2>5, <2>6, <2>7, <2>8
    DEF Next, Waiting, Walking, Spawned, SpawnFails, KillGone, RestartGone, WipeOk,
        RestartFails, EndFile, RunAlive, KillDone, RestartReaped, WalkReaped, WalkDead,
        WalkClose, Unwound, TornDown, Dies, AlienStarts, AlienEnds, kernelVars
<1> QED BY <1>1, InductiveIInv, PTL DEF Spec, SignalsOwn
=============================================================================
