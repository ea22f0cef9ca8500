---------------------------- MODULE AgentProofs ----------------------------
(***************************************************************************)
(* Proofs about Agent for any number of resources, directories, events,    *)
(* restarts and changes of health.                                         *)
(*                                                                         *)
(* The invariant has three parts.  OwnInv: goroutines that are alive in a  *)
(* directory know of each other, and what the directory holds was written  *)
(* by one of them.  WatchInv: what is alive beside the registration of a   *)
(* resource is younger than it, unless it overlapped with it, and only a   *)
(* DELETE that will unregister the resource has destroyed what was alone.  *)
(* ShownInv: of a resource the watcher checks and reports one entry at a   *)
(* time, and no other than the registered one once that has a health.      *)
(***************************************************************************)
EXTENDS Agent, TLAPS

Live == {"start", "init", "run", "running", "report", "watch"}

TypeInv ==
    /\ sent     \in 0..MaxEvents
    /\ task     \in [Events -> Task]
    /\ file     \in [Dirs -> SomeEvent]
    /\ backend  \in [Dirs -> Resources \cup {NoResource}]
    /\ lock     \in [Resources -> SomeEvent]
    /\ infra    \in [Resources -> SomeEvent]
    /\ kube     \in [Containers -> Healths]
    /\ watched  \in [Resources -> SomeEvent]
    /\ last     \in [Events -> Healths \cup {NoHealth}]
    /\ checking \subseteq Events
    /\ sending  \in [entry : SomeEvent, health : Healths \cup {NoHealth}]
    /\ missed   \subseteq Events
    /\ record   \in [Resources -> Record]
    /\ crashes  \in 0..MaxCrashes
    /\ changes  \in 0..MaxChanges

LockInv ==
    \A r \in Resources : lock[r] # NoEvent =>
        /\ task[lock[r]].pc \in {"running", "orphan"}
        /\ StateOf(task[lock[r]].cfg) = r

(* The events that were sent have a task, those that were not a blank one. *)
Known == \A e \in Events : /\ e <= sent <=> task[e].pc # "none"
                           /\ task[e].pc = "none" => task[e].others = {}

(* The directory's file and the configuration terraform has read.          *)
OwnFile == \A e \in Events : task[e].pc \in {"init", "run"} => file[Dir(e)] \in {e} \cup task[e].others
OwnCfg  == \A e \in Events : task[e].pc \in {"running", "orphan"} => task[e].cfg \in {e} \cup task[e].others

Overlap ==
    \A e, f \in Events : Unfinished(e) /\ Unfinished(f) /\ e # f /\ Dir(e) = Dir(f)
                            => f \in task[e].others
SameDir ==
    \A e, f \in Events : e <= sent /\ f \in task[e].others => f <= sent /\ Dir(f) = Dir(e)

OwnInv == Known /\ OwnFile /\ OwnCfg /\ Overlap /\ SameDir /\ LockInv

WatchedEnded ==
    \A r \in Resources : watched[r] # NoEvent =>
        watched[r] <= sent /\ task[watched[r]].resource = r /\ task[watched[r]].pc = "ended"

OrphansAreOld ==
    \A c \in Events : task[c].pc = "orphan" =>
        /\ \A r \in Resources : watched[r] # NoEvent => c < watched[r]
        /\ \A e \in Events : task[e].pc \in Live => c < e

(* A goroutine older than a registration, and still alive, overlapped it.  *)
OlderOverlapped ==
    \A r \in Resources, f \in Events :
        watched[r] # NoEvent /\ Unfinished(f) /\ f < watched[r] /\ Dir(f) = DirOf[r]
            => f \in task[watched[r]].others

(* Beside a registration that was alone, what overlaps with a goroutine of *)
(* the directory is younger than the registration and knows of it.         *)
YoungerKnow ==
    \A r \in Resources, g, c \in Events :
        ( /\ watched[r] # NoEvent /\ task[watched[r]].others = {}
          /\ Unfinished(g) /\ Dir(g) = DirOf[r]
          /\ c \in task[g].others /\ task[c].resource = r )
        => c > watched[r] /\ g \in task[c].others

AppliedAlone ==
    \A e \in Events :
        ( /\ task[e].pc \in {"report", "watch"} /\ task[e].op = "DEPLOY"
          /\ task[e].success /\ task[e].others = {} )
        => infra[task[e].resource] # NoEvent

Destroying(r) ==
    \E e \in Events : /\ task[e].pc \in {"report", "watch"}
                      /\ task[e].op = "DELETE" /\ task[e].resource = r

DestroyedByDelete ==
    \A r \in Resources :
        watched[r] # NoEvent /\ NoOverlap(r, watched[r]) /\ infra[r] = NoEvent => Destroying(r)

WatchInv ==
    /\ WatchedEnded /\ OrphansAreOld /\ OlderOverlapped /\ YoungerKnow
    /\ AppliedAlone /\ DestroyedByDelete

(* The entries the watcher has to check or is reporting.                   *)
Busy == checking \cup ({sending.entry} \ {NoEvent})

HealthyEnded == \A e \in Events : last[e] # NoHealth \/ e \in Busy => task[e].pc = "ended"
SendingLast  == sending = Idle \/ (sending.entry \in Events /\ last[sending.entry] = sending.health)
BusyDiffer   == \A x, y \in Busy : task[x].resource = task[y].resource => x = y
BusyIsWatched ==
    \A r \in Resources, y \in Busy :
        watched[r] # NoEvent /\ last[watched[r]] # NoHealth /\ task[y].resource = r
            => y = watched[r]
SpecExists ==
    \A r \in Resources : /\ record[r].spec <= sent
                         /\ record[r].spec # NoEvent => record[r].exists

ShownInv == HealthyEnded /\ SendingLast /\ BusyDiffer /\ BusyIsWatched /\ SpecExists
            /\ RememberedIsShown

IInv == TypeInv /\ OwnInv /\ WatchInv /\ ShownInv

-----------------------------------------------------------------------------
(* How an action changes a task.                                           *)

Keeps(e) == /\ task'[e].op = task[e].op /\ task'[e].resource = task[e].resource
            /\ task'[e].others = task[e].others

Moves(e, p, q) ==
    /\ task' \in [Events -> Task]
    /\ task[e].pc = p /\ task'[e].pc = q
    /\ Keeps(e)
    /\ \A f \in Events : f # e => task'[f] = task[f]

(* A result, of a run that failed or succeeded.                            *)
LEMMA ReportMoves ==
    ASSUME TypeInv, NEW e \in Events, NEW b \in BOOLEAN,
           task' = [task EXCEPT ![e].pc = "report", ![e].success = b]
    PROVE  Moves(e, task[e].pc, "report") /\ task'[e].success = b
<1>1. task' = [task EXCEPT ![e] = [task[e] EXCEPT !.pc = "report", !.success = b]]
  BY DEF TypeInv
<1>2. task[e] \in Task
  BY DEF TypeInv
<1>3. [task[e] EXCEPT !.pc = "report", !.success = b] \in Task
  BY <1>2 DEF Task
<1> QED BY <1>1, <1>2, <1>3 DEF TypeInv, Task, Moves, Keeps

(* Each step of a goroutine up to its report, as a move.                   *)
LEMMA TaskMoves ==
    ASSUME TypeInv, NEW e \in Events
    PROVE  /\ Rejects(e) => Moves(e, "start", "report") /\ ~task'[e].success
           /\ WritesConfig(e) => Moves(e, "start", "init")
           /\ RunsInit(e) => \/ Moves(e, "init", "run") /\ task'[e].cfg = task[e].cfg
                             \/ Moves(e, "init", "report") /\ ~task'[e].success
           /\ RunsTerraform(e) =>
                \/ /\ Moves(e, "run", "running") /\ task'[e].cfg = file[Dir(e)]
                   /\ lock[StateOf(file[Dir(e)])] = NoEvent
                   /\ lock' = [lock EXCEPT ![StateOf(file[Dir(e)])] = e]
                \/ /\ Moves(e, "run", "report") /\ ~task'[e].success /\ UNCHANGED lock
           /\ TerraformEnds(e) =>
                /\ Moves(e, "running", "report")
                /\ Changes(e) \/ (UNCHANGED infra /\ ~task'[e].success)
           /\ Reports(e) => Moves(e, "report", "watch") /\ task'[e].success = task[e].success
<1> USE DEF TypeInv, Task, Moves, Keeps
<1>1. ASSUME Rejects(e) PROVE Moves(e, "start", "report") /\ ~task'[e].success
  BY <1>1 DEF Rejects, Fails
<1>2. ASSUME WritesConfig(e) PROVE Moves(e, "start", "init")
  BY <1>2 DEF WritesConfig
<1>3. ASSUME RunsInit(e)
      PROVE  \/ Moves(e, "init", "run") /\ task'[e].cfg = task[e].cfg
             \/ Moves(e, "init", "report") /\ ~task'[e].success
  <2>1. CASE task' = [task EXCEPT ![e].pc = "run"]
    BY <1>3, <2>1 DEF RunsInit
  <2>2. CASE Fails(e)
    <3>1. task[e].pc = "init"
      BY <1>3 DEF RunsInit
    <3> QED BY <2>2, <3>1, ReportMoves DEF Fails
  <2> QED BY <1>3, <2>1, <2>2 DEF RunsInit
<1>4. ASSUME RunsTerraform(e)
      PROVE  \/ /\ Moves(e, "run", "running") /\ task'[e].cfg = file[Dir(e)]
                /\ lock[StateOf(file[Dir(e)])] = NoEvent
                /\ lock' = [lock EXCEPT ![StateOf(file[Dir(e)])] = e]
             \/ /\ Moves(e, "run", "report") /\ ~task'[e].success /\ UNCHANGED lock
  <2>1. file[Dir(e)] \in SomeEvent
    BY AgentAssumption DEF Dir
  <2> QED BY <1>4, <2>1 DEF RunsTerraform, Fails
<1>5. ASSUME TerraformEnds(e)
      PROVE  /\ Moves(e, "running", "report")
             /\ Changes(e) \/ (UNCHANGED infra /\ ~task'[e].success)
  <2>1. CASE Changes(e) /\ task' = [task EXCEPT ![e].pc = "report", ![e].success = TRUE]
    <3>1. task[e].pc = "running"
      BY <1>5 DEF TerraformEnds
    <3> QED BY <2>1, <3>1, ReportMoves
  <2>2. CASE Fails(e) /\ (Changes(e) \/ UNCHANGED infra)
    <3>1. Moves(e, "running", "report") /\ ~task'[e].success
      <4>1. task[e].pc = "running"
        BY <1>5 DEF TerraformEnds
      <4> QED BY <2>2, <4>1, ReportMoves DEF Fails
    <3> QED BY <2>2, <3>1
  <2> QED BY <1>5, <2>1, <2>2 DEF TerraformEnds
<1>6. ASSUME Reports(e)
      PROVE Moves(e, "report", "watch") /\ task'[e].success = task[e].success
  BY <1>6 DEF Reports
<1> QED BY <1>1, <1>2, <1>3, <1>4, <1>5, <1>6

(* The last step of a goroutine.                                           *)
LEMMA FinishMoves ==
    ASSUME TypeInv, NEW e \in Events, Finishes(e)
    PROVE  /\ task' \in [Events -> Task] /\ task[e].pc = "watch" /\ task'[e].pc = "ended"
           /\ task'[e].resource = task[e].resource
           /\ task'[e].others = IF task[e].op = "DEPLOY" THEN task[e].others ELSE {}
           /\ \A f \in Events : f # e => task'[f] = task[f]
BY DEF TypeInv, Task, Finishes, Ended, NoTask, NoEvent, SomeEvent

(* The end of an orphan.                                                   *)
LEMMA OrphanMoves ==
    ASSUME TypeInv, NEW e \in Events, OrphanEnds(e)
    PROVE  /\ task' \in [Events -> Task] /\ task[e].pc = "orphan" /\ task'[e].pc = "ended"
           /\ task'[e].resource = task[e].resource /\ task'[e].others = {}
           /\ \A f \in Events : f # e => task'[f] = task[f]
BY DEF TypeInv, Task, OrphanEnds, Ended, NoTask, NoEvent, SomeEvent

(* A restart.                                                              *)
LEMMA RestartMoves ==
    ASSUME TypeInv, Restarts
    PROVE  /\ task' \in [Events -> Task]
           /\ \A e \in Events :
                /\ task[e].pc = "none" => task'[e] = task[e]
                /\ task[e].pc \in {"running", "orphan"} =>
                     task'[e].pc = "orphan" /\ Keeps(e) /\ task'[e].cfg = task[e].cfg
                /\ task[e].pc \notin {"none", "running", "orphan"} =>
                     /\ task'[e].pc = "ended" /\ task'[e].resource = task[e].resource
                     /\ task'[e].others = {}
<1>1. \A e \in Events :
        task'[e] = CASE task[e].pc = "none" -> task[e]
                     [] task[e].pc \in {"running", "orphan"} -> [task[e] EXCEPT !.pc = "orphan"]
                     [] OTHER -> Ended(task[e].resource)
  BY DEF Restarts
<1>2. \A e \in Events : Ended(task[e].resource) \in Task
  BY DEF TypeInv, Task, Ended, NoTask, NoEvent, SomeEvent
<1>3. \A e \in Events : [task[e] EXCEPT !.pc = "orphan"] \in Task
  BY DEF TypeInv, Task
<1>4. \A e \in Events : task'[e] \in Task
  BY <1>1, <1>2, <1>3 DEF TypeInv
<1>5. task' \in [Events -> Task]
  BY <1>4 DEF Restarts
<1>6. ASSUME NEW e \in Events, task[e].pc = "none" PROVE task'[e] = task[e]
  BY <1>1, <1>6
<1>7. ASSUME NEW e \in Events, task[e].pc \in {"running", "orphan"}
      PROVE  task'[e].pc = "orphan" /\ Keeps(e) /\ task'[e].cfg = task[e].cfg
  <2>1. task'[e] = [task[e] EXCEPT !.pc = "orphan"]
    BY <1>1, <1>7
  <2> QED BY <2>1 DEF TypeInv, Task, Keeps
<1>8. ASSUME NEW e \in Events, task[e].pc \notin {"none", "running", "orphan"}
      PROVE  task'[e].pc = "ended" /\ task'[e].resource = task[e].resource /\ task'[e].others = {}
  <2>1. task'[e] = Ended(task[e].resource)
    BY <1>1, <1>8
  <2> QED BY <2>1 DEF Ended, NoTask
<1> QED BY <1>5, <1>6, <1>7, <1>8

(* An event that is received, and one that is lost.                        *)
Received(op, r) ==
    LET e == sent + 1 IN
    /\ task'[e].pc = "start" /\ task'[e].op = op /\ task'[e].resource = r
    /\ task'[e].others = InDir(DirOf[r])
    /\ \A f \in Events : f # e =>
         /\ task'[f].pc = task[f].pc /\ task'[f].op = task[f].op
         /\ task'[f].resource = task[f].resource
         /\ task'[f].success = task[f].success /\ task'[f].cfg = task[f].cfg
         /\ task'[f].others = IF f \in InDir(DirOf[r]) THEN task[f].others \cup {e}
                                                       ELSE task[f].others
Lost(r) ==
    LET e == sent + 1 IN
    /\ task'[e].pc = "ended" /\ task'[e].resource = r /\ task'[e].others = {}
    /\ \A f \in Events : f # e => task'[f] = task[f]

LEMMA SendMoves ==
    ASSUME TypeInv, Known, NEW op \in {"DEPLOY", "DELETE"}, NEW r \in Resources, Sends(op, r)
    PROVE  /\ sent + 1 \in Events /\ sent' = sent + 1 /\ task[sent + 1].pc = "none"
           /\ task' \in [Events -> Task]
           /\ Received(op, r) \/ Lost(r)
<1> DEFINE e == sent + 1
           together == InDir(DirOf[r])
           new == [NoTask(r) EXCEPT !.pc = "start", !.op = op, !.others = together]
<1>1. e \in Events /\ sent' = e /\ ~(e <= sent)
  BY AgentAssumption DEF TypeInv, Sends, Events
<1>2. task[e].pc = "none" /\ e \notin together
  BY <1>1 DEF Known, InDir, Unfinished
<1>3. together \subseteq Events
  BY DEF InDir
<1>4. /\ new \in Task /\ new.pc = "start" /\ new.op = op /\ new.resource = r
      /\ new.others = together
  <2>1. NoTask(r) \in Task /\ NoTask(r).resource = r
    BY DEF NoTask, Task, NoEvent, SomeEvent
  <2> HIDE DEF together
  <2> QED BY <1>3, <2>1 DEF Task
<1>5. Ended(r) \in Task /\ Ended(r).pc = "ended" /\ Ended(r).resource = r /\ Ended(r).others = {}
  BY DEF Ended, NoTask, Task, NoEvent, SomeEvent
<1>6. CASE task' = [task EXCEPT ![e] = Ended(r)]
  <2>1. Lost(r) /\ task' \in [Events -> Task]
    BY <1>1, <1>5, <1>6 DEF TypeInv, Lost
  <2> QED BY <1>1, <1>2, <2>1
<1>7. CASE task' = [f \in Events |-> IF f \in together
                                     THEN [task[f] EXCEPT !.others = @ \cup {e}]
                                     ELSE [task EXCEPT ![e] = new][f]]
  <2>1. task'[e] = new
    BY <1>1, <1>2, <1>7 DEF TypeInv
  <2>2. \A f \in Events : f # e =>
          task'[f] = IF f \in together THEN [task[f] EXCEPT !.others = @ \cup {e}] ELSE task[f]
    BY <1>7 DEF TypeInv
  <2>3. \A f \in Events : [task[f] EXCEPT !.others = @ \cup {e}] \in Task
    BY <1>1 DEF TypeInv, Task
  <2>4. \A f \in Events : task'[f] \in Task
    <3> HIDE DEF new, together
    <3> QED BY <1>4, <2>1, <2>2, <2>3 DEF TypeInv
  <2>5. task' \in [Events -> Task]
    BY <1>7, <2>4
  <2>6. \A f \in Events : f # e =>
         /\ task'[f].pc = task[f].pc /\ task'[f].op = task[f].op
         /\ task'[f].resource = task[f].resource
         /\ task'[f].success = task[f].success /\ task'[f].cfg = task[f].cfg
         /\ task'[f].others = IF f \in together THEN task[f].others \cup {e} ELSE task[f].others
    <3> HIDE DEF together
    <3> SUFFICES ASSUME NEW f \in Events, f # e
                 PROVE /\ task'[f].pc = task[f].pc /\ task'[f].op = task[f].op
                       /\ task'[f].resource = task[f].resource
                       /\ task'[f].success = task[f].success /\ task'[f].cfg = task[f].cfg
                       /\ task'[f].others = IF f \in together THEN task[f].others \cup {e}
                                                              ELSE task[f].others
      OBVIOUS
    <3>1. task[f] \in Task
      BY DEF TypeInv
    <3>2. CASE f \in together
      <4>1. task'[f] = [task[f] EXCEPT !.others = @ \cup {e}]
        BY <2>2, <3>2
      <4> QED BY <3>1, <3>2, <4>1 DEF Task
    <3>3. CASE f \notin together
      <4>1. task'[f] = task[f]
        BY <2>2, <3>3
      <4> QED BY <3>3, <4>1
    <3> QED BY <3>2, <3>3
  <2>7. Received(op, r)
    BY <1>4, <2>1, <2>6 DEF Received
  <2> QED BY <1>1, <1>2, <2>5, <2>7
<1> QED BY <1>6, <1>7 DEF Sends

-----------------------------------------------------------------------------
(* The goroutines of a directory.                                          *)

LEMMA MovesOwn ==
    ASSUME TypeInv, OwnInv, NEW e \in Events, NEW p \in Live, NEW q \in Live,
           Moves(e, p, q), UNCHANGED sent,
           UNCHANGED file \/ file' = [file EXCEPT ![Dir(e)] = e],
           q \in {"init", "run"} => file'[Dir(e)] \in {e} \cup task[e].others,
           q = "running" => task'[e].cfg \in {e} \cup task[e].others,
           LockInv'
    PROVE  OwnInv'
<1>1. \A f \in Events : /\ task'[f].resource = task[f].resource
                        /\ task'[f].others = task[f].others
                        /\ task'[f].pc = IF f = e THEN q ELSE task[f].pc
                        /\ f # e => task'[f].cfg = task[f].cfg
  <2> SUFFICES ASSUME NEW f \in Events
               PROVE  /\ task'[f].resource = task[f].resource
                      /\ task'[f].others = task[f].others
                      /\ task'[f].pc = IF f = e THEN q ELSE task[f].pc
                      /\ f # e => task'[f].cfg = task[f].cfg
    OBVIOUS
  <2>1. CASE f = e
    BY <2>1 DEF Moves, Keeps
  <2>2. CASE f # e
    <3>1. task'[f] = task[f]
      BY <2>2 DEF Moves
    <3> QED BY <2>2, <3>1
  <2> QED BY <2>1, <2>2
<1>2. p \notin {"none", "ended"} /\ q \notin {"none", "ended", "orphan"} /\ task[e].pc = p
  BY DEF Live, Moves
<1>3. \A f \in Events : Unfinished(f)' <=> Unfinished(f)
  BY <1>1, <1>2 DEF Unfinished
<1>4. Known' /\ Overlap' /\ SameDir'
  <2>1. Known'
    BY <1>1, <1>2 DEF OwnInv, Known
  <2>2. Overlap'
    <3> SUFFICES ASSUME NEW f \in Events, NEW g \in Events,
                        (Unfinished(f) /\ Unfinished(g) /\ f # g /\ Dir(f) = Dir(g))'
                 PROVE  g \in task'[f].others
      BY DEF Overlap
    <3> QED BY <1>1, <1>3 DEF OwnInv, Overlap, Dir, Unfinished
  <2>3. SameDir'
    <3> SUFFICES ASSUME NEW f \in Events, NEW g \in Events,
                        f <= sent', g \in task'[f].others
                 PROVE  g <= sent' /\ DirOf[task'[g].resource] = DirOf[task'[f].resource]
      BY DEF SameDir, Dir
    <3>1. g \in task[f].others /\ f <= sent
      BY <1>1
    <3> QED BY <1>1, <3>1 DEF OwnInv, SameDir, Dir
  <2> QED BY <2>1, <2>2, <2>3
<1>5. OwnCfg'
  <2> SUFFICES ASSUME NEW f \in Events, task'[f].pc \in {"running", "orphan"}
               PROVE  task'[f].cfg \in {f} \cup task'[f].others
    BY DEF OwnCfg
  <2> QED BY <1>1, <1>2 DEF OwnInv, OwnCfg
<1>6. OwnFile'
  <2> SUFFICES ASSUME NEW f \in Events, f # e, task[f].pc \in {"init", "run"}
               PROVE  file'[Dir(f)] \in {f} \cup task[f].others
    <3> SUFFICES ASSUME NEW f \in Events, task'[f].pc \in {"init", "run"}
                 PROVE  file'[DirOf[task'[f].resource]] \in {f} \cup task'[f].others
      BY DEF OwnFile, Dir
    <3> QED BY <1>1, <1>2, file'[Dir(e)] \in {e} \cup task[e].others \/ q \notin {"init", "run"} DEF Dir
  <2>1. CASE Dir(f) = Dir(e) /\ file' = [file EXCEPT ![Dir(e)] = e]
    <3>1. e \in task[f].others
      BY <1>2, <2>1 DEF OwnInv, Overlap, Unfinished
    <3>2. Dir(e) \in Dirs
      BY AgentAssumption DEF TypeInv, Task, Dir
    <3> QED BY <2>1, <3>1, <3>2 DEF TypeInv
  <2>2. CASE file'[Dir(f)] = file[Dir(f)]
    BY <2>2 DEF OwnInv, OwnFile
  <2>3. CASE Dir(f) # Dir(e) /\ file' = [file EXCEPT ![Dir(e)] = e]
    <3>1. Dir(f) \in Dirs
      BY AgentAssumption DEF TypeInv, Task, Dir
    <3>2. file'[Dir(f)] = file[Dir(f)]
      BY <2>3, <3>1 DEF TypeInv
    <3> QED BY <2>2, <3>2
  <2> QED BY <2>1, <2>2, <2>3
<1> QED BY <1>4, <1>5, <1>6 DEF OwnInv

(* Terraform has read what an event that was sent has written.             *)
LEMMA CfgKnown ==
    ASSUME TypeInv, OwnInv, NEW e \in Events
    PROVE  /\ task[e].pc \in {"init", "run"} =>
                file[Dir(e)] \in Events /\ file[Dir(e)] <= sent
                /\ Dir(file[Dir(e)]) = Dir(e)
           /\ task[e].pc \in {"running", "orphan"} =>
                task[e].cfg \in Events /\ task[e].cfg <= sent
                /\ Dir(task[e].cfg) = Dir(e)
<1>1. task[e].others \subseteq Events
  BY DEF TypeInv, Task
<1>2. task[e].pc # "none" => e <= sent
  BY DEF OwnInv, Known
<1> QED BY <1>1, <1>2 DEF OwnInv, OwnFile, OwnCfg, SameDir

(* A step of one goroutine leaves the locks of the others as they are.     *)
LEMMA LockMoves ==
    ASSUME TypeInv, OwnInv, NEW e \in Events, NEW p, NEW q, Moves(e, p, q), UNCHANGED lock,
           p \notin {"running", "orphan"}
    PROVE  LockInv'
<1>1. \A r \in Resources : lock[r] # NoEvent => lock[r] \in Events /\ lock[r] # e
  BY DEF OwnInv, LockInv, TypeInv, SomeEvent, Moves
<1>2. \A f \in Events : task'[f].resource = task[f].resource
  BY DEF Moves, Keeps
<1>3. \A r \in Resources : lock[r] # NoEvent => task[lock[r]].cfg \in Events
  BY <1>1, CfgKnown DEF OwnInv, LockInv
<1> QED BY <1>1, <1>2, <1>3 DEF OwnInv, LockInv, Moves, StateOf

(* The end of a run frees the state it has locked, and no other.           *)
LEMMA UnlockMoves ==
    ASSUME TypeInv, OwnInv, NEW e \in Events, task[e].pc \in {"running", "orphan"},
           \A f \in Events : task'[f].resource = task[f].resource,
           \A f \in Events : f # e => task'[f] = task[f],
           lock' = [lock EXCEPT ![StateOf(task[e].cfg)] = NoEvent]
    PROVE  LockInv'
<1>1. task[e].cfg \in Events /\ StateOf(task[e].cfg) \in Resources
  BY CfgKnown DEF TypeInv, Task, StateOf
<1>2. \A r \in Resources : lock'[r] = IF r = StateOf(task[e].cfg) THEN NoEvent ELSE lock[r]
  BY <1>1 DEF TypeInv
<1>3. \A r \in Resources : lock[r] = e => r = StateOf(task[e].cfg)
  BY DEF OwnInv, LockInv, NoEvent, Events
<1>4. \A r \in Resources : lock[r] # NoEvent =>
          lock[r] \in Events /\ task[lock[r]].cfg \in Events
  BY CfgKnown DEF OwnInv, LockInv, TypeInv, SomeEvent
<1> SUFFICES ASSUME NEW r \in Resources, lock'[r] # NoEvent
             PROVE  /\ task'[lock'[r]].pc \in {"running", "orphan"}
                    /\ task'[task'[lock'[r]].cfg].resource = r
  BY DEF LockInv, StateOf
<1>5. lock'[r] = lock[r] /\ lock[r] # e /\ lock[r] \in Events /\ task[lock[r]].cfg \in Events
  BY <1>2, <1>3, <1>4
<1>6. task'[lock[r]] = task[lock[r]]
  BY <1>5
<1>7. task[lock[r]].pc \in {"running", "orphan"} /\ task[task[lock[r]].cfg].resource = r
  BY <1>5 DEF OwnInv, LockInv, StateOf
<1>8. task'[task[lock[r]].cfg].resource = r
  BY <1>5, <1>7
<1> QED BY <1>5, <1>6, <1>7, <1>8 DEF StateOf

-----------------------------------------------------------------------------
(* The types, and the goroutines of a directory, at every step.            *)

LEMMA SendsOwn ==
    ASSUME TypeInv, OwnInv, NEW op \in {"DEPLOY", "DELETE"}, NEW r \in Resources, Sends(op, r)
    PROVE  TypeInv' /\ OwnInv'
<1> PICK e \in Events : e = sent + 1
  BY SendMoves DEF OwnInv
<1>1. /\ e \in Events /\ e = sent + 1 /\ sent' = e /\ task[e].pc = "none" /\ sent \in Nat
      /\ task' \in [Events -> Task]
      /\ Received(op, r) \/ Lost(r)
  BY SendMoves DEF OwnInv, TypeInv
<1>2. UNCHANGED <<file, backend, lock, infra, kube, watchVars, crashes, changes>>
  BY DEF Sends
<1>3. record' \in [Resources -> Record]
  <2>1. [Blank EXCEPT !.exists = TRUE, !.spec = e] \in Record
    BY <1>1 DEF Blank, Record, NoEvent, SomeEvent
  <2>2. [record[r] EXCEPT !.deleting = TRUE] \in Record
    <3>1. record[r] \in Record
      BY DEF TypeInv
    <3> QED BY <3>1 DEF Record
  <2>3. record' = [record EXCEPT ![r] = IF op = "DEPLOY"
                                        THEN [Blank EXCEPT !.exists = TRUE, !.spec = e]
                                        ELSE [record[r] EXCEPT !.deleting = TRUE]]
    BY DEF Sends, TypeInv
  <2> QED BY <2>1, <2>2, <2>3 DEF TypeInv
<1>4. TypeInv'
  BY <1>1, <1>2, <1>3, AgentAssumption DEF TypeInv, watchVars, Events
<1>5. /\ task'[e].resource = r /\ task'[e].pc \in {"start", "ended"}
      /\ task'[e].others = IF Unfinished(e)' THEN InDir(DirOf[r]) ELSE {}
  BY <1>1 DEF Received, Lost, Unfinished
<1>6. \A f \in Events : f # e =>
        /\ task'[f].pc = task[f].pc /\ task'[f].resource = task[f].resource
        /\ task'[f].cfg = task[f].cfg
        /\ task'[f].others = IF Unfinished(e)' /\ f \in InDir(DirOf[r])
                             THEN task[f].others \cup {e} ELSE task[f].others
  BY <1>1, <1>5 DEF Received, Lost, Unfinished
<1>7. \A f \in Events : f <= sent => f # e
  BY <1>1
<1>8. \A f \in Events : f <= sent => f <= sent'
  BY <1>1 DEF Events
<1>9. e <= sent'
  BY <1>1 DEF Events
<1>10. Known'
  <2>1. \A f \in Events : f <= e <=> f <= sent \/ f = e
    BY <1>1 DEF Events
  <2>2. \A f \in Events : f \in InDir(DirOf[r]) => task[f].pc # "none"
    BY DEF InDir, Unfinished
  <2> QED BY <1>1, <1>5, <1>6, <2>1, <2>2 DEF OwnInv, Known
<1>11. OwnFile' /\ OwnCfg'
  <2>1. ASSUME NEW f \in Events, task'[f].pc \in {"init", "run"}
        PROVE  file'[DirOf[task'[f].resource]] \in {f} \cup task'[f].others
    BY <1>2, <1>5, <1>6, <2>1 DEF OwnInv, OwnFile, Dir
  <2>2. ASSUME NEW f \in Events, task'[f].pc \in {"running", "orphan"}
        PROVE  task'[f].cfg \in {f} \cup task'[f].others
    BY <1>5, <1>6, <2>2 DEF OwnInv, OwnCfg
  <2> QED BY <2>1, <2>2 DEF OwnFile, OwnCfg, Dir
<1>12. Overlap'
  <2> SUFFICES ASSUME NEW f \in Events, NEW g \in Events, f # g,
                      Unfinished(f)', Unfinished(g)',
                      DirOf[task'[f].resource] = DirOf[task'[g].resource]
               PROVE  g \in task'[f].others
    BY DEF Overlap, Dir
  <2>1. CASE f = e
    BY <1>5, <1>6, <2>1 DEF InDir, Unfinished, Dir
  <2>2. CASE g = e
    BY <1>5, <1>6, <2>2 DEF InDir, Unfinished, Dir
  <2>3. CASE f # e /\ g # e
    BY <1>6, <2>3 DEF OwnInv, Overlap, Unfinished, Dir
  <2> QED BY <2>1, <2>2, <2>3
<1>13. SameDir'
  <2> SUFFICES ASSUME NEW f \in Events, NEW g \in Events, f <= sent', g \in task'[f].others
               PROVE  g <= sent' /\ DirOf[task'[g].resource] = DirOf[task'[f].resource]
    BY DEF SameDir, Dir
  <2>1. CASE f = e
    <3>1. g \in InDir(DirOf[r])
      BY <1>5, <2>1
    <3>2. g # e /\ g <= sent
      BY <1>1, <3>1 DEF InDir, Unfinished, OwnInv, Known
    <3> QED BY <1>8, <1>5, <1>6, <2>1, <3>1, <3>2 DEF InDir, Dir
  <2>2. CASE f # e /\ g \in task[f].others
    <3>1. f <= sent
      BY <1>1, <2>2 DEF Events
    <3>2. g <= sent /\ DirOf[task[g].resource] = DirOf[task[f].resource]
      BY <2>2, <3>1 DEF OwnInv, SameDir, Dir
    <3> QED BY <1>8, <1>6, <1>7, <2>2, <3>2
  <2>3. CASE f # e /\ g = e /\ f \in InDir(DirOf[r])
    BY <1>9, <1>5, <1>6, <2>3 DEF InDir, Dir
  <2> QED BY <1>6, <2>1, <2>2, <2>3
<1>14. LockInv'
  <2> SUFFICES ASSUME NEW k \in Resources, lock[k] # NoEvent
               PROVE  /\ task'[lock[k]].pc \in {"running", "orphan"}
                      /\ task'[task'[lock[k]].cfg].resource = k
    BY <1>2 DEF LockInv, StateOf
  <2>1. lock[k] \in Events /\ task[lock[k]].pc \in {"running", "orphan"}
        /\ task[task[lock[k]].cfg].resource = k
    BY DEF OwnInv, LockInv, TypeInv, SomeEvent, StateOf
  <2>2. task[lock[k]].cfg \in Events /\ task[lock[k]].cfg <= sent
    BY <2>1, CfgKnown
  <2> QED BY <1>1, <1>6, <1>7, <2>1, <2>2
<1> QED BY <1>4, <1>10, <1>11, <1>12, <1>13, <1>14 DEF OwnInv

LEMMA RestartsOwn ==
    ASSUME TypeInv, OwnInv, Restarts
    PROVE  TypeInv' /\ OwnInv'
<1>1. /\ task' \in [Events -> Task]
      /\ UNCHANGED <<sent, file, backend, lock, infra, kube, record, changes>>
  BY RestartMoves DEF Restarts
<1>2. \A e \in Events :
        /\ task'[e].resource = task[e].resource
        /\ task'[e].others = task[e].others \/ task'[e].others = {}
        /\ task'[e].pc = "none" <=> task[e].pc = "none"
        /\ Unfinished(e)' => Unfinished(e) /\ task'[e].others = task[e].others
        /\ task'[e].pc \notin {"init", "run", "running"}
        /\ task'[e].pc = "orphan" <=> task[e].pc \in {"running", "orphan"}
        /\ task[e].pc \in {"running", "orphan"} => task'[e].cfg = task[e].cfg
  <2> SUFFICES ASSUME NEW e \in Events
               PROVE
        /\ task'[e].resource = task[e].resource
        /\ task'[e].others = task[e].others \/ task'[e].others = {}
        /\ task'[e].pc = "none" <=> task[e].pc = "none"
        /\ (task'[e].pc \notin {"none", "ended"}) => (task[e].pc \notin {"none", "ended"}) /\ task'[e].others = task[e].others
        /\ task'[e].pc \notin {"init", "run", "running"}
        /\ task'[e].pc = "orphan" <=> task[e].pc \in {"running", "orphan"}
        /\ task[e].pc \in {"running", "orphan"} => task'[e].cfg = task[e].cfg
    BY DEF Unfinished
  <2>1. CASE task[e].pc = "none"
    <3>1. task'[e] = task[e]
      BY <2>1, RestartMoves
    <3> QED BY <2>1, <3>1
  <2>2. CASE task[e].pc \in {"running", "orphan"}
    <3>1. task'[e].pc = "orphan" /\ Keeps(e) /\ task'[e].cfg = task[e].cfg
      BY <2>2, RestartMoves
    <3> QED BY <2>2, <3>1 DEF Keeps
  <2>3. CASE task[e].pc \notin {"none", "running", "orphan"}
    BY <2>3, RestartMoves
  <2> QED BY <2>1, <2>2, <2>3
<1>3. TypeInv'
  <2>1. crashes' \in 0..MaxCrashes
    BY AgentAssumption DEF Restarts, TypeInv
  <2>2. /\ watched' \in [Resources -> SomeEvent] /\ last' \in [Events -> Healths \cup {NoHealth}]
        /\ checking' = {} /\ missed' = {} /\ sending' \in [entry : SomeEvent, health : Healths \cup {NoHealth}]
    BY DEF Restarts, SomeEvent, Idle
  <2> QED BY <1>1, <2>1, <2>2 DEF TypeInv
<1>4. Known'
  BY <1>1, <1>2 DEF OwnInv, Known
<1>5. OwnFile' /\ OwnCfg'
  BY <1>1, <1>2 DEF OwnInv, OwnFile, OwnCfg, Unfinished
<1>6. Overlap'
  <2> SUFFICES ASSUME NEW f \in Events, NEW g \in Events, f # g,
                      Unfinished(f)', Unfinished(g)',
                      DirOf[task'[f].resource] = DirOf[task'[g].resource]
               PROVE  g \in task'[f].others
    BY DEF Overlap, Dir
  <2> QED BY <1>2 DEF OwnInv, Overlap, Dir
<1>7. SameDir'
  <2> SUFFICES ASSUME NEW f \in Events, NEW g \in Events, f <= sent', g \in task'[f].others
               PROVE  g <= sent' /\ DirOf[task'[g].resource] = DirOf[task'[f].resource]
    BY DEF SameDir, Dir
  <2>1. g \in task[f].others /\ f <= sent
    BY <1>1, <1>2
  <2> QED BY <1>1, <1>2, <2>1 DEF OwnInv, SameDir, Dir
<1>8. LockInv'
  <2> SUFFICES ASSUME NEW k \in Resources, lock[k] # NoEvent
               PROVE  /\ task'[lock[k]].pc \in {"running", "orphan"}
                      /\ task'[task'[lock[k]].cfg].resource = k
    BY <1>1 DEF LockInv, StateOf
  <2>1. lock[k] \in Events /\ task[lock[k]].pc \in {"running", "orphan"}
        /\ task[task[lock[k]].cfg].resource = k
    BY DEF OwnInv, LockInv, TypeInv, SomeEvent, StateOf
  <2>2. task[lock[k]].cfg \in Events
    BY <2>1, CfgKnown
  <2> QED BY <1>2, <2>1, <2>2
<1> QED BY <1>3, <1>4, <1>5, <1>6, <1>7, <1>8 DEF OwnInv

LEMMA EndsOwn ==
    ASSUME TypeInv, OwnInv, NEW e \in Events, UNCHANGED <<sent, file>>,
           task[e].pc \notin {"none", "ended"}, task'[e].pc = "ended",
           task'[e].resource = task[e].resource,
           task'[e].others \subseteq task[e].others,
           \A f \in Events : f # e => task'[f] = task[f],
           LockInv'
    PROVE  OwnInv'
<1>1. \A f \in Events : /\ task'[f].resource = task[f].resource
                        /\ task'[f].others \subseteq task[f].others
                        /\ task'[f].pc = "none" <=> task[f].pc = "none"
  <2> SUFFICES ASSUME NEW f \in Events
               PROVE  /\ task'[f].resource = task[f].resource
                      /\ task'[f].others \subseteq task[f].others
                      /\ task'[f].pc = "none" <=> task[f].pc = "none"
    OBVIOUS
  <2>1. CASE f = e
    BY <2>1
  <2>2. CASE f # e
    <3>1. task'[f] = task[f]
      BY <2>2
    <3> QED BY <3>1
  <2> QED BY <2>1, <2>2
<1>2. \A f \in Events : task'[f].pc # "ended" => task'[f] = task[f]
  OBVIOUS
<1>3. Known'
  BY <1>1 DEF OwnInv, Known
<1>4. OwnFile' /\ OwnCfg'
  <2>1. ASSUME NEW f \in Events, task'[f].pc \in {"init", "run"}
        PROVE  file'[DirOf[task'[f].resource]] \in {f} \cup task'[f].others
    <3>1. task'[f] = task[f]
      BY <1>2, <2>1
    <3> QED BY <2>1, <3>1 DEF OwnInv, OwnFile, Dir
  <2>2. ASSUME NEW f \in Events, task'[f].pc \in {"running", "orphan"}
        PROVE  task'[f].cfg \in {f} \cup task'[f].others
    <3>1. task'[f] = task[f]
      BY <1>2, <2>2
    <3> QED BY <2>2, <3>1 DEF OwnInv, OwnCfg
  <2> QED BY <2>1, <2>2 DEF OwnFile, OwnCfg, Dir
<1>5. Overlap'
  <2> SUFFICES ASSUME NEW f \in Events, NEW g \in Events, f # g,
                      task'[f].pc \notin {"none", "ended"}, task'[g].pc \notin {"none", "ended"},
                      DirOf[task'[f].resource] = DirOf[task'[g].resource]
               PROVE  g \in task'[f].others
    BY DEF Overlap, Dir, Unfinished
  <2>1. task'[f] = task[f] /\ task'[g] = task[g]
    BY <1>2
  <2> QED BY <2>1 DEF OwnInv, Overlap, Dir, Unfinished
<1>6. SameDir'
  <2> SUFFICES ASSUME NEW f \in Events, NEW g \in Events, f <= sent', g \in task'[f].others
               PROVE  g <= sent' /\ DirOf[task'[g].resource] = DirOf[task'[f].resource]
    BY DEF SameDir, Dir
  <2>1. g \in task[f].others /\ f <= sent
    BY <1>1
  <2> QED BY <1>1, <2>1 DEF OwnInv, SameDir, Dir
<1> QED BY <1>3, <1>4, <1>5, <1>6 DEF OwnInv

LEMMA FrameOwn ==
    ASSUME OwnInv, UNCHANGED <<sent, task, file, lock>>
    PROVE  OwnInv'
BY DEF OwnInv, Known, OwnFile, OwnCfg, Overlap, SameDir, LockInv, Unfinished, Dir, StateOf

(* What a run of terraform does.                                           *)
LEMMA ChangesInfra ==
    ASSUME TypeInv, NEW e \in Events, Changes(e) \/ UNCHANGED infra
    PROVE  /\ infra' \in [Resources -> SomeEvent]
           /\ \A r \in Resources : infra'[r] # infra[r] =>
                r = StateOf(task[e].cfg) /\ infra'[r] = Effect(e)
<1>1. Effect(e) \in SomeEvent
  BY DEF Effect, TypeInv, Task, SomeEvent
<1> QED BY <1>1 DEF Changes, TypeInv

LEMMA OrphanOwn ==
    ASSUME TypeInv, OwnInv, NEW e \in Events, OrphanEnds(e)
    PROVE  TypeInv' /\ OwnInv'
<1>1. /\ task' \in [Events -> Task] /\ task[e].pc = "orphan" /\ task'[e].pc = "ended"
      /\ task'[e].resource = task[e].resource /\ task'[e].others = {}
      /\ \A f \in Events : f # e => task'[f] = task[f]
      /\ UNCHANGED <<sent, file, backend, kube, watchVars, record, crashes, changes>>
      /\ lock' = [lock EXCEPT ![StateOf(task[e].cfg)] = NoEvent]
      /\ Changes(e) \/ UNCHANGED infra
  BY OrphanMoves DEF OrphanEnds
<1>2. \A f \in Events : task'[f].resource = task[f].resource
  BY <1>1
<1>3. LockInv'
  BY <1>1, <1>2, UnlockMoves
<1>4. OwnInv'
  BY <1>1, <1>3, EndsOwn
<1>5. infra' \in [Resources -> SomeEvent] /\ lock' \in [Resources -> SomeEvent]
  BY <1>1, ChangesInfra DEF TypeInv, SomeEvent
<1> QED BY <1>1, <1>4, <1>5 DEF TypeInv, watchVars

LEMMA TaskOwn ==
    ASSUME TypeInv, OwnInv, NEW e \in Events, TaskStep(e)
    PROVE  TypeInv' /\ OwnInv'
<1> USE DEF Live
<1>1. CASE Rejects(e)
  <2>1. /\ Moves(e, "start", "report")
        /\ UNCHANGED <<sent, file, backend, lock, infra, kube, watchVars, record, crashes, changes>>
    BY <1>1, TaskMoves DEF Rejects
  <2>2. LockInv'
    BY <2>1, LockMoves
  <2>3. OwnInv'
    BY <2>1, <2>2, MovesOwn
  <2> QED BY <2>1, <2>3 DEF TypeInv, Moves, watchVars
<1>2. CASE WritesConfig(e)
  <2>1. /\ Moves(e, "start", "init") /\ file' = [file EXCEPT ![Dir(e)] = e]
        /\ UNCHANGED <<sent, backend, lock, infra, kube, watchVars, record, crashes, changes>>
    BY <1>2, TaskMoves DEF WritesConfig, SavesConfig
  <2>2. LockInv'
    BY <2>1, LockMoves
  <2>3. Dir(e) \in Dirs
    BY AgentAssumption DEF TypeInv, Task, Dir
  <2>4. file'[Dir(e)] = e /\ file' \in [Dirs -> SomeEvent]
    BY <2>1, <2>3 DEF TypeInv, SomeEvent
  <2>5. OwnInv'
    BY <2>1, <2>2, <2>4, MovesOwn
  <2> QED BY <2>1, <2>4, <2>5 DEF TypeInv, Moves, watchVars
<1>3. CASE RunsInit(e)
  <2>1. /\ Moves(e, "init", "run") \/ Moves(e, "init", "report")
        /\ UNCHANGED <<sent, file, lock, infra, kube, watchVars, record, crashes, changes>>
    BY <1>3, TaskMoves DEF RunsInit
  <2>2. LockInv'
    BY <2>1, LockMoves
  <2>3. task[e].pc = "init"
    BY <1>3 DEF RunsInit
  <2>4. file[Dir(e)] \in {e} \cup task[e].others
    BY <2>3 DEF OwnInv, OwnFile
  <2>5. OwnInv'
    BY <2>1, <2>2, <2>4, MovesOwn
  <2>6. backend' \in [Dirs -> Resources \cup {NoResource}]
    <3>1. StateOf(file[Dir(e)]) \in Resources
      BY <2>3, CfgKnown DEF TypeInv, Task, StateOf
    <3> QED BY <1>3, <3>1 DEF RunsInit, TypeInv
  <2> QED BY <2>1, <2>5, <2>6 DEF TypeInv, Moves, watchVars
<1>4. CASE RunsTerraform(e)
  <2>1. /\ task[e].pc = "run"
        /\ UNCHANGED <<sent, file, backend, infra, kube, watchVars, record, crashes, changes>>
    BY <1>4 DEF RunsTerraform
  <2>2. file[Dir(e)] \in {e} \cup task[e].others /\ file[Dir(e)] \in Events
    BY <2>1, CfgKnown DEF OwnInv, OwnFile
  <2>3. CASE Moves(e, "run", "report") /\ UNCHANGED lock
    <3>1. OwnInv'
      BY <2>1, <2>3, LockMoves, MovesOwn
    <3> QED BY <2>1, <2>3, <3>1 DEF TypeInv, Moves, watchVars
  <2>4. CASE /\ Moves(e, "run", "running") /\ task'[e].cfg = file[Dir(e)]
             /\ lock[StateOf(file[Dir(e)])] = NoEvent
             /\ lock' = [lock EXCEPT ![StateOf(file[Dir(e)])] = e]
    <3>1. StateOf(file[Dir(e)]) \in Resources
      BY <2>2 DEF TypeInv, Task, StateOf
    <3>2. \A r \in Resources : lock'[r] = IF r = StateOf(file[Dir(e)]) THEN e ELSE lock[r]
      BY <2>4, <3>1 DEF TypeInv
    <3>3. \A f \in Events : task'[f].resource = task[f].resource
      BY <2>4 DEF Moves, Keeps
    <3>4. LockInv'
      <4> SUFFICES ASSUME NEW k \in Resources, lock'[k] # NoEvent
                   PROVE  /\ task'[lock'[k]].pc \in {"running", "orphan"}
                          /\ task'[task'[lock'[k]].cfg].resource = k
        BY DEF LockInv, StateOf
      <4>1. CASE k = StateOf(file[Dir(e)])
        BY <2>2, <2>4, <3>2, <3>3, <4>1 DEF Moves, StateOf
      <4>2. CASE k # StateOf(file[Dir(e)])
        <5>1. /\ lock'[k] = lock[k] /\ lock[k] \in Events
              /\ task[lock[k]].pc \in {"running", "orphan"}
              /\ task[task[lock[k]].cfg].resource = k
          BY <3>2, <4>2 DEF OwnInv, LockInv, TypeInv, SomeEvent, StateOf
        <5>2. task'[lock[k]] = task[lock[k]] /\ task[lock[k]].cfg \in Events
          BY <2>1, <2>4, <5>1, CfgKnown DEF Moves
        <5> QED BY <3>3, <5>1, <5>2
      <4> QED BY <4>1, <4>2
    <3>5. OwnInv'
      BY <2>1, <2>2, <2>4, <3>4, MovesOwn
    <3>6. lock' \in [Resources -> SomeEvent]
      BY <2>4 DEF TypeInv, SomeEvent
    <3> QED BY <2>1, <2>4, <3>5, <3>6 DEF TypeInv, Moves, watchVars
  <2> QED BY <1>4, <2>3, <2>4, TaskMoves
<1>5. CASE TerraformEnds(e)
  <2>1. /\ Moves(e, "running", "report")
        /\ Changes(e) \/ UNCHANGED infra
        /\ UNCHANGED <<sent, file, backend, kube, watchVars, record, crashes, changes>>
        /\ lock' = [lock EXCEPT ![StateOf(task[e].cfg)] = NoEvent]
    BY <1>5, TaskMoves DEF TerraformEnds
  <2>2. task[e].pc = "running" /\ \A f \in Events : task'[f].resource = task[f].resource
    BY <2>1 DEF Moves, Keeps
  <2>3. LockInv'
    BY <2>1, <2>2, UnlockMoves DEF Moves
  <2>4. OwnInv'
    BY <2>1, <2>3, MovesOwn
  <2>5. infra' \in [Resources -> SomeEvent]
    BY <2>1, ChangesInfra
  <2>6. lock' \in [Resources -> SomeEvent]
    BY <2>1 DEF TypeInv, SomeEvent
  <2> QED BY <2>1, <2>4, <2>5, <2>6 DEF TypeInv, Moves, watchVars
<1>6. CASE Reports(e)
  <2>1. /\ Moves(e, "report", "watch")
        /\ UNCHANGED <<sent, file, backend, lock, infra, kube, watchVars, crashes, changes>>
    BY <1>6, TaskMoves DEF Reports
  <2>2. OwnInv'
    BY <2>1, LockMoves, MovesOwn
  <2>3. record' \in [Resources -> Record]
    <3>1. Blank \in Record /\ [record[task[e].resource] EXCEPT !.deleting = FALSE] \in Record
      <4>1. record[task[e].resource] \in Record
        BY DEF TypeInv, Task
      <4> QED BY <4>1 DEF Record, Blank, SomeEvent
    <3> QED BY <1>6, <3>1 DEF Reports, TypeInv
  <2> QED BY <2>1, <2>2, <2>3 DEF TypeInv, Moves, watchVars
<1>7. CASE UpdatesWatcher(e)
  <2>1. /\ task' \in [Events -> Task] /\ task[e].pc = "watch" /\ task'[e].pc = "ended"
        /\ task'[e].resource = task[e].resource /\ task'[e].others \subseteq task[e].others
        /\ \A f \in Events : f # e => task'[f] = task[f]
        /\ UNCHANGED <<sent, file, backend, lock, infra, kube, last, checking, sending, missed,
                       record, crashes, changes>>
    BY <1>7, FinishMoves DEF UpdatesWatcher
  <2>2. watched' \in [Resources -> SomeEvent]
    BY <1>7 DEF UpdatesWatcher, Registers, TypeInv, SomeEvent
  <2>3. LockInv'
    <3> SUFFICES ASSUME NEW k \in Resources, lock[k] # NoEvent
                 PROVE  /\ task'[lock[k]].pc \in {"running", "orphan"}
                        /\ task'[task'[lock[k]].cfg].resource = k
      BY <2>1 DEF LockInv, StateOf
    <3>1. lock[k] \in Events /\ task[lock[k]].pc \in {"running", "orphan"}
          /\ task[task[lock[k]].cfg].resource = k
      BY DEF OwnInv, LockInv, TypeInv, SomeEvent, StateOf
    <3>2. task[lock[k]].cfg \in Events /\ task'[lock[k]] = task[lock[k]]
      BY <2>1, <3>1, CfgKnown
    <3> QED BY <2>1, <3>1, <3>2
  <2>4. OwnInv'
    BY <2>1, <2>3, EndsOwn
  <2> QED BY <2>1, <2>2, <2>4 DEF TypeInv
<1> QED BY <1>1, <1>2, <1>3, <1>4, <1>5, <1>6, <1>7 DEF TaskStep

-----------------------------------------------------------------------------
(* What is watched, and what has been destroyed.                           *)

LEMMA WatchedTyped ==
    ASSUME TypeInv, OwnInv, WatchInv, NEW r \in Resources, watched[r] # NoEvent
    PROVE  /\ watched[r] \in Events /\ watched[r] <= sent
           /\ task[watched[r]].resource = r /\ task[watched[r]].pc = "ended"
           /\ ~Unfinished(watched[r])
BY DEF TypeInv, SomeEvent, WatchInv, WatchedEnded, Unfinished

(* A step of a goroutine that goes on leaves the first four parts alone.   *)
LEMMA MovesWatch ==
    ASSUME TypeInv, OwnInv, WatchInv, NEW e \in Events, NEW p \in Live, NEW q \in Live,
           Moves(e, p, q), UNCHANGED <<sent, watched>>
    PROVE  /\ WatchedEnded' /\ OrphansAreOld' /\ OlderOverlapped' /\ YoungerKnow'
           /\ \A r \in Resources : watched[r] # NoEvent =>
                ((NoOverlap(r, watched[r]))' => NoOverlap(r, watched[r]))
<1>1. \A f \in Events : /\ task'[f].resource = task[f].resource
                        /\ task'[f].others = task[f].others
                        /\ task'[f].pc = IF f = e THEN q ELSE task[f].pc
  <2> SUFFICES ASSUME NEW f \in Events
               PROVE  /\ task'[f].resource = task[f].resource
                      /\ task'[f].others = task[f].others
                      /\ task'[f].pc = IF f = e THEN q ELSE task[f].pc
    OBVIOUS
  <2>1. CASE f = e
    BY <2>1 DEF Moves, Keeps
  <2>2. CASE f # e
    <3>1. task'[f] = task[f]
      BY <2>2 DEF Moves
    <3> QED BY <2>2, <3>1
  <2> QED BY <2>1, <2>2
<1>2. p \notin {"none", "ended", "orphan"} /\ q \notin {"none", "ended", "orphan"} /\ task[e].pc = p
  BY DEF Live, Moves
<1>3. \A r \in Resources : watched[r] # NoEvent =>
        watched[r] \in Events /\ watched[r] # e /\ task'[watched[r]].pc = "ended"
  BY <1>1, <1>2, WatchedTyped
<1>4. WatchedEnded'
  BY <1>1, <1>3 DEF WatchInv, WatchedEnded
<1>5. OrphansAreOld'
  <2>1. \A c \in Events : task'[c].pc = "orphan" => task[c].pc = "orphan"
    BY <1>1, <1>2
  <2>2. \A c \in Events : task'[c].pc \in Live => task[c].pc \in Live
    BY <1>1, <1>2
  <2> QED BY <2>1, <2>2 DEF WatchInv, OrphansAreOld
<1>6. OlderOverlapped'
  <2> SUFFICES ASSUME NEW r \in Resources, NEW f \in Events, watched[r] # NoEvent,
                      task'[f].pc \notin {"none", "ended"}, f < watched[r],
                      DirOf[task'[f].resource] = DirOf[r]
               PROVE  f \in task'[watched[r]].others
    BY DEF OlderOverlapped, Unfinished, Dir
  <2> QED BY <1>1, <1>2, <1>3 DEF WatchInv, OlderOverlapped, Unfinished, Dir
<1>7. YoungerKnow'
  <2> SUFFICES ASSUME NEW r \in Resources, NEW g \in Events, NEW c \in Events,
                      watched[r] # NoEvent, task'[watched[r]].others = {},
                      task'[g].pc \notin {"none", "ended"}, DirOf[task'[g].resource] = DirOf[r],
                      c \in task'[g].others, task'[c].resource = r
               PROVE  c > watched[r] /\ g \in task'[c].others
    BY DEF YoungerKnow, Unfinished, Dir
  <2> QED BY <1>1, <1>2, <1>3 DEF WatchInv, YoungerKnow, Unfinished, Dir
<1>8. ASSUME NEW r \in Resources, watched[r] # NoEvent, (NoOverlap(r, watched[r]))'
      PROVE  NoOverlap(r, watched[r])
  BY <1>1, <1>8 DEF NoOverlap
<1> QED BY <1>4, <1>5, <1>6, <1>7, <1>8

(* It leaves all of it alone unless it changes what is deployed.           *)
LEMMA QuietMovesWatch ==
    ASSUME TypeInv, OwnInv, WatchInv, NEW e \in Events, NEW p \in Live, NEW q \in Live,
           Moves(e, p, q), UNCHANGED <<sent, watched, infra>>,
           p \in {"report", "watch"} => q \in {"report", "watch"} /\ task'[e].success = task[e].success,
           p \notin {"report", "watch"} /\ q \in {"report", "watch"} => ~task'[e].success
    PROVE  WatchInv'
<1>1. /\ WatchedEnded' /\ OrphansAreOld' /\ OlderOverlapped' /\ YoungerKnow'
      /\ \A r \in Resources : watched[r] # NoEvent =>
           ((NoOverlap(r, watched[r]))' => NoOverlap(r, watched[r]))
  BY MovesWatch
<1>2. AppliedAlone'
  <2> SUFFICES ASSUME NEW f \in Events, task'[f].pc \in {"report", "watch"},
                      task'[f].op = "DEPLOY", task'[f].success, task'[f].others = {}
               PROVE  infra[task'[f].resource] # NoEvent
    BY DEF AppliedAlone
  <2>1. CASE f = e
    BY <2>1 DEF Moves, Keeps, WatchInv, AppliedAlone
  <2>2. CASE f # e
    <3>1. task'[f] = task[f]
      BY <2>2 DEF Moves
    <3> QED BY <3>1 DEF WatchInv, AppliedAlone
  <2> QED BY <2>1, <2>2
<1>3. DestroyedByDelete'
  <2> SUFFICES ASSUME NEW r \in Resources, watched[r] # NoEvent, (NoOverlap(r, watched[r]))',
                      infra[r] = NoEvent
               PROVE  Destroying(r)'
    BY DEF DestroyedByDelete
  <2>1. PICK f \in Events : /\ task[f].pc \in {"report", "watch"}
                            /\ task[f].op = "DELETE" /\ task[f].resource = r
    BY <1>1 DEF WatchInv, DestroyedByDelete, Destroying
  <2>2. task'[f].pc \in {"report", "watch"} /\ task'[f].op = "DELETE" /\ task'[f].resource = r
    <3>1. CASE f = e
      BY <2>1, <3>1 DEF Moves, Keeps
    <3>2. CASE f # e
      <4>1. task'[f] = task[f]
        BY <3>2 DEF Moves
      <4> QED BY <2>1, <4>1
    <3> QED BY <3>1, <3>2
  <2> QED BY <2>2 DEF Destroying
<1> QED BY <1>1, <1>2, <1>3 DEF WatchInv

(* What the directories of a run, of its configuration and of the resource *)
(* it changes have to do with each other.                                  *)
LEMMA ChangesInDir ==
    ASSUME TypeInv, OwnInv, NEW e \in Events, task[e].pc \in {"running", "orphan"},
           Changes(e) \/ UNCHANGED infra
    PROVE  \A r \in Resources : infra'[r] # infra[r] =>
              /\ task[e].cfg \in Events /\ task[e].cfg \in {e} \cup task[e].others
              /\ task[task[e].cfg].resource = r /\ Dir(e) = DirOf[r]
              /\ infra'[r] = NoEvent => task[e].op = "DELETE"
<1> SUFFICES ASSUME NEW r \in Resources, infra'[r] # infra[r]
             PROVE  /\ task[e].cfg \in Events /\ task[e].cfg \in {e} \cup task[e].others
                    /\ task[task[e].cfg].resource = r /\ Dir(e) = DirOf[r]
                    /\ infra'[r] = NoEvent => task[e].op = "DELETE"
  OBVIOUS
<1>1. task[e].cfg \in Events /\ Dir(task[e].cfg) = Dir(e) /\ task[e].cfg \in {e} \cup task[e].others
  BY CfgKnown DEF OwnInv, OwnCfg
<1>2. r = StateOf(task[e].cfg) /\ infra'[r] = Effect(e)
  BY ChangesInfra
<1>3. infra'[r] = NoEvent => task[e].op = "DELETE"
  <2>1. task[e].cfg # NoEvent
    BY <1>1 DEF Events, NoEvent
  <2>2. task[e].op \in {"DEPLOY", "DELETE"}
    BY DEF TypeInv, Task
  <2> QED BY <1>2, <2>1, <2>2 DEF Effect
<1> QED BY <1>1, <1>2, <1>3 DEF StateOf, Dir

(* A run can have destroyed what nothing overlapped with only for a DELETE *)
(* of that very resource.                                                  *)
LEMMA DestroysItsOwn ==
    ASSUME TypeInv, OwnInv, WatchInv, NEW e \in Events, task[e].pc \in {"running", "orphan"},
           Changes(e) \/ UNCHANGED infra,
           NEW r \in Resources, watched[r] # NoEvent, NoOverlap(r, watched[r]),
           infra[r] # NoEvent, infra'[r] = NoEvent
    PROVE  task[e].op = "DELETE" /\ task[e].resource = r
<1> DEFINE c == task[e].cfg
<1>1. /\ c \in Events /\ c \in {e} \cup task[e].others
      /\ task[c].resource = r /\ Dir(e) = DirOf[r] /\ task[e].op = "DELETE"
  BY ChangesInDir
<1>2. ASSUME c # e PROVE FALSE
  <2>1. c \in task[e].others
    BY <1>1, <1>2
  <2>2. task[watched[r]].others = {}
    BY WatchedTyped DEF NoOverlap, Events
  <2>3. Unfinished(e)
    BY DEF Unfinished
  <2>4. c > watched[r] /\ e \in task[c].others
    BY <1>1, <2>1, <2>2, <2>3 DEF WatchInv, YoungerKnow
  <2>5. c >= watched[r]
    BY <1>1, <2>4, WatchedTyped DEF Events
  <2> QED BY <1>1, <2>4, <2>5 DEF NoOverlap
<1> QED BY <1>1, <1>2

LEMMA TerraformEndsWatch ==
    ASSUME TypeInv, OwnInv, WatchInv, NEW e \in Events, TerraformEnds(e)
    PROVE  WatchInv'
<1>1. /\ Moves(e, "running", "report") /\ UNCHANGED <<sent, watched>>
      /\ Changes(e) \/ (UNCHANGED infra /\ ~task'[e].success)
      /\ task[e].pc = "running"
  BY TaskMoves DEF TerraformEnds, watchVars
<1>2. /\ WatchedEnded' /\ OrphansAreOld' /\ OlderOverlapped' /\ YoungerKnow'
      /\ \A r \in Resources : watched[r] # NoEvent =>
           ((NoOverlap(r, watched[r]))' => NoOverlap(r, watched[r]))
  BY <1>1, MovesWatch DEF Live
<1>3. AppliedAlone'
  <2> SUFFICES ASSUME NEW f \in Events, task'[f].pc \in {"report", "watch"},
                      task'[f].op = "DEPLOY", task'[f].success, task'[f].others = {}
               PROVE  infra'[task'[f].resource] # NoEvent
    BY DEF AppliedAlone
  <2>1. CASE f = e
    <3>1. /\ Changes(e) /\ task[e].op = "DEPLOY" /\ task[e].others = {}
          /\ task'[e].resource = task[e].resource
      BY <1>1, <2>1 DEF Moves, Keeps
    <3>2. task[e].cfg = e
      BY <1>1, <3>1 DEF OwnInv, OwnCfg
    <3>3. task[e].resource \in Resources /\ e # NoEvent
      BY DEF TypeInv, Task, Events, NoEvent
    <3>4. infra'[task[e].resource] = e
      BY <3>1, <3>2, <3>3 DEF Changes, Effect, StateOf, TypeInv
    <3> QED BY <2>1, <3>1, <3>3, <3>4
  <2>2. CASE f # e
    <3>1. task'[f] = task[f]
      BY <1>1, <2>2 DEF Moves
    <3>2. infra[task[f].resource] # NoEvent /\ task[f].resource \in Resources
      BY <3>1 DEF WatchInv, AppliedAlone, TypeInv, Task
    <3>3. Dir(f) # Dir(e)
      BY <1>1, <2>2, <3>1 DEF OwnInv, Overlap, Unfinished
    <3>4. infra'[task[f].resource] = infra[task[f].resource]
      BY <1>1, <3>2, <3>3, ChangesInDir DEF Dir
    <3> QED BY <3>1, <3>2, <3>4
  <2> QED BY <2>1, <2>2
<1>4. DestroyedByDelete'
  <2> SUFFICES ASSUME NEW r \in Resources, watched[r] # NoEvent, (NoOverlap(r, watched[r]))',
                      infra'[r] = NoEvent
               PROVE  \E f \in Events : /\ task'[f].pc \in {"report", "watch"}
                                        /\ task'[f].op = "DELETE" /\ task'[f].resource = r
    BY <1>1 DEF DestroyedByDelete, Destroying
  <2>1. CASE infra[r] = NoEvent
    <3>1. PICK f \in Events : /\ task[f].pc \in {"report", "watch"}
                              /\ task[f].op = "DELETE" /\ task[f].resource = r
      BY <1>2, <2>1 DEF WatchInv, DestroyedByDelete, Destroying
    <3>2. task'[f] = task[f]
      BY <1>1, <3>1 DEF Moves
    <3> QED BY <3>1, <3>2
  <2>2. CASE infra[r] # NoEvent
    <3>1. task[e].op = "DELETE" /\ task[e].resource = r
      BY <1>1, <1>2, <2>2, DestroysItsOwn
    <3> QED BY <1>1, <3>1 DEF Moves, Keeps
  <2> QED BY <2>1, <2>2
<1> QED BY <1>2, <1>3, <1>4 DEF WatchInv

LEMMA OrphanEndsWatch ==
    ASSUME TypeInv, OwnInv, WatchInv, NEW e \in Events, OrphanEnds(e)
    PROVE  WatchInv'
<1>1. /\ task[e].pc = "orphan" /\ task'[e].pc = "ended" /\ task'[e].others = {}
      /\ task'[e].resource = task[e].resource
      /\ \A f \in Events : f # e => task'[f] = task[f]
      /\ Changes(e) \/ UNCHANGED infra
      /\ UNCHANGED <<sent, watched>>
  BY OrphanMoves DEF OrphanEnds, watchVars
<1>2. \A f \in Events : task'[f].pc # "ended" => task'[f] = task[f]
  BY <1>1
<1>3. \A r \in Resources : watched[r] # NoEvent =>
        /\ watched[r] \in Events /\ watched[r] # e /\ e < watched[r]
        /\ task'[watched[r]] = task[watched[r]]
  BY <1>1, WatchedTyped DEF WatchInv, OrphansAreOld
<1>4. WatchedEnded'
  BY <1>1, <1>3, WatchedTyped DEF WatchedEnded
<1>5. OrphansAreOld'
  <2> SUFFICES ASSUME NEW c \in Events, task'[c].pc = "orphan"
               PROVE  /\ \A r \in Resources : watched[r] # NoEvent => c < watched[r]
                      /\ \A f \in Events : task'[f].pc \in Live => c < f
    BY <1>1 DEF OrphansAreOld
  <2>1. task[c].pc = "orphan"
    BY <1>2
  <2>2. \A f \in Events : task'[f].pc \in Live => task[f].pc \in Live
    BY <1>2 DEF Live
  <2> QED BY <2>1, <2>2 DEF WatchInv, OrphansAreOld
<1>6. OlderOverlapped'
  <2> SUFFICES ASSUME NEW r \in Resources, NEW f \in Events, watched[r] # NoEvent,
                      task'[f].pc \notin {"none", "ended"}, f < watched[r],
                      DirOf[task'[f].resource] = DirOf[r]
               PROVE  f \in task'[watched[r]].others
    BY <1>1 DEF OlderOverlapped, Unfinished, Dir
  <2>1. task'[f] = task[f]
    BY <1>2
  <2> QED BY <1>3, <2>1 DEF WatchInv, OlderOverlapped, Unfinished, Dir
<1>7. YoungerKnow'
  <2> SUFFICES ASSUME NEW r \in Resources, NEW g \in Events, NEW c \in Events,
                      watched[r] # NoEvent, task'[watched[r]].others = {},
                      task'[g].pc \notin {"none", "ended"}, DirOf[task'[g].resource] = DirOf[r],
                      c \in task'[g].others, task'[c].resource = r
               PROVE  c > watched[r] /\ g \in task'[c].others
    BY <1>1 DEF YoungerKnow, Unfinished, Dir
  <2>1. task'[g] = task[g] /\ task[c].resource = r
    BY <1>1, <1>2
  <2>2. c > watched[r] /\ g \in task[c].others
    BY <1>3, <2>1 DEF WatchInv, YoungerKnow, Unfinished, Dir
  <2>3. c # e
    BY <1>3, <2>2 DEF Events
  <2> QED BY <1>1, <2>2, <2>3
<1>8. AppliedAlone'
  <2> SUFFICES ASSUME NEW f \in Events, task'[f].pc \in {"report", "watch"},
                      task'[f].op = "DEPLOY", task'[f].success, task'[f].others = {}
               PROVE  infra'[task'[f].resource] # NoEvent
    BY DEF AppliedAlone
  <2>1. task'[f] = task[f] /\ f # e
    BY <1>1, <1>2
  <2>2. infra[task[f].resource] # NoEvent /\ task[f].resource \in Resources
    BY <2>1 DEF WatchInv, AppliedAlone, TypeInv, Task
  <2>3. Dir(f) # Dir(e)
    BY <1>1, <2>1 DEF OwnInv, Overlap, Unfinished
  <2>4. infra'[task[f].resource] = infra[task[f].resource]
    BY <1>1, <2>2, <2>3, ChangesInDir DEF Dir
  <2> QED BY <2>1, <2>2, <2>4
<1>9. DestroyedByDelete'
  <2> SUFFICES ASSUME NEW r \in Resources, watched[r] # NoEvent, (NoOverlap(r, watched[r]))',
                      infra'[r] = NoEvent
               PROVE  \E f \in Events : /\ task'[f].pc \in {"report", "watch"}
                                        /\ task'[f].op = "DELETE" /\ task'[f].resource = r
    BY <1>1 DEF DestroyedByDelete, Destroying
  <2>1. NoOverlap(r, watched[r])
    <3>1. \A f \in Events : f >= watched[r] => task'[f] = task[f]
      BY <1>1, <1>3 DEF Events
    <3> QED BY <1>1, <3>1 DEF NoOverlap
  <2>2. infra[r] = NoEvent
    <3>1. SUFFICES ASSUME infra[r] # NoEvent PROVE FALSE
      OBVIOUS
    <3>2. Dir(e) = DirOf[r]
      BY <1>1, <3>1, ChangesInDir
    <3>3. e \in task[watched[r]].others
      BY <1>1, <1>3, <3>2 DEF WatchInv, OlderOverlapped, Unfinished
    <3>4. task[watched[r]].others = {}
      BY <2>1, WatchedTyped DEF NoOverlap, Events
    <3> QED BY <3>3, <3>4
  <2>3. PICK f \in Events : /\ task[f].pc \in {"report", "watch"}
                            /\ task[f].op = "DELETE" /\ task[f].resource = r
    BY <2>1, <2>2 DEF WatchInv, DestroyedByDelete, Destroying
  <2>4. task'[f] = task[f]
    BY <1>1, <2>3
  <2> QED BY <2>3, <2>4
<1> QED BY <1>4, <1>5, <1>6, <1>7, <1>8, <1>9 DEF WatchInv

LEMMA UpdatesWatch ==
    ASSUME TypeInv, OwnInv, WatchInv, NEW e \in Events, UpdatesWatcher(e)
    PROVE  WatchInv'
<1> DEFINE k == task[e].resource
<1>1. /\ task[e].pc = "watch" /\ task'[e].pc = "ended"
      /\ task'[e].resource = task[e].resource /\ k \in Resources
      /\ task'[e].others = IF task[e].op = "DEPLOY" THEN task[e].others ELSE {}
      /\ \A f \in Events : f # e => task'[f] = task[f]
      /\ UNCHANGED <<sent, infra>>
  BY FinishMoves DEF UpdatesWatcher, TypeInv, Task
<1>2. \/ /\ task[e].op = "DEPLOY" /\ task[e].success /\ watched' = [watched EXCEPT ![k] = e]
      \/ task[e].op = "DELETE" /\ watched' = [watched EXCEPT ![k] = NoEvent]
      \/ task[e].op = "DEPLOY" /\ watched' = watched
  BY DEF UpdatesWatcher, Deployed, Registers
<1>3. \A r \in Resources : watched'[r] # NoEvent =>
        \/ watched'[r] = e /\ r = k /\ task[e].op = "DEPLOY" /\ task[e].success
        \/ watched'[r] = watched[r] /\ (r = k => task[e].op = "DEPLOY")
  BY <1>1, <1>2 DEF TypeInv
<1>4. \A f \in Events : task'[f].pc # "ended" => task'[f] = task[f] /\ f # e
  BY <1>1
<1>5. \A r \in Resources : watched[r] # NoEvent =>
        /\ watched[r] \in Events /\ watched[r] # e
        /\ task'[watched[r]] = task[watched[r]]
  BY <1>1, WatchedTyped
<1>6. Unfinished(e) /\ task[e].pc \in Live /\ e <= sent
  BY <1>1 DEF Unfinished, Live, OwnInv, Known
<1>7. WatchedEnded'
  BY <1>1, <1>3, <1>5, <1>6, WatchedTyped DEF WatchedEnded
<1>8. OrphansAreOld'
  <2> SUFFICES ASSUME NEW c \in Events, task'[c].pc = "orphan"
               PROVE  /\ \A r \in Resources : watched'[r] # NoEvent => c < watched'[r]
                      /\ \A f \in Events : task'[f].pc \in Live => c < f
    BY DEF OrphansAreOld
  <2>1. task[c].pc = "orphan"
    BY <1>4
  <2>2. \A f \in Events : task'[f].pc \in Live => task[f].pc \in Live
    BY <1>4 DEF Live
  <2> QED BY <1>3, <1>6, <2>1, <2>2 DEF WatchInv, OrphansAreOld
<1>9. OlderOverlapped'
  <2> SUFFICES ASSUME NEW r \in Resources, NEW f \in Events, watched'[r] # NoEvent,
                      task'[f].pc \notin {"none", "ended"}, f < watched'[r],
                      DirOf[task'[f].resource] = DirOf[r]
               PROVE  f \in task'[watched'[r]].others
    BY DEF OlderOverlapped, Unfinished, Dir
  <2>1. task'[f] = task[f] /\ f # e
    BY <1>4
  <2>2. CASE watched'[r] = e /\ r = k /\ task[e].op = "DEPLOY"
    BY <1>1, <1>6, <2>1, <2>2 DEF OwnInv, Overlap, Unfinished, Dir
  <2>3. CASE watched'[r] = watched[r]
    BY <1>5, <2>1, <2>3 DEF WatchInv, OlderOverlapped, Unfinished, Dir
  <2> QED BY <1>3, <2>2, <2>3
<1>10. YoungerKnow'
  <2> SUFFICES ASSUME NEW r \in Resources, NEW g \in Events, NEW c \in Events,
                      watched'[r] # NoEvent, task'[watched'[r]].others = {},
                      task'[g].pc \notin {"none", "ended"}, DirOf[task'[g].resource] = DirOf[r],
                      c \in task'[g].others, task'[c].resource = r
               PROVE  c > watched'[r] /\ g \in task'[c].others
    BY DEF YoungerKnow, Unfinished, Dir
  <2>1. task'[g] = task[g] /\ g # e /\ task[c].resource = r
    BY <1>1, <1>4
  <2>2. CASE watched'[r] = e /\ r = k /\ task[e].op = "DEPLOY"
    <3>1. g \in task[e].others
      BY <1>1, <1>6, <2>1, <2>2 DEF OwnInv, Overlap, Unfinished, Dir
    <3> QED BY <1>1, <2>2, <3>1
  <2>3. CASE watched'[r] = watched[r] /\ (r = k => task[e].op = "DEPLOY")
    <3>1. c > watched[r] /\ g \in task[c].others
      BY <1>5, <2>1, <2>3 DEF WatchInv, YoungerKnow, Unfinished, Dir
    <3>2. task'[c].others = task[c].others
      BY <1>1, <2>1, <2>3
    <3> QED BY <2>3, <3>1, <3>2
  <2> QED BY <1>3, <2>2, <2>3
<1>11. AppliedAlone'
  BY <1>1, <1>4 DEF WatchInv, AppliedAlone
<1>12. DestroyedByDelete'
  <2> SUFFICES ASSUME NEW r \in Resources, watched'[r] # NoEvent, (NoOverlap(r, watched[r]))',
                      infra[r] = NoEvent
               PROVE  \E f \in Events : /\ task'[f].pc \in {"report", "watch"}
                                        /\ task'[f].op = "DELETE" /\ task'[f].resource = r
    BY <1>1 DEF DestroyedByDelete, Destroying
  <2>1. \A f \in Events : f >= watched'[r] /\ task'[f].resource = r => task'[f].others = {}
    BY DEF NoOverlap
  <2>2. CASE watched'[r] = e /\ r = k /\ task[e].op = "DEPLOY" /\ task[e].success
    <3>1. e >= e
      BY DEF Events
    <3>2. task[e].others = {}
      BY <1>1, <2>1, <2>2, <3>1
    <3> QED BY <1>1, <2>2, <3>2 DEF WatchInv, AppliedAlone
  <2>3. CASE watched'[r] = watched[r] /\ (r = k => task[e].op = "DEPLOY")
    <3>1. NoOverlap(r, watched[r])
      <4> SUFFICES ASSUME NEW f \in Events, f >= watched[r], task[f].resource = r
                   PROVE  task[f].others = {}
        BY DEF NoOverlap
      <4> QED BY <1>1, <2>1, <2>3
    <3>2. PICK f \in Events : /\ task[f].pc \in {"report", "watch"}
                              /\ task[f].op = "DELETE" /\ task[f].resource = r
      BY <2>3, <3>1 DEF WatchInv, DestroyedByDelete, Destroying
    <3>3. task'[f] = task[f]
      BY <1>1, <2>3, <3>2
    <3> QED BY <3>2, <3>3
  <2> QED BY <1>3, <2>2, <2>3
<1> QED BY <1>7, <1>8, <1>9, <1>10, <1>11, <1>12 DEF WatchInv

LEMMA SendsWatch ==
    ASSUME TypeInv, OwnInv, WatchInv,
           NEW op \in {"DEPLOY", "DELETE"}, NEW r \in Resources, Sends(op, r)
    PROVE  WatchInv'
<1> PICK e \in Events : e = sent + 1
  BY SendMoves DEF OwnInv
<1>1. /\ e = sent + 1 /\ sent' = e /\ task[e].pc = "none" /\ sent \in Nat
      /\ Received(op, r) \/ Lost(r)
      /\ UNCHANGED <<watched, infra>>
  <2>1. sent' = sent + 1 /\ task[sent + 1].pc = "none" /\ (Received(op, r) \/ Lost(r))
    BY SendMoves DEF OwnInv
  <2>2. UNCHANGED <<watched, infra>>
    BY DEF Sends, watchVars
  <2> QED BY <2>1, <2>2 DEF TypeInv
<1>2. /\ task'[e].resource = r /\ task'[e].pc \in {"start", "ended"}
      /\ task'[e].pc = "start" => task'[e].others = InDir(DirOf[r])
  BY <1>1 DEF Received, Lost
<1>3. \A f \in Events : f # e =>
        /\ task'[f].pc = task[f].pc /\ task'[f].resource = task[f].resource
        /\ task'[f].op = task[f].op /\ task'[f].success = task[f].success
        /\ task'[f].others = IF task'[e].pc = "start" /\ f \in InDir(DirOf[r])
                             THEN task[f].others \cup {e} ELSE task[f].others
  BY <1>1 DEF Received, Lost
<1>4. \A f \in Events : /\ f <= sent => f # e /\ f < e /\ f <= sent'
                        /\ task[f].pc # "none" => f <= sent
  BY <1>1 DEF Events, OwnInv, Known
<1>5. \A x \in Resources : watched[x] # NoEvent =>
        /\ watched[x] \in Events /\ watched[x] # e /\ watched[x] < e /\ watched[x] <= sent'
        /\ task'[watched[x]].pc = "ended" /\ task'[watched[x]].resource = x
        /\ task'[watched[x]].others = task[watched[x]].others
  BY <1>3, <1>4, WatchedTyped DEF InDir
<1>6. WatchedEnded'
  BY <1>1, <1>5 DEF WatchedEnded
<1>7. OrphansAreOld'
  <2> SUFFICES ASSUME NEW c \in Events, task'[c].pc = "orphan"
               PROVE  /\ \A x \in Resources : watched[x] # NoEvent => c < watched[x]
                      /\ \A f \in Events : task'[f].pc \in Live => c < f
    BY <1>1 DEF OrphansAreOld
  <2>1. task[c].pc = "orphan" /\ c < e
    BY <1>2, <1>3, <1>4
  <2>2. \A f \in Events : task'[f].pc \in Live => f = e \/ task[f].pc \in Live
    BY <1>3
  <2> QED BY <2>1, <2>2 DEF WatchInv, OrphansAreOld
<1>8. OlderOverlapped'
  <2> SUFFICES ASSUME NEW x \in Resources, NEW f \in Events, watched[x] # NoEvent,
                      task'[f].pc \notin {"none", "ended"}, f < watched[x],
                      DirOf[task'[f].resource] = DirOf[x]
               PROVE  f \in task'[watched[x]].others
    BY <1>1 DEF OlderOverlapped, Unfinished, Dir
  <2>1. f # e
    BY <1>5 DEF Events
  <2> QED BY <1>3, <1>5, <2>1 DEF WatchInv, OlderOverlapped, Unfinished, Dir
<1>9. YoungerKnow'
  <2> SUFFICES ASSUME NEW x \in Resources, NEW g \in Events, NEW c \in Events,
                      watched[x] # NoEvent, task'[watched[x]].others = {},
                      task'[g].pc \notin {"none", "ended"}, DirOf[task'[g].resource] = DirOf[x],
                      c \in task'[g].others, task'[c].resource = x
               PROVE  c > watched[x] /\ g \in task'[c].others
    BY <1>1 DEF YoungerKnow, Unfinished, Dir
  <2>1. CASE g = e
    <3>1. /\ task'[e].pc = "start" /\ c \in InDir(DirOf[r]) /\ DirOf[r] = DirOf[x]
      BY <1>2, <2>1
    <3>2. Unfinished(c) /\ Dir(c) = DirOf[x] /\ c # e
      BY <1>1, <3>1 DEF InDir, Unfinished
    <3>3. ~(c < watched[x])
      BY <1>5, <3>2 DEF WatchInv, OlderOverlapped
    <3>4. c # watched[x]
      BY <3>2, WatchedTyped
    <3>5. c > watched[x]
      BY <1>5, <3>3, <3>4 DEF Events
    <3> QED BY <1>3, <2>1, <3>1, <3>2, <3>5
  <2>2. CASE g # e /\ c \in task[g].others
    <3>1. g <= sent /\ c <= sent
      BY <1>3, <1>4, <2>2 DEF OwnInv, SameDir
    <3>2. c # e
      BY <1>4, <3>1
    <3>3. c > watched[x] /\ g \in task[c].others
      <4>1. /\ task[watched[x]].others = {} /\ task[c].resource = x
            /\ Unfinished(g) /\ Dir(g) = DirOf[x]
        BY <1>3, <1>5, <2>2, <3>2 DEF Unfinished, Dir
      <4> QED BY <2>2, <4>1 DEF WatchInv, YoungerKnow
    <3> QED BY <1>3, <3>2, <3>3
  <2>3. CASE g # e /\ c = e /\ task'[e].pc = "start" /\ g \in InDir(DirOf[r])
    BY <1>2, <1>5, <2>3 DEF Events
  <2> QED BY <1>3, <2>1, <2>2, <2>3
<1>10. AppliedAlone'
  <2> SUFFICES ASSUME NEW f \in Events, task'[f].pc \in {"report", "watch"},
                      task'[f].op = "DEPLOY", task'[f].success, task'[f].others = {}
               PROVE  infra[task'[f].resource] # NoEvent
    BY <1>1 DEF AppliedAlone
  <2>1. f # e
    BY <1>2
  <2>2. task[f].others = {}
    BY <1>3, <2>1
  <2> QED BY <1>3, <2>1, <2>2 DEF WatchInv, AppliedAlone
<1>11. DestroyedByDelete'
  <2> SUFFICES ASSUME NEW x \in Resources, watched[x] # NoEvent, (NoOverlap(x, watched[x]))',
                      infra[x] = NoEvent
               PROVE  \E f \in Events : /\ task'[f].pc \in {"report", "watch"}
                                        /\ task'[f].op = "DELETE" /\ task'[f].resource = x
    BY <1>1 DEF DestroyedByDelete, Destroying
  <2>1. NoOverlap(x, watched[x])
    <3> SUFFICES ASSUME NEW f \in Events, f >= watched[x], task[f].resource = x
                 PROVE  task[f].others = {}
      BY DEF NoOverlap
    <3>1. CASE f = e
      BY <1>1, <3>1 DEF OwnInv, Known
    <3>2. CASE f # e
      <4>1. task'[f].others = {}
        BY <1>1, <1>3, <3>2 DEF NoOverlap
      <4> QED BY <1>3, <3>2, <4>1
    <3> QED BY <3>1, <3>2
  <2>2. PICK f \in Events : /\ task[f].pc \in {"report", "watch"}
                            /\ task[f].op = "DELETE" /\ task[f].resource = x
    BY <2>1 DEF WatchInv, DestroyedByDelete, Destroying
  <2>3. f # e
    BY <1>1, <2>2
  <2> QED BY <1>3, <2>2, <2>3
<1> QED BY <1>6, <1>7, <1>8, <1>9, <1>10, <1>11 DEF WatchInv

LEMMA RestartsWatch ==
    ASSUME TypeInv, OwnInv, WatchInv, Restarts
    PROVE  WatchInv'
<1>1. \A e \in Events : task'[e].pc \in {"none", "orphan", "ended"}
  BY RestartMoves
<1>2. \A r \in Resources : watched'[r] = NoEvent
  BY DEF Restarts
<1>3. WatchedEnded' /\ OrphansAreOld' /\ OlderOverlapped' /\ YoungerKnow'
  BY <1>1, <1>2 DEF WatchedEnded, OrphansAreOld, OlderOverlapped, YoungerKnow, Live
<1>4. AppliedAlone' /\ DestroyedByDelete'
  BY <1>1, <1>2 DEF AppliedAlone, DestroyedByDelete
<1> QED BY <1>3, <1>4 DEF WatchInv

LEMMA FrameWatch ==
    ASSUME WatchInv, UNCHANGED <<sent, task, watched, infra>>
    PROVE  WatchInv'
BY DEF WatchInv, WatchedEnded, OrphansAreOld, OlderOverlapped, YoungerKnow, AppliedAlone,
       DestroyedByDelete, Destroying, NoOverlap, Unfinished, Dir

(* The steps of a goroutine, its last one included.                        *)
LEMMA TaskWatch ==
    ASSUME TypeInv, OwnInv, WatchInv, NEW e \in Events, TaskStep(e)
    PROVE  WatchInv'
<1> USE DEF Live
<1>1. CASE Rejects(e)
  <2>1. /\ Moves(e, "start", "report") /\ ~task'[e].success
        /\ UNCHANGED <<sent, watched, infra>>
    BY <1>1, TaskMoves DEF Rejects, watchVars
  <2> QED BY <2>1, QuietMovesWatch
<1>2. CASE WritesConfig(e)
  <2>1. Moves(e, "start", "init") /\ UNCHANGED <<sent, watched, infra>>
    BY <1>2, TaskMoves DEF WritesConfig, watchVars
  <2> QED BY <2>1, QuietMovesWatch
<1>3. CASE RunsInit(e)
  <2>1. UNCHANGED <<sent, watched, infra>>
    BY <1>3 DEF RunsInit, watchVars
  <2>2. CASE Moves(e, "init", "run")
    BY <2>1, <2>2, QuietMovesWatch
  <2>3. CASE Moves(e, "init", "report") /\ ~task'[e].success
    BY <2>1, <2>3, QuietMovesWatch
  <2> QED BY <1>3, <2>2, <2>3, TaskMoves
<1>4. CASE RunsTerraform(e)
  <2>1. UNCHANGED <<sent, watched, infra>>
    BY <1>4 DEF RunsTerraform, watchVars
  <2>2. CASE Moves(e, "run", "running")
    BY <2>1, <2>2, QuietMovesWatch
  <2>3. CASE Moves(e, "run", "report") /\ ~task'[e].success
    BY <2>1, <2>3, QuietMovesWatch
  <2> QED BY <1>4, <2>2, <2>3, TaskMoves
<1>5. CASE TerraformEnds(e)
  BY <1>5, TerraformEndsWatch
<1>6. CASE Reports(e)
  <2>1. /\ Moves(e, "report", "watch") /\ task'[e].success = task[e].success
        /\ UNCHANGED <<sent, watched, infra>>
    BY <1>6, TaskMoves DEF Reports, watchVars
  <2> QED BY <2>1, QuietMovesWatch
<1>7. CASE UpdatesWatcher(e)
  BY <1>7, UpdatesWatch
<1> QED BY <1>1, <1>2, <1>3, <1>4, <1>5, <1>6, <1>7 DEF TaskStep

(* The watcher and Kubernetes touch neither goroutines nor registrations.  *)
LEMMA WatcherFrame ==
    ASSUME WatcherStep \/ \E r \in Containers : HealthChanges(r)
    PROVE  UNCHANGED <<sent, task, file, backend, lock, infra, watched, crashes>>
BY DEF WatcherStep, BeginsRound, Checks, StatusArrives, StatusLost, HealthChanges,
       taskVars, watchVars

(* What is being sent, if anything, is a health of an entry.               *)
LEMMA SendingTyped ==
    ASSUME TypeInv
    PROVE  /\ sending.entry \in SomeEvent /\ sending.health \in Healths \cup {NoHealth}
           /\ Idle \in [entry : SomeEvent, health : Healths \cup {NoHealth}]
           /\ Idle.entry = NoEvent
BY DEF TypeInv, Idle, SomeEvent

LEMMA WatcherTypes ==
    ASSUME TypeInv, SendingLast,
           WatcherStep \/ \E r \in Containers : HealthChanges(r)
    PROVE  TypeInv'
<1>1. UNCHANGED <<sent, task, file, backend, lock, infra, watched, crashes>>
  BY WatcherFrame
<1>2. CASE BeginsRound
  <2>1. Copies \subseteq Events
    BY DEF Copies, TypeInv, SomeEvent
  <2> QED BY <1>1, <1>2, <2>1 DEF BeginsRound, TypeInv
<1>3. ASSUME NEW x \in Events, Checks(x) PROVE TypeInv'
  <2>1. Observed(task[x].resource) \in Healths \/ task[x].resource \notin Containers
    BY AgentAssumption DEF Observed, TypeInv
  <2>2. /\ last' \in [Events -> Healths \cup {NoHealth}]
        /\ sending' \in [entry : SomeEvent, health : Healths \cup {NoHealth}]
    BY <1>3, <2>1 DEF Checks, TypeInv, SomeEvent
  <2> QED BY <1>1, <1>3, <2>2 DEF Checks, TypeInv
<1>4. CASE StatusArrives
  <2> DEFINE r == task[sending.entry].resource
  <2>1. record' \in [Resources -> Record]
    <3>1. \A k \in Resources : [record[k] EXCEPT !.health = sending.health] \in Record
      BY SendingTyped DEF TypeInv, Record
    <3>2. \A k \in Resources : [record[k] EXCEPT !.health = @] \in Record
      BY DEF TypeInv, Record
    <3>3. record' = [record EXCEPT ![r].health = IF record[r].exists THEN sending.health ELSE @]
      BY <1>4 DEF StatusArrives
    <3> QED BY <3>1, <3>2, <3>3 DEF TypeInv
  <2> QED BY <1>1, <1>4, <2>1, SendingTyped DEF StatusArrives, TypeInv
<1>5. CASE StatusLost
  <2>1. sending.entry \in Events
    BY <1>5 DEF StatusLost, SendingLast
  <2> QED BY <1>1, <1>5, <2>1, SendingTyped DEF StatusLost, TypeInv
<1>6. ASSUME NEW r \in Containers, HealthChanges(r) PROVE TypeInv'
  <2>1. kube' \in [Containers -> Healths] /\ changes' \in 0..MaxChanges
    BY <1>6, AgentAssumption DEF HealthChanges, TypeInv
  <2> QED BY <1>1, <1>6, <2>1 DEF HealthChanges, TypeInv, watchVars
<1> QED BY <1>2, <1>3, <1>4, <1>5, <1>6 DEF WatcherStep

-----------------------------------------------------------------------------
(* What the watcher remembers, and what the record shows.                  *)

EndedStay == \A e \in Events : task[e].pc = "ended" =>
                task'[e].pc = "ended" /\ task'[e].resource = task[e].resource

LEMMA BusyTyped ==
    ASSUME TypeInv, ShownInv
    PROVE  /\ Busy \subseteq Events /\ \A y \in Busy : task[y].pc = "ended"
           /\ NoEvent \notin Events /\ Idle.entry = NoEvent
           /\ sending # Idle => sending.entry \in Busy /\ last[sending.entry] = sending.health
<1>1. NoEvent \notin Events /\ Idle.entry = NoEvent
  BY DEF Events, NoEvent, Idle
<1>2. Busy \subseteq Events
  BY SendingTyped DEF TypeInv, Busy, SomeEvent
<1> QED BY <1>1, <1>2 DEF ShownInv, HealthyEnded, SendingLast, Busy

(* A step that concerns only goroutines, and the record at most in that it *)
(* clears it or changes whether it is being deleted.                       *)
LEMMA FrameShown ==
    ASSUME TypeInv, ShownInv, EndedStay, sent' >= sent, sent' \in Nat,
           UNCHANGED <<watched, last, checking, sending, missed>>,
           \A r \in Resources :
              \/ record'[r] = Blank
              \/ /\ record'[r].exists = record[r].exists /\ record'[r].spec = record[r].spec
                 /\ record'[r].health = record[r].health
    PROVE  ShownInv'
<1>1. Busy' = Busy
  BY DEF Busy
<1>2. HealthyEnded'
  BY <1>1 DEF ShownInv, HealthyEnded, EndedStay
<1>3. SendingLast'
  BY DEF ShownInv, SendingLast
<1>4. \A y \in Busy : y \in Events /\ task'[y].resource = task[y].resource
  BY BusyTyped DEF EndedStay
<1>5. BusyDiffer'
  BY <1>1, <1>4 DEF ShownInv, BusyDiffer
<1>6. BusyIsWatched'
  BY <1>1, <1>4 DEF ShownInv, BusyIsWatched
<1>7. SpecExists'
  <2>1. \A r \in Resources : record[r].spec \in SomeEvent
    BY DEF TypeInv, Record
  <2> QED BY <2>1 DEF ShownInv, SpecExists, Blank, NoEvent, SomeEvent, Events, TypeInv
<1>8. RememberedIsShown'
  BY DEF ShownInv, RememberedIsShown, Blank
<1> QED BY <1>2, <1>3, <1>5, <1>6, <1>7, <1>8 DEF ShownInv

LEMMA MovesStay ==
    ASSUME NEW e \in Events, task[e].pc # "ended",
           \A f \in Events : f # e => task'[f] = task[f]
    PROVE  EndedStay
BY DEF EndedStay

LEMMA UpdatesShown ==
    ASSUME TypeInv, ShownInv, NEW e \in Events, UpdatesWatcher(e)
    PROVE  ShownInv'
<1>1. /\ task[e].pc = "watch" /\ \A f \in Events : f # e => task'[f] = task[f]
      /\ UNCHANGED <<sent, last, checking, sending, missed, record>>
  BY FinishMoves DEF UpdatesWatcher
<1>2. EndedStay /\ last[e] = NoHealth
  BY <1>1, MovesStay DEF ShownInv, HealthyEnded
<1>3. \A r \in Resources : watched'[r] \in {NoEvent, e, watched[r]}
  BY DEF UpdatesWatcher, Registers, TypeInv
<1>4. Busy' = Busy /\ \A y \in Busy : y \in Events /\ task'[y].resource = task[y].resource
  BY <1>1, <1>2, BusyTyped DEF EndedStay, Busy
<1>5. HealthyEnded' /\ SendingLast' /\ SpecExists'
  BY <1>1, <1>2, <1>4 DEF ShownInv, HealthyEnded, EndedStay, SendingLast, SpecExists
<1>6. BusyDiffer' /\ BusyIsWatched'
  BY <1>1, <1>2, <1>3, <1>4 DEF ShownInv, BusyDiffer, BusyIsWatched
<1>7. RememberedIsShown'
  BY <1>1, <1>2, <1>3 DEF ShownInv, RememberedIsShown
<1> QED BY <1>5, <1>6, <1>7 DEF ShownInv

LEMMA TaskShown ==
    ASSUME TypeInv, ShownInv, NEW e \in Events, TaskStep(e)
    PROVE  ShownInv'
<1>1. CASE UpdatesWatcher(e)
  BY <1>1, UpdatesShown
<1>2. CASE ~UpdatesWatcher(e)
  <2>1. UNCHANGED <<sent, watchVars>>
    BY <1>2 DEF TaskStep, Rejects, WritesConfig, RunsInit, RunsTerraform, TerraformEnds, Reports
  <2>2. EndedStay
    <3>1. task[e].pc # "ended" /\ \A f \in Events : f # e => task'[f] = task[f]
      BY <1>2, TaskMoves DEF TaskStep, Moves
    <3> QED BY <3>1, MovesStay
  <2>3. \A r \in Resources :
          \/ record'[r] = Blank
          \/ /\ record'[r].exists = record[r].exists /\ record'[r].spec = record[r].spec
             /\ record'[r].health = record[r].health
    <3>1. CASE Reports(e)
      <4>1. \A r \in Resources : /\ record'[r] \in {record[r], Blank,
                                                    [record[r] EXCEPT !.deleting = FALSE]}
                                 /\ record[r] \in Record
        BY <3>1 DEF Reports, TypeInv
      <4> QED BY <4>1 DEF Record
    <3>2. CASE ~Reports(e)
      <4>1. UNCHANGED record
        BY <1>2, <3>2 DEF TaskStep, Rejects, WritesConfig, RunsInit, RunsTerraform, TerraformEnds
      <4> QED BY <4>1
    <3> QED BY <3>1, <3>2
  <2>4. sent' >= sent /\ sent' \in Nat
    BY <2>1 DEF TypeInv
  <2> QED BY <2>1, <2>2, <2>3, <2>4, FrameShown DEF watchVars
<1> QED BY <1>1, <1>2

LEMMA OrphanShown ==
    ASSUME TypeInv, ShownInv, NEW e \in Events, OrphanEnds(e)
    PROVE  ShownInv'
<1>1. EndedStay
  BY OrphanMoves, MovesStay
<1>2. UNCHANGED <<sent, record, watchVars>> /\ sent' >= sent /\ sent' \in Nat
  BY DEF OrphanEnds, TypeInv
<1> QED BY <1>1, <1>2, FrameShown DEF watchVars

LEMMA RestartsShown ==
    ASSUME TypeInv, ShownInv, Restarts
    PROVE  ShownInv'
<1>1. /\ \A r \in Resources : watched'[r] = NoEvent
      /\ \A e \in Events : last'[e] = NoHealth
      /\ checking' = {} /\ sending' = Idle /\ UNCHANGED <<sent, record>>
  BY DEF Restarts
<1>2. Busy' = {}
  BY <1>1, BusyTyped DEF Busy
<1> QED BY <1>1, <1>2 DEF ShownInv, HealthyEnded, SendingLast, BusyDiffer, BusyIsWatched,
                          SpecExists, RememberedIsShown

(* A PUT clears the health, but none older than it is registered for it.   *)
LEMMA SendsShown ==
    ASSUME TypeInv, OwnInv, WatchInv, ShownInv,
           NEW op \in {"DEPLOY", "DELETE"}, NEW k \in Resources, Sends(op, k)
    PROVE  ShownInv'
<1> PICK e \in Events : e = sent + 1
  BY SendMoves DEF OwnInv
<1>1. /\ sent' = e /\ e = sent + 1 /\ sent \in Nat /\ task[e].pc = "none"
      /\ Received(op, k) \/ Lost(k)
      /\ UNCHANGED <<watched, last, checking, sending, missed>>
  <2>1. sent' = sent + 1 /\ task[sent + 1].pc = "none" /\ (Received(op, k) \/ Lost(k))
    BY SendMoves DEF OwnInv
  <2>2. UNCHANGED <<watched, last, checking, sending, missed>>
    BY DEF Sends, watchVars
  <2> QED BY <2>1, <2>2 DEF TypeInv
<1>2. EndedStay
  BY <1>1 DEF EndedStay, Received, Lost
<1>3. CASE op = "DELETE"
  <2>1. \A r \in Resources : /\ record'[r] \in {record[r], [record[r] EXCEPT !.deleting = TRUE]}
                             /\ record[r] \in Record
    BY <1>3 DEF Sends, TypeInv
  <2>2. sent' >= sent /\ sent' \in Nat
    BY <1>1
  <2> QED BY <1>1, <1>2, <2>1, <2>2, FrameShown DEF Record
<1>4. CASE op = "DEPLOY"
  <2>1. \A r \in Resources :
          record'[r] = IF r = k THEN [Blank EXCEPT !.exists = TRUE, !.spec = e] ELSE record[r]
    BY <1>1, <1>4 DEF Sends, TypeInv
  <2>2. Busy' = Busy /\ \A y \in Busy : y \in Events /\ task'[y].resource = task[y].resource
    BY <1>1, <1>2, BusyTyped DEF Busy, EndedStay
  <2>3. HealthyEnded' /\ SendingLast' /\ BusyDiffer' /\ BusyIsWatched'
    BY <1>1, <1>2, <2>2
    DEF ShownInv, HealthyEnded, EndedStay, SendingLast, BusyDiffer, BusyIsWatched
  <2>4. record'[k].spec = e /\ record'[k].exists
    BY <2>1 DEF Blank
  <2>5. SpecExists'
    <3>1. \A r \in Resources : record[r].spec \in Int
      BY DEF TypeInv, Record, SomeEvent, Events, NoEvent
    <3> QED BY <1>1, <2>1, <2>4, <3>1 DEF ShownInv, SpecExists
  <2>6. RememberedIsShown'
    <3>1. watched[k] # e
      BY <1>1, WatchedTyped DEF NoEvent, Events
    <3> QED BY <1>1, <2>1, <2>4, <3>1 DEF ShownInv, RememberedIsShown
  <2> QED BY <2>3, <2>5, <2>6 DEF ShownInv
<1> QED BY <1>3, <1>4

LEMMA WatcherShown ==
    ASSUME TypeInv, OwnInv, WatchInv, ShownInv,
           WatcherStep \/ \E r \in Containers : HealthChanges(r)
    PROVE  ShownInv'
<1>1. UNCHANGED <<sent, task, watched>>
  BY WatcherFrame
<1>2. CASE BeginsRound
  <2>1. /\ checking' = Copies /\ sending = Idle
        /\ UNCHANGED <<sending, last, missed, record>>
    BY <1>2 DEF BeginsRound
  <2>2. Busy' = Copies
    BY <2>1, BusyTyped DEF Busy
  <2>3. \A y \in Copies : \E r \in Resources :
          y = watched[r] /\ task[y].resource = r /\ task[y].pc = "ended"
    BY WatchedTyped DEF Copies
  <2>4. HealthyEnded' /\ BusyDiffer' /\ BusyIsWatched'
    BY <1>1, <2>1, <2>2, <2>3 DEF ShownInv, HealthyEnded, BusyDiffer, BusyIsWatched
  <2>5. SendingLast' /\ SpecExists' /\ RememberedIsShown'
    BY <1>1, <2>1 DEF ShownInv, SendingLast, SpecExists, RememberedIsShown
  <2> QED BY <2>4, <2>5 DEF ShownInv
<1>3. ASSUME NEW x \in Events, Checks(x) PROVE ShownInv'
  <2>1. /\ sending = Idle /\ x \in checking /\ checking' = checking \ {x}
        /\ UNCHANGED <<missed, record>>
    BY <1>3 DEF Checks
  <2>2. x \in Busy
    BY <2>1 DEF Busy
  <2>3. CASE UNCHANGED <<last, sending>>
    <3>1. Busy' \subseteq Busy
      BY <2>1, <2>3 DEF Busy
    <3> QED BY <1>1, <2>1, <2>3, <3>1
            DEF ShownInv, HealthyEnded, SendingLast, BusyDiffer, BusyIsWatched, SpecExists,
                RememberedIsShown
  <2>4. ASSUME NEW h, last' = [last EXCEPT ![x] = h], sending' = [entry |-> x, health |-> h]
        PROVE  ShownInv'
    <3>1. /\ last'[x] = h /\ \A y \in Events : y # x => last'[y] = last[y]
          /\ sending'.entry = x /\ sending'.health = h
      BY <2>4 DEF TypeInv
    <3>2. Busy' = Busy
      BY <2>1, <3>1, BusyTyped DEF Busy
    <3>3. HealthyEnded' /\ SendingLast' /\ BusyDiffer' /\ SpecExists'
      BY <1>1, <2>1, <2>2, <3>1, <3>2
      DEF ShownInv, HealthyEnded, SendingLast, BusyDiffer, SpecExists
    <3>4. \A r \in Resources : watched[r] # NoEvent =>
            watched[r] \in Events /\ task[watched[r]].resource = r
      BY WatchedTyped
    <3>5. BusyIsWatched'
      <4> SUFFICES ASSUME NEW r \in Resources, NEW y \in Busy, watched[r] # NoEvent,
                          last'[watched[r]] # NoHealth, task[y].resource = r
                   PROVE  y = watched[r]
        BY <1>1, <3>2 DEF BusyIsWatched
      <4>1. CASE watched[r] = x
        BY <2>2, <3>4, <4>1 DEF ShownInv, BusyDiffer
      <4>2. CASE watched[r] # x
        BY <3>1, <3>4, <4>2 DEF ShownInv, BusyIsWatched
      <4> QED BY <4>1, <4>2
    <3>6. RememberedIsShown'
      <4>1. sending.entry = NoEvent
        BY <2>1, BusyTyped
      <4> QED BY <1>1, <2>1, <3>1, <3>4, <4>1 DEF ShownInv, RememberedIsShown
    <3> QED BY <3>3, <3>5, <3>6 DEF ShownInv
  <2> QED BY <1>3, <2>3, <2>4 DEF Checks
<1>4. CASE StatusArrives \/ StatusLost
  <2> PICK x \in Busy : x = sending.entry
    BY <1>4, BusyTyped DEF StatusArrives, StatusLost
  <2>1. /\ x = sending.entry /\ last[x] = sending.health /\ sending' = Idle
        /\ UNCHANGED <<last, checking>>
    BY <1>4, BusyTyped DEF StatusArrives, StatusLost
  <2>2. Busy' \subseteq Busy
    BY <2>1, BusyTyped DEF Busy
  <2>3. HealthyEnded' /\ SendingLast' /\ BusyDiffer' /\ BusyIsWatched'
    BY <1>1, <2>1, <2>2 DEF ShownInv, HealthyEnded, SendingLast, BusyDiffer, BusyIsWatched
  <2>4. CASE StatusLost
    <3>1. missed' = missed \cup {x} /\ UNCHANGED record
      BY <2>1, <2>4 DEF StatusLost
    <3>2. SpecExists' /\ RememberedIsShown'
      BY <1>1, <2>1, <3>1 DEF ShownInv, SpecExists, RememberedIsShown
    <3> QED BY <2>3, <3>2 DEF ShownInv
  <2>5. CASE StatusArrives
    <3> DEFINE k == task[x].resource
    <3>1. /\ missed' = missed \ {x}
          /\ record' = [record EXCEPT ![k].health = IF record[k].exists THEN sending.health ELSE @]
      BY <2>1, <2>5 DEF StatusArrives
    <3>2. \A r \in Resources :
            /\ record'[r].spec = record[r].spec /\ record'[r].exists = record[r].exists
            /\ r # k => record'[r] = record[r]
            /\ r = k /\ record[r].exists => record'[r].health = sending.health
      BY <3>1 DEF TypeInv, Record
    <3>3. SpecExists'
      BY <1>1, <3>2 DEF ShownInv, SpecExists
    <3>4. RememberedIsShown'
      <4> SUFFICES ASSUME NEW r \in Resources, watched[r] # NoEvent,
                          watched[r] = record[r].spec, last[watched[r]] # NoHealth,
                          watched[r] \notin missed'
                   PROVE  record'[r].health = last[watched[r]]
        BY <1>1, <2>1, <3>2 DEF RememberedIsShown
      <4>1. CASE watched[r] = x
        <5>1. k = r /\ record[r].exists
          BY <4>1, WatchedTyped DEF ShownInv, SpecExists
        <5> QED BY <2>1, <3>2, <4>1, <5>1
      <4>2. CASE watched[r] # x
        <5>1. k # r
          BY <4>2 DEF ShownInv, BusyIsWatched
        <5>2. watched[r] \notin missed /\ sending.entry # watched[r]
          BY <2>1, <3>1, <4>2
        <5> QED BY <3>2, <5>1, <5>2 DEF ShownInv, RememberedIsShown
      <4> QED BY <4>1, <4>2
    <3> QED BY <2>3, <3>3, <3>4 DEF ShownInv
  <2> QED BY <1>4, <2>4, <2>5
<1>5. ASSUME NEW r \in Containers, HealthChanges(r) PROVE ShownInv'
  <2>1. UNCHANGED <<watchVars, record>>
    BY <1>5 DEF HealthChanges
  <2> QED BY <1>1, <2>1 DEF watchVars, ShownInv, HealthyEnded, Busy, SendingLast, BusyDiffer,
                             BusyIsWatched, SpecExists, RememberedIsShown
<1> QED BY <1>2, <1>3, <1>4, <1>5 DEF WatcherStep

-----------------------------------------------------------------------------
LEMMA InitIInv == ASSUME Init PROVE IInv
<1>1. PICK r \in Resources : task = [e \in Events |-> NoTask(r)]
  BY DEF Init
<1>2. NoTask(r) \in Task /\ NoTask(r).pc = "none" /\ NoTask(r).others = {}
  BY DEF NoTask, Task, SomeEvent
<1>3. TypeInv
  <2>1. Blank \in Record /\ \A b \in BOOLEAN : [Blank EXCEPT !.exists = b] \in Record
    BY DEF Blank, Record, SomeEvent
  <2>2. \A k \in Resources : [Blank EXCEPT !.exists = k \in Before] \in Record
    <3> SUFFICES ASSUME NEW k \in Resources
                 PROVE  [Blank EXCEPT !.exists = k \in Before] \in Record
      OBVIOUS
    <3>1. CASE k \in Before
      <4>1. (k \in Before) = TRUE
        BY <3>1
      <4> QED BY <2>1, <4>1
    <3>2. CASE k \notin Before
      <4>1. (k \in Before) = FALSE
        BY <3>2
      <4> QED BY <2>1, <4>1
    <3> QED BY <3>1, <3>2
  <2>3. record = [k \in Resources |-> [Blank EXCEPT !.exists = k \in Before]]
    BY DEF Init
  <2>4. record \in [Resources -> Record]
    BY <2>2, <2>3, Zenon
  <2> QED BY <1>1, <1>2, <2>4, AgentAssumption DEF Init, TypeInv, SomeEvent, Idle
<1>4. \A e \in Events : task[e].pc = "none" /\ task[e].others = {} /\ e # NoEvent /\ ~(e <= sent)
  BY <1>1, <1>2 DEF Init, Events, NoEvent
<1>5. OwnInv
  <2>1. \A r1 \in Resources : lock[r1] = NoEvent
    BY DEF Init
  <2> QED BY <1>4, <2>1 DEF OwnInv, Known, OwnFile, OwnCfg, Overlap, SameDir, LockInv, Unfinished
<1>6. \A r1 \in Resources : watched[r1] = NoEvent
  BY DEF Init
<1>7. WatchInv
  BY <1>4, <1>6 DEF WatchInv, WatchedEnded, OrphansAreOld, OlderOverlapped, YoungerKnow,
                     AppliedAlone, DestroyedByDelete, Live
<1>8. ShownInv
  <2>1. Busy = {}
    BY DEF Init, Busy, Idle
  <2>2. \A e \in Events : last[e] = NoHealth
    BY DEF Init
  <2>3. sending = Idle
    BY DEF Init
  <2>4. \A r1 \in Resources : record[r1].spec = NoEvent
    BY DEF Init, Blank
  <2>5. NoEvent <= sent
    BY DEF Init, NoEvent
  <2> QED BY <1>6, <2>1, <2>2, <2>3, <2>4, <2>5
          DEF ShownInv, HealthyEnded, SendingLast, BusyDiffer, BusyIsWatched, SpecExists,
              RememberedIsShown
<1> QED BY <1>3, <1>5, <1>7, <1>8 DEF IInv

LEMMA NextIInv == ASSUME IInv, [Next]_vars PROVE IInv'
<1> USE DEF IInv
<1>1. ASSUME NEW op \in {"DEPLOY", "DELETE"}, NEW r \in Resources, Sends(op, r) PROVE IInv'
  BY <1>1, SendsOwn, SendsWatch, SendsShown
<1>2. ASSUME NEW e \in Events, TaskStep(e) PROVE IInv'
  BY <1>2, TaskOwn, TaskWatch, TaskShown
<1>3. ASSUME NEW e \in Events, OrphanEnds(e) PROVE IInv'
  BY <1>3, OrphanOwn, OrphanEndsWatch, OrphanShown
<1>4. CASE WatcherStep \/ \E r \in Containers : HealthChanges(r)
  <2>1. OwnInv' /\ WatchInv'
    BY <1>4, WatcherFrame, FrameOwn, FrameWatch
  <2>2. TypeInv' /\ ShownInv'
    BY <1>4, WatcherTypes, WatcherShown DEF ShownInv
  <2> QED BY <2>1, <2>2
<1>5. CASE Restarts
  BY <1>5, RestartsOwn, RestartsWatch, RestartsShown
<1>6. CASE UNCHANGED vars
  <2>1. UNCHANGED <<sent, task, file, backend, lock, infra, kube, watched, last, checking, sending,
                    missed, record, crashes, changes>>
    BY <1>6 DEF vars, taskVars, watchVars
  <2>2. TypeInv' /\ OwnInv' /\ WatchInv'
    BY <2>1, FrameOwn, FrameWatch DEF TypeInv
  <2>3. ShownInv'
    BY <2>1 DEF ShownInv, HealthyEnded, Busy, SendingLast, BusyDiffer, BusyIsWatched, SpecExists,
                RememberedIsShown
  <2> QED BY <2>2, <2>3
<1> QED BY <1>1, <1>2, <1>3, <1>4, <1>5, <1>6 DEF Next

(* The invariant holds whatever the events, restarts and changes of health *)
(* are (cmd/ryobi-env: processEvent, statusWatcher).                       *)
THEOREM Invariant == Spec => []IInv
<1>1. Init => IInv
  BY InitIInv
<1>2. IInv /\ [Next]_vars => IInv'
  BY NextIInv
<1> QED BY <1>1, <1>2, PTL DEF Spec

(* The state is well typed, and a terraform state is locked only by a run  *)
(* of it that is still going on.                                           *)
THEOREM TypeCorrect == Spec => []TypeOK
<1>1. IInv => TypeOK
  BY DEF IInv, OwnInv, TypeInv, LockInv, TypeOK
<1> QED BY <1>1, Invariant, PTL

(* A goroutine applies or destroys the configuration of its own event, or  *)
(* of one whose goroutine was alive in the directory together with it.     *)
THEOREM OwnConfiguration == Spec => []AppliesItsOwn
<1>1. IInv => AppliesItsOwn
  BY DEF IInv, OwnInv, OwnCfg, AppliesItsOwn
<1> QED BY <1>1, Invariant, PTL

(* A resource whose goroutines have ended is not watched with nothing      *)
(* deployed, unless deployments since the registered one ran together with *)
(* others of the directory.                                                *)
THEOREM NothingWatchedInVain == Spec => []WatchedIsLive
<1>1. IInv => WatchedIsLive
  BY DEF IInv, WatchInv, DestroyedByDelete, Destroying, WatchedIsLive, Unfinished
<1> QED BY <1>1, Invariant, PTL

(* What the watcher remembers as the last health of what is deployed now   *)
(* is what the record shows, unless that report is on its way or got lost. *)
THEOREM DebounceIsRight == Spec => []RememberedIsShown
<1>1. IInv => RememberedIsShown
  BY DEF IInv, ShownInv
<1> QED BY <1>1, Invariant, PTL
=============================================================================
