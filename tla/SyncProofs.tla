----------------------------- MODULE SyncProofs -----------------------------
(***************************************************************************)
(* Proofs about the synchronisation script, for any number of machines,    *)
(* trees, scripts, rounds and faults: at most one script of a machine runs *)
(* (OneScript), and all receivers have one version of a tree (PeersAgree). *)
(***************************************************************************)
EXTENDS Sync, FiniteSetTheorems, TLAPS

PCs == {"off", "init", "upload", "uploading", "download", "downloading", "ended"}

ScriptType ==
  [pc : PCs, alive : BOOLEAN, round : Nat, list : SUBSET Trees,
   got : {Nil} \cup [tree : Trees, has : Nat]]

TypeOK ==
  /\ tree \in [Places -> [Trees -> Nat]]
  /\ pid_file \in [Machines -> Scripts \cup {Nil}]
  /\ script \in [Scripts -> ScriptType]
  /\ faults \in Nat
-----------------------------------------------------------------------------
(* Facts about the operators of the model.                                 *)

\* The machine of a script is one of the machines, and not the server.
LEMMA OnMachine ==
  ASSUME NEW s \in Scripts
  PROVE  ScriptOn[s] \in Machines /\ ScriptOn[s] \in Places /\ ScriptOn[s] # Server
BY SyncAssumption DEF Places

\* The machine that makes a tree is not the server.
LEMMA OwnerMachine ==
  ASSUME NEW t \in Trees
  PROVE  Owner[t] \in Machines /\ Owner[t] \in Places /\ Owner[t] # Server
BY SyncAssumption DEF Places

\* The records that the actions give a script.
LEMMA OffType == Off \in ScriptType /\ Ended \in ScriptType
BY DEF Off, Ended, ScriptType, PCs

\* A script that is off or ended holds nothing.
LEMMA EndedFields ==
  /\ Off.pc = "off" /\ Off.got = Nil /\ Off.list = {} /\ ~Off.alive
  /\ Ended.pc = "ended" /\ Ended.got = Nil /\ Ended.list = {} /\ ~Ended.alive
BY DEF Off, Ended

\* What a step of script s to state new does to the scripts and to the two
\* histories.
LEMMA StepFields ==
  ASSUME TypeOK, NEW s \in Scripts, NEW new \in ScriptType, Step(s, new)
  PROVE  /\ script' \in [Scripts -> ScriptType]
         /\ script'[s] = new
         /\ \A r \in Scripts : r # s => script'[r] = script[r]
         /\ raced \subseteq raced' /\ overlapped \subseteq overlapped'
         /\ \A r \in Scripts :
              r # s /\ ScriptOn[r] = ScriptOn[s] =>
                /\ new.pc = "init" /\ Initialising(r) => ScriptOn[s] \in raced'
                /\ new.pc \in {"uploading", "downloading"} /\ Copying(r)
                     => ScriptOn[s] \in overlapped'
<1>1. script' = [script EXCEPT ![s] = new]
  BY DEF Step
<1>2. script' \in [Scripts -> ScriptType] /\ script'[s] = new
      /\ \A r \in Scripts : r # s => script'[r] = script[r]
  BY <1>1 DEF TypeOK
<1>3. raced \subseteq raced' /\ overlapped \subseteq overlapped'
  BY DEF Step
<1>4. ASSUME NEW r \in Scripts, r # s, ScriptOn[r] = ScriptOn[s],
             new.pc = "init", Initialising(r)
      PROVE  ScriptOn[s] \in raced'
  <2>1. r \in On(ScriptOn[s]) \ {s} /\ Initialising(s)'
    BY <1>2, <1>4 DEF On, Initialising
  <2>2. raced' = raced \cup {ScriptOn[s]}
    BY <2>1, <1>4 DEF Step
  <2> QED
    BY <2>2
<1>5. ASSUME NEW r \in Scripts, r # s, ScriptOn[r] = ScriptOn[s],
             new.pc \in {"uploading", "downloading"}, Copying(r)
      PROVE  ScriptOn[s] \in overlapped'
  <2>1. r \in On(ScriptOn[s]) \ {s} /\ Copying(s)'
    BY <1>2, <1>5 DEF On, Copying
  <2>2. overlapped' = overlapped \cup {ScriptOn[s]}
    BY <2>1, <1>5 DEF Step
  <2> QED
    BY <2>2
<1> QED
  BY <1>2, <1>3, <1>4, <1>5
-----------------------------------------------------------------------------
(* The next state of a script, for each kind of step.                      *)

\* The script after its look at the pid file.
LEMMA CheckRecord ==
  /\ [Off EXCEPT !.pc = "init", !.alive = TRUE] \in ScriptType
  /\ [Off EXCEPT !.pc = "init", !.alive = TRUE].pc = "init"
  /\ [Off EXCEPT !.pc = "init", !.alive = TRUE].got = Nil
BY DEF Off, ScriptType, PCs

\* The script after a copy.
LEMMA AfterCopyRecord ==
  ASSUME TypeOK, NEW s \in Scripts
  PROVE  /\ AfterCopy(s) \in ScriptType
         /\ AfterCopy(s).pc \in {"upload", "download", "ended"}
         /\ AfterCopy(s).got = Nil
         /\ AfterCopy(s).alive => running(s)
<1>1. script[s] \in ScriptType
  BY DEF TypeOK
<1>2. CASE AfterCopy(s) = Ended
  BY <1>2, OffType, EndedFields
<1>3. CASE AfterCopy(s) = [script[s] EXCEPT !.pc = "download", !.list = {}, !.got = Nil]
  BY <1>1, <1>3 DEF ScriptType, PCs, running
<1>4. CASE AfterCopy(s) = [script[s] EXCEPT !.pc = "upload", !.list = {}, !.got = Nil, !.round = @ + 1]
  <2> DEFINE next == script[s].round + 1
  <2>1. next \in Nat
    BY <1>1 DEF ScriptType
  <2>2. AfterCopy(s) = [script[s] EXCEPT !.pc = "upload", !.list = {}, !.got = Nil, !.round = next]
    BY <1>4
  <2> HIDE DEF next
  <2> QED
    BY <1>1, <2>1, <2>2 DEF ScriptType, PCs, running
<1> QED
  BY <1>2, <1>3, <1>4 DEF AfterCopy

\* A step of a script that is past init: it makes no pid file, does not go
\* back to init, and python does not come back to life.
PastInit(s, new) ==
  /\ Step(s, new) /\ new \in ScriptType
  /\ UNCHANGED pid_file
  /\ new.pc # "init"
  /\ new.alive => running(s) /\ ~Initialising(s)

\* The script when an rsync begins.
LEMMA BeginRecord ==
  ASSUME TypeOK, NEW s \in Scripts, rsync_begin(s)
  PROVE  \E new : /\ PastInit(s, new)
                  /\ UNCHANGED tree
                  /\ new.got = script[s].got
                  /\ script[s].pc \in {"upload", "download"}
                  /\ \/ /\ new.pc = "uploading"
                        /\ new.list = {t \in Trees : tree[ScriptOn[s]][t] # 0}
                     \/ /\ new.pc = "downloading"
                        /\ new.list = {t \in Trees : tree[Server][t] # 0}
<1> DEFINE new == [script[s] EXCEPT !.pc = IF @ = "upload" THEN "uploading" ELSE "downloading",
                                    !.list = {t \in Trees : tree[From(s)][t] # 0}]
<1>1. script[s] \in ScriptType /\ script[s].pc \in {"upload", "download"}
  BY DEF TypeOK, rsync_begin
<1>2. new \in ScriptType /\ new.got = script[s].got /\ new.alive = script[s].alive
      /\ new.list = {t \in Trees : tree[From(s)][t] # 0}
  BY <1>1 DEF ScriptType, PCs
<1>3. CASE script[s].pc = "upload"
  BY <1>1, <1>2, <1>3 DEF rsync_begin, PastInit, running, Initialising, From, ScriptType
<1>4. CASE script[s].pc = "download"
  BY <1>1, <1>2, <1>4 DEF rsync_begin, PastInit, running, Initialising, From, ScriptType
<1> QED
  BY <1>1, <1>3, <1>4

\* The script when a file is read.
LEMMA ReadRecord ==
  ASSUME TypeOK, NEW s \in Scripts, NEW t \in Trees, copy_read(s, t)
  PROVE  \E new : /\ PastInit(s, new)
                  /\ UNCHANGED tree
                  /\ Copying(s) /\ new.pc = script[s].pc
                  /\ t \in script[s].list /\ new.list = script[s].list \ {t}
                  /\ \/ new.got = Nil
                     \/ /\ tree[To(s)][t] = 0
                        /\ new.got = [tree |-> t, has |-> tree[From(s)][t]]
<1> DEFINE got == IF tree[To(s)][t] # 0 THEN Nil ELSE [tree |-> t, has |-> tree[From(s)][t]]
           new == [script[s] EXCEPT !.list = @ \ {t}, !.got = got]
<1>1. script[s] \in ScriptType /\ script[s].pc \in {"uploading", "downloading"}
  BY DEF TypeOK, copy_read, Copying
<1>2. From(s) \in Places
  BY OnMachine DEF From, Places
<1>3. tree[From(s)][t] \in Nat
  BY <1>2 DEF TypeOK
<1>4. got \in {Nil} \cup [tree : Trees, has : Nat]
  BY <1>3
<1>5. new \in ScriptType /\ new.pc = script[s].pc /\ new.alive = script[s].alive
      /\ new.list = script[s].list \ {t} /\ new.got = got
  <2> HIDE DEF got
  <2> QED
    BY <1>1, <1>4 DEF ScriptType
<1>6. PastInit(s, new)
  BY <1>1, <1>5 DEF copy_read, PastInit, running, Initialising
<1> QED
  BY <1>5, <1>6 DEF copy_read

\* The script when a file is renamed into its place.
LEMMA RenameRecord ==
  ASSUME TypeOK, NEW s \in Scripts, copy_rename(s)
  PROVE  \E new : /\ PastInit(s, new)
                  /\ tree' = [tree EXCEPT ![To(s)][script[s].got.tree] = script[s].got.has]
                  /\ Copying(s) /\ new.pc = script[s].pc
                  /\ script[s].got # Nil /\ script[s].got \in [tree : Trees, has : Nat]
                  /\ new.got = Nil /\ new.list = script[s].list
<1> DEFINE new == [script[s] EXCEPT !.got = Nil]
<1>1. /\ script[s] \in ScriptType /\ script[s].pc \in {"uploading", "downloading"}
      /\ script[s].got # Nil
  BY DEF TypeOK, copy_rename, Copying
<1>2. script[s].got \in [tree : Trees, has : Nat]
  BY <1>1 DEF ScriptType
<1>3. new \in ScriptType /\ new.pc = script[s].pc /\ new.alive = script[s].alive
      /\ new.got = Nil /\ new.list = script[s].list
  BY <1>1 DEF ScriptType
<1>4. PastInit(s, new)
  BY <1>1, <1>3 DEF copy_rename, PastInit, running, Initialising
<1> QED
  BY <1>1, <1>2, <1>3, <1>4 DEF copy_rename

\* rsync_end, rsync_fail and a kill that ends rsync too.
LEMMA EndRecord ==
  ASSUME TypeOK, NEW s \in Scripts,
         rsync_end(s) \/ rsync_fail(s) \/ (kill_script(s) /\ Step(s, Ended))
  PROVE  \E new : /\ PastInit(s, new)
                  /\ UNCHANGED tree
                  /\ new.got = Nil /\ new.pc \notin {"uploading", "downloading"}
<1>1. CASE rsync_end(s) \/ rsync_fail(s)
  <2>1. Copying(s) /\ Step(s, AfterCopy(s)) /\ UNCHANGED <<tree, pid_file>>
    BY <1>1 DEF rsync_end, rsync_fail
  <2>2. PastInit(s, AfterCopy(s))
    BY <2>1, AfterCopyRecord DEF PastInit, Copying, Initialising
  <2> QED
    BY <2>1, <2>2, AfterCopyRecord
<1>2. CASE kill_script(s) /\ Step(s, Ended)
  <2>1. PastInit(s, Ended)
    BY <1>2, OffType, EndedFields DEF PastInit, kill_script
  <2> QED
    BY <1>2, <2>1, EndedFields DEF kill_script
<1> QED
  BY <1>1, <1>2

\* A kill that leaves rsync behind.
LEMMA OrphanRecord ==
  ASSUME TypeOK, NEW s \in Scripts, kill_script(s), ~Step(s, Ended)
  PROVE  \E new : /\ PastInit(s, new)
                  /\ UNCHANGED tree
                  /\ Copying(s) /\ new.pc = script[s].pc
                  /\ new.list = script[s].list /\ new.got = script[s].got
<1> DEFINE new == [script[s] EXCEPT !.alive = FALSE]
<1>1. Copying(s) /\ Step(s, new) /\ UNCHANGED <<tree, pid_file>>
  BY DEF kill_script
<1>2. script[s] \in ScriptType /\ script[s].pc \in {"uploading", "downloading"}
  BY <1>1 DEF TypeOK, Copying
<1>3. new \in ScriptType /\ new.pc = script[s].pc /\ ~new.alive
      /\ new.list = script[s].list /\ new.got = script[s].got
  BY <1>2 DEF ScriptType
<1>4. PastInit(s, new)
  BY <1>1, <1>2, <1>3 DEF PastInit
<1> QED
  BY <1>1, <1>3, <1>4
-----------------------------------------------------------------------------
(* Type correctness.                                                       *)

\* What a step of Next is: a flush, the two steps of init, or a step of a
\* script past init.
LEMMA NextCases ==
  ASSUME TypeOK, Next
  PROVE  \/ \E t \in Trees : flush_step(t)
         \/ \E s \in Scripts : init_check(s) \/ init_write(s)
         \/ \E s \in Scripts : rsync_begin(s)
         \/ \E s \in Scripts, t \in Trees : copy_read(s, t)
         \/ \E s \in Scripts : copy_rename(s)
         \/ \E s \in Scripts : rsync_end(s) \/ rsync_fail(s) \/ (kill_script(s) /\ Step(s, Ended))
         \/ \E s \in Scripts : kill_script(s) /\ ~Step(s, Ended)
BY DEF Next, ScriptStep

\* The record that init_write gives a script.
LEMMA WriteRecord ==
  ASSUME TypeOK, NEW s \in Scripts, init_write(s)
  PROVE  \E new \in ScriptType :
           /\ Step(s, new)
           /\ pid_file' = [pid_file EXCEPT ![ScriptOn[s]] = s]
           /\ UNCHANGED <<tree, faults>>
           /\ Initialising(s) /\ new.pc = "upload" /\ new.got = script[s].got
<1> DEFINE new == [script[s] EXCEPT !.pc = "upload", !.round = 1]
<1>1. script[s] \in ScriptType
  BY DEF TypeOK
<1>2. new \in ScriptType /\ new.pc = "upload" /\ new.got = script[s].got
  BY <1>1 DEF ScriptType, PCs
<1> QED
  BY <1>2 DEF init_write, Initialising

\* The types hold at the start.
LEMMA TypeInit == Init => TypeOK
BY SyncAssumption, OffType DEF Init, TypeOK

\* Every step keeps the types.
LEMMA TypeNext == TypeOK /\ [Next]_vars => TypeOK'
<1> SUFFICES ASSUME TypeOK, [Next]_vars PROVE TypeOK'
  OBVIOUS
<1>1. ASSUME NEW t \in Trees, flush_step(t)
      PROVE  TypeOK'
  <2>1. tree' \in [Places -> [Trees -> Nat]]
    BY <1>1, OwnerMachine DEF TypeOK, flush_step
  <2> QED
    BY <1>1, <2>1 DEF TypeOK, flush_step
<1>2. ASSUME NEW s \in Scripts, init_check(s)
      PROVE  TypeOK'
  BY <1>2, CheckRecord, StepFields DEF init_check, TypeOK
<1>3. ASSUME NEW s \in Scripts, init_write(s)
      PROVE  TypeOK'
  <2>1. script' \in [Scripts -> ScriptType]
    BY <1>3, WriteRecord, StepFields
  <2> QED
    BY <1>3, <2>1, OnMachine DEF TypeOK, init_write
<1>4. ASSUME NEW s \in Scripts, NEW new, PastInit(s, new)
      PROVE  script' \in [Scripts -> ScriptType] /\ pid_file' = pid_file
  BY <1>4, StepFields DEF PastInit
<1>5. ASSUME NEW s \in Scripts, rsync_begin(s)
      PROVE  TypeOK'
  BY <1>4, <1>5, BeginRecord DEF TypeOK, rsync_begin
<1>6. ASSUME NEW s \in Scripts, NEW t \in Trees, copy_read(s, t)
      PROVE  TypeOK'
  BY <1>4, <1>6, ReadRecord DEF TypeOK, copy_read
<1>7. ASSUME NEW s \in Scripts, copy_rename(s)
      PROVE  TypeOK'
  <2>1. /\ script' \in [Scripts -> ScriptType] /\ pid_file' = pid_file
        /\ tree' = [tree EXCEPT ![To(s)][script[s].got.tree] = script[s].got.has]
        /\ script[s].got \in [tree : Trees, has : Nat]
    BY <1>4, <1>7, RenameRecord
  <2>2. To(s) \in Places
    BY OnMachine DEF To, Places
  <2>3. tree' \in [Places -> [Trees -> Nat]]
    BY <2>1, <2>2 DEF TypeOK
  <2> QED
    BY <1>7, <2>1, <2>3 DEF TypeOK, copy_rename
<1>8. ASSUME NEW s \in Scripts,
             rsync_end(s) \/ rsync_fail(s) \/ (kill_script(s) /\ Step(s, Ended))
      PROVE  TypeOK'
  <2>1. script' \in [Scripts -> ScriptType] /\ pid_file' = pid_file /\ tree' = tree
    BY <1>4, <1>8, EndRecord
  <2>2. faults' \in Nat
    BY <1>8 DEF TypeOK, rsync_end, rsync_fail, kill_script
  <2> QED
    BY <2>1, <2>2 DEF TypeOK
<1>9. ASSUME NEW s \in Scripts, kill_script(s), ~Step(s, Ended)
      PROVE  TypeOK'
  <2>1. script' \in [Scripts -> ScriptType] /\ pid_file' = pid_file /\ tree' = tree
    BY <1>4, <1>9, OrphanRecord
  <2>2. faults' \in Nat
    BY <1>9 DEF TypeOK, kill_script
  <2> QED
    BY <2>1, <2>2 DEF TypeOK
<1>10. CASE UNCHANGED vars
  BY <1>10 DEF vars, TypeOK
<1> QED
  BY <1>1, <1>2, <1>3, <1>5, <1>6, <1>7, <1>8, <1>9, <1>10, NextCases
-----------------------------------------------------------------------------
(* One script runs on a machine.                                           *)

\* On a machine where no two scripts raced, a script that runs past init is
\* the one in the pid file, ...
PidOfRunning ==
  \A s \in Scripts :
    running(s) /\ ~Initialising(s) /\ ScriptOn[s] \notin raced => pid_file[ScriptOn[s]] = s

\* ... and while a script is in init no other one runs.
InitAlone ==
  \A s, r \in Scripts :
    /\ ScriptOn[r] = ScriptOn[s] /\ ScriptOn[s] \notin raced
    /\ Initialising(s) /\ running(r)
    => r = s

PidInv == PidOfRunning /\ InitAlone

\* With the pid file as the invariant says, no two scripts run.
LEMMA PidInvOneScript == TypeOK /\ PidInv => OneScript
<1> SUFFICES ASSUME TypeOK, PidInv, NEW m \in Machines \ raced
             PROVE  Cardinality({s \in On(m) : running(s)}) <= 1
  BY DEF OneScript
<1> DEFINE R == {s \in On(m) : running(s)}
<1>1. \A s, r \in R : s = r
  BY DEF PidInv, PidOfRunning, InitAlone, On
<1>2. CASE R = {}
  BY <1>2, FS_EmptySet
<1>3. ASSUME NEW s \in R
      PROVE  Cardinality(R) = 1
  <2>1. R = {s}
    BY <1>1, <1>3
  <2> QED
    BY <2>1, FS_Singleton
<1> QED
  BY <1>2, <1>3

\* It is so at the start.
LEMMA PidInit == Init => PidInv
BY EndedFields DEF Init, PidInv, PidOfRunning, InitAlone, running, Initialising

\* Every step keeps it so, unless two scripts race in init.
LEMMA PidNext == TypeOK /\ PidInv /\ [Next]_vars => PidInv'
<1> SUFFICES ASSUME TypeOK, PidInv, [Next]_vars PROVE PidInv'
  OBVIOUS
<1>1. ASSUME NEW t \in Trees, flush_step(t)
      PROVE  PidInv'
  BY <1>1 DEF flush_step, PidInv, PidOfRunning, InitAlone, running, Initialising
\* A script that comes later finds the pid file of the one that runs.
<1>2. ASSUME NEW s \in Scripts, init_check(s)
      PROVE  PidInv'
  <2> DEFINE new == [Off EXCEPT !.pc = "init", !.alive = TRUE]
  <2>1. Step(s, new) /\ new \in ScriptType /\ new.pc = "init"
        /\ UNCHANGED pid_file /\ ~Excluded(s)
    BY <1>2, CheckRecord DEF init_check
  <2> HIDE DEF new
  <2>2. /\ script'[s] = new /\ \A r \in Scripts : r # s => script'[r] = script[r]
        /\ raced \subseteq raced'
        /\ \A r \in Scripts : r # s /\ ScriptOn[r] = ScriptOn[s] /\ Initialising(r)
                                => ScriptOn[s] \in raced'
    BY <2>1, StepFields
  <2>3. PidOfRunning'
    BY <2>1, <2>2 DEF PidInv, PidOfRunning, running, Initialising
  <2>4. ASSUME NEW r \in Scripts, r # s, ScriptOn[r] = ScriptOn[s],
               ScriptOn[s] \notin raced', running(r)
        PROVE  FALSE
    <3>1. ~Initialising(r) /\ ScriptOn[s] \notin raced
      BY <2>2, <2>4
    <3>2. pid_file[ScriptOn[s]] = r
      BY <2>4, <3>1 DEF PidInv, PidOfRunning
    <3>3. r # Nil
      BY SyncAssumption
    <3> QED
      BY <2>1, <2>4, <3>2, <3>3 DEF Excluded
  <2>5. InitAlone'
    BY <2>1, <2>2, <2>4 DEF PidInv, InitAlone, running, Initialising
  <2> QED
    BY <2>3, <2>5 DEF PidInv
<1>3. ASSUME NEW s \in Scripts, init_write(s)
      PROVE  PidInv'
  <2>1. PICK new \in ScriptType :
           /\ Step(s, new)
           /\ pid_file' = [pid_file EXCEPT ![ScriptOn[s]] = s]
           /\ Initialising(s) /\ new.pc = "upload"
    BY <1>3, WriteRecord
  <2>2. /\ script'[s] = new /\ \A r \in Scripts : r # s => script'[r] = script[r]
        /\ raced \subseteq raced'
    BY <2>1, StepFields
  <2>3. ASSUME NEW r \in Scripts, running(r)', ~Initialising(r)', ScriptOn[r] \notin raced'
        PROVE  pid_file'[ScriptOn[r]] = r
    <3>1. CASE r = s
      BY <2>1, <3>1, OnMachine DEF TypeOK
    <3>2. CASE r # s
      <4>1. running(r) /\ ~Initialising(r) /\ ScriptOn[r] \notin raced
        BY <2>2, <2>3, <3>2 DEF running, Initialising
      <4>2. ScriptOn[r] # ScriptOn[s]
        BY <2>1, <3>2, <4>1 DEF PidInv, InitAlone
      <4>3. pid_file[ScriptOn[r]] = r
        BY <4>1 DEF PidInv, PidOfRunning
      <4> QED
        BY <2>1, <4>2, <4>3, OnMachine DEF TypeOK
    <3> QED
      BY <3>1, <3>2
  <2>4. InitAlone'
    <3> SUFFICES ASSUME NEW q \in Scripts, NEW r \in Scripts,
                        ScriptOn[r] = ScriptOn[q], ScriptOn[q] \notin raced',
                        Initialising(q)', running(r)'
                 PROVE  r = q
      BY DEF InitAlone
    <3>1. q # s /\ Initialising(q) /\ ScriptOn[q] \notin raced
      BY <2>1, <2>2 DEF Initialising
    <3>2. CASE r = s
      <4>1. CASE running(s)
        BY <3>1, <3>2, <4>1 DEF PidInv, InitAlone
      <4>2. CASE ~running(s)
        BY <1>3, <3>2, <4>2, <2>1, <2>2 DEF running, init_write, Step, TypeOK, ScriptType
      <4> QED
        BY <4>1, <4>2
    <3>3. CASE r # s
      BY <2>2, <3>1, <3>3 DEF PidInv, InitAlone, running
    <3> QED
      BY <3>2, <3>3
  <2> QED
    BY <2>3, <2>4 DEF PidInv, PidOfRunning
<1>4. ASSUME NEW s \in Scripts, NEW new, PastInit(s, new)
      PROVE  PidInv'
  <2>1. /\ script'[s] = new /\ \A r \in Scripts : r # s => script'[r] = script[r]
        /\ raced \subseteq raced'
    BY <1>4, StepFields DEF PastInit
  <2>2. PidOfRunning'
    BY <1>4, <2>1 DEF PastInit, PidInv, PidOfRunning, running, Initialising
  <2>3. InitAlone'
    BY <1>4, <2>1 DEF PastInit, PidInv, InitAlone, running, Initialising
  <2> QED
    BY <2>2, <2>3 DEF PidInv
<1>5. CASE UNCHANGED vars
  BY <1>5 DEF vars, PidInv, PidOfRunning, InitAlone, running, Initialising
<1> QED
  BY <1>1, <1>2, <1>3, <1>4, <1>5, NextCases, BeginRecord, ReadRecord, RenameRecord,
     EndRecord, OrphanRecord

\* The pid file keeps a second script out of a machine on which no two
\* scripts were in init at once (sync.py, init), over kills, restarts and the
\* recursion limit.
THEOREM OneScriptRuns == Spec => []OneScript
<1>1. Init => TypeOK /\ PidInv
  BY TypeInit, PidInit
<1>2. TypeOK /\ PidInv /\ [Next]_vars => (TypeOK /\ PidInv)'
  BY TypeNext, PidNext
<1> QED
  BY <1>1, <1>2, PidInvOneScript, PTL DEF Spec
-----------------------------------------------------------------------------
(* All receivers have one version of a tree.                               *)

\* What a script has listed is there, with the sender, and stays there.
Listed ==
  \A s \in Scripts, t \in Trees :
    t \in script[s].list =>
      /\ script[s].pc = "uploading" => tree[ScriptOn[s]][t] # 0
      /\ script[s].pc = "downloading" => tree[Server][t] # 0

\* Only a running rsync holds a temporary file, and none is empty.
Holding ==
  \A s \in Scripts :
    script[s].got # Nil => Copying(s) /\ script[s].got.has # 0

\* Two rsyncs of one machine at once are recorded.
CopiesAlone ==
  \A s, r \in Scripts :
    /\ ScriptOn[r] = ScriptOn[s] /\ ScriptOn[s] \notin overlapped
    /\ Copying(s) /\ Copying(r)
    => r = s

\* A temporary file on its way to the server is of a tree that the server
\* does not have and that only its owner can send; one on its way from the
\* server is what the server still has.
InFlight ==
  \A s \in Scripts :
    script[s].got # Nil /\ Owner[script[s].got.tree] \notin overlapped =>
      IF script[s].pc = "uploading"
      THEN ScriptOn[s] = Owner[script[s].got.tree] /\ tree[Server][script[s].got.tree] = 0
      ELSE script[s].got.has = tree[Server][script[s].got.tree]

CopyInv == Listed /\ Holding /\ CopiesAlone /\ InFlight /\ PeersAgree

\* Nothing is in flight at the start.
LEMMA CopyInit == Init => CopyInv
<1> SUFFICES ASSUME Init PROVE CopyInv
  OBVIOUS
<1>1. \A s \in Scripts : script[s] = Off
  BY DEF Init
<1>2. \A p \in Places, t \in Trees : tree[p][t] = 0
  BY DEF Init
<1> QED
  BY <1>1, <1>2, EndedFields
  DEF CopyInv, Listed, Holding, CopiesAlone, InFlight, PeersAgree, Copying, Places

\* A step that copies nothing: the trees stay, and the script that takes the
\* step keeps its part of the invariant.
LEMMA CopyQuiet ==
  ASSUME TypeOK, CopyInv, NEW s \in Scripts, NEW new \in ScriptType, Step(s, new),
         UNCHANGED tree,
         \A t \in new.list :
           /\ new.pc = "uploading" => tree[ScriptOn[s]][t] # 0
           /\ new.pc = "downloading" => tree[Server][t] # 0,
         new.got # Nil =>
           /\ new.pc \in {"uploading", "downloading"}
           /\ new.got.has # 0
           /\ Owner[new.got.tree] \notin overlapped =>
                IF new.pc = "uploading"
                THEN ScriptOn[s] = Owner[new.got.tree] /\ tree[Server][new.got.tree] = 0
                ELSE new.got.has = tree[Server][new.got.tree]
  PROVE  CopyInv'
<1>1. /\ script'[s] = new /\ \A r \in Scripts : r # s => script'[r] = script[r]
      /\ overlapped \subseteq overlapped'
      /\ \A r \in Scripts :
           /\ r # s /\ ScriptOn[r] = ScriptOn[s]
           /\ new.pc \in {"uploading", "downloading"} /\ Copying(r)
           => ScriptOn[s] \in overlapped'
  BY StepFields
<1>2. Listed'
  BY <1>1 DEF CopyInv, Listed
<1>3. Holding'
  BY <1>1 DEF CopyInv, Holding, Copying
<1>4. CopiesAlone'
  BY <1>1 DEF CopyInv, CopiesAlone, Copying
<1>5. InFlight'
  <2> SUFFICES ASSUME NEW r \in Scripts, script'[r].got # Nil,
                      Owner[script'[r].got.tree] \notin overlapped'
               PROVE  IF script'[r].pc = "uploading"
                      THEN /\ ScriptOn[r] = Owner[script'[r].got.tree]
                           /\ tree'[Server][script'[r].got.tree] = 0
                      ELSE script'[r].got.has = tree'[Server][script'[r].got.tree]
    BY DEF InFlight
  <2>1. CASE r = s
    BY <1>1, <2>1
  <2>2. CASE r # s
    BY <1>1, <2>2 DEF CopyInv, InFlight
  <2> QED
    BY <2>1, <2>2
<1>6. PeersAgree'
  BY <1>1 DEF CopyInv, PeersAgree
<1> QED
  BY <1>2, <1>3, <1>4, <1>5, <1>6 DEF CopyInv

\* Only a machine that has the tree, and a script of the owner unless the
\* server has it, can read a tree for an upload.
LEMMA CopyRead ==
  ASSUME TypeOK, CopyInv, NEW s \in Scripts, NEW t \in Trees, copy_read(s, t)
  PROVE  CopyInv'
<1>1. PICK new :
        /\ PastInit(s, new)
        /\ UNCHANGED tree
        /\ Copying(s) /\ new.pc = script[s].pc
        /\ t \in script[s].list /\ new.list = script[s].list \ {t}
        /\ \/ new.got = Nil
           \/ /\ tree[To(s)][t] = 0
              /\ new.got = [tree |-> t, has |-> tree[From(s)][t]]
  BY ReadRecord
<1>2. Step(s, new) /\ new \in ScriptType
  BY <1>1 DEF PastInit
<1>3. \A u \in new.list :
        /\ new.pc = "uploading" => tree[ScriptOn[s]][u] # 0
        /\ new.pc = "downloading" => tree[Server][u] # 0
  BY <1>1, <1>2 DEF CopyInv, Listed, ScriptType
<1>4. ASSUME new.got # Nil
      PROVE  /\ new.pc \in {"uploading", "downloading"}
             /\ new.got.has # 0
             /\ Owner[new.got.tree] \notin overlapped =>
                  IF new.pc = "uploading"
                  THEN ScriptOn[s] = Owner[new.got.tree] /\ tree[Server][new.got.tree] = 0
                  ELSE new.got.has = tree[Server][new.got.tree]
  <2>1. tree[To(s)][t] = 0 /\ new.got = [tree |-> t, has |-> tree[From(s)][t]]
    BY <1>1, <1>4
  <2>2. new.got.tree = t /\ new.got.has = tree[From(s)][t]
    BY <2>1
  <2>3. CASE new.pc = "uploading"
    <3>1. From(s) = ScriptOn[s] /\ To(s) = Server
      BY <1>1, <2>3 DEF From, To
    <3>2. tree[ScriptOn[s]][t] # 0
      BY <1>1, <2>3 DEF CopyInv, Listed
    <3>3. Owner[t] \notin overlapped => ScriptOn[s] = Owner[t]
      BY <2>1, <3>1, <3>2, OnMachine DEF CopyInv, PeersAgree
    <3> QED
      BY <2>1, <2>2, <2>3, <3>1, <3>2, <3>3
  <2>4. CASE new.pc = "downloading"
    <3>1. From(s) = Server
      BY <1>1, <2>4 DEF From
    <3>2. tree[Server][t] # 0
      BY <1>1, <2>4 DEF CopyInv, Listed
    <3> QED
      BY <2>2, <2>4, <3>1, <3>2
  <2> QED
    BY <1>1, <2>3, <2>4 DEF Copying
<1> QED
  BY <1>1, <1>2, <1>3, <1>4, CopyQuiet

\* What a rename may do to the trees: to the server it brings a tree that
\* nobody but its owner has, from the server what the server has.
LEMMA CopyRename ==
  ASSUME TypeOK, CopyInv, NEW s \in Scripts, copy_rename(s)
  PROVE  CopyInv'
<1>1. PICK new :
        /\ PastInit(s, new)
        /\ tree' = [tree EXCEPT ![To(s)][script[s].got.tree] = script[s].got.has]
        /\ Copying(s) /\ new.pc = script[s].pc
        /\ script[s].got # Nil /\ script[s].got \in [tree : Trees, has : Nat]
        /\ new.got = Nil /\ new.list = script[s].list
  BY RenameRecord
<1>2. /\ script'[s] = new /\ \A r \in Scripts : r # s => script'[r] = script[r]
      /\ overlapped \subseteq overlapped'
      /\ \A r \in Scripts :
           /\ r # s /\ ScriptOn[r] = ScriptOn[s]
           /\ new.pc \in {"uploading", "downloading"} /\ Copying(r)
           => ScriptOn[s] \in overlapped'
  BY <1>1, StepFields DEF PastInit
<1> DEFINE u == script[s].got.tree
           has == script[s].got.has
<1>3. u \in Trees /\ has \in Nat /\ has # 0 /\ To(s) \in Places
  BY <1>1, OnMachine DEF CopyInv, Holding, To, Places
<1>4. \A p \in Places, t \in Trees :
        tree'[p][t] = IF p = To(s) /\ t = u THEN has ELSE tree[p][t]
  BY <1>1, <1>3 DEF TypeOK
<1>5. \A p \in Places, t \in Trees : tree[p][t] # 0 => tree'[p][t] # 0
  BY <1>3, <1>4
<1> HIDE DEF u, has
<1>6. Server \in Places /\ \A r \in Scripts : ScriptOn[r] \in Places
  BY OnMachine DEF Places
<1>7. Listed'
  BY <1>1, <1>2, <1>5, <1>6 DEF CopyInv, Listed
<1>8. Holding'
  BY <1>1, <1>2 DEF CopyInv, Holding, Copying
<1>9. CopiesAlone'
  BY <1>1, <1>2 DEF CopyInv, CopiesAlone, Copying
<1>10. /\ script[s].pc = "uploading" => To(s) = Server
       /\ script[s].pc # "uploading" => To(s) = ScriptOn[s]
  BY <1>1 DEF To, Copying
<1>11. Owner[u] \notin overlapped =>
         IF script[s].pc = "uploading"
         THEN ScriptOn[s] = Owner[u] /\ tree[Server][u] = 0
         ELSE has = tree[Server][u]
  BY <1>1 DEF CopyInv, InFlight, u, has
<1>12. InFlight'
  <2> SUFFICES ASSUME NEW r \in Scripts, script'[r].got # Nil,
                      Owner[script'[r].got.tree] \notin overlapped'
               PROVE  IF script'[r].pc = "uploading"
                      THEN /\ ScriptOn[r] = Owner[script'[r].got.tree]
                           /\ tree'[Server][script'[r].got.tree] = 0
                      ELSE script'[r].got.has = tree'[Server][script'[r].got.tree]
    BY DEF InFlight
  <2> DEFINE t == script[r].got.tree
  <2>1. r # s /\ script'[r] = script[r]
    BY <1>1, <1>2
  <2>2. /\ Copying(r) /\ script[r].got.has # 0 /\ t \in Trees /\ Owner[t] \notin overlapped
        /\ IF script[r].pc = "uploading"
           THEN ScriptOn[r] = Owner[t] /\ tree[Server][t] = 0
           ELSE script[r].got.has = tree[Server][t]
    BY <1>2, <2>1 DEF CopyInv, Holding, InFlight, TypeOK, ScriptType
  <2> HIDE DEF t
  <2>3. ASSUME script[s].pc = "uploading", t = u
        PROVE  FALSE
    <3>1. ScriptOn[s] = Owner[t] /\ tree[Server][t] = 0
      BY <1>11, <2>2, <2>3
    <3>2. ScriptOn[r] = Owner[t]
      BY <2>2, <3>1
    <3> QED
      BY <1>1, <2>1, <2>2, <3>1, <3>2 DEF CopyInv, CopiesAlone
  <2>4. tree'[Server][t] = tree[Server][t]
    BY <1>4, <1>6, <1>10, <2>2, <2>3, OnMachine
  <2> QED
    BY <2>1, <2>2, <2>4 DEF t
<1>13. PeersAgree'
  <2> SUFFICES ASSUME NEW t \in Trees, NEW m \in Machines, m # Owner[t],
                      Owner[t] \notin overlapped', tree'[m][t] # 0
               PROVE  tree'[m][t] = tree'[Server][t]
    BY DEF PeersAgree
  <2>1. Owner[t] \notin overlapped /\ m \in Places /\ m # Server
    BY <1>2, SyncAssumption DEF Places
  <2>2. tree[m][t] # 0 => tree[m][t] = tree[Server][t]
    BY <2>1 DEF CopyInv, PeersAgree
  <2>3. CASE t # u
    BY <1>4, <1>6, <2>1, <2>2, <2>3
  <2>4. CASE t = u /\ script[s].pc = "uploading"
    BY <1>4, <1>6, <1>10, <1>11, <2>1, <2>2, <2>4
  <2>5. CASE t = u /\ script[s].pc # "uploading"
    BY <1>4, <1>6, <1>10, <1>11, <2>1, <2>2, <2>5, OnMachine
  <2> QED
    BY <2>3, <2>4, <2>5
<1> QED
  BY <1>7, <1>8, <1>9, <1>12, <1>13 DEF CopyInv

\* The step of a flush is seen by its owner alone.
LEMMA CopyFlush ==
  ASSUME TypeOK, CopyInv, NEW t \in Trees, flush_step(t)
  PROVE  CopyInv'
<1>1. /\ UNCHANGED <<script, overlapped>>
      /\ \A p \in Places, u \in Trees : p # Owner[t] \/ u # t => tree'[p][u] = tree[p][u]
      /\ tree'[Owner[t]][t] # 0
  BY OwnerMachine DEF flush_step, TypeOK
<1>2. Server \in Places /\ \A u \in Trees : tree'[Server][u] = tree[Server][u]
  BY <1>1, OwnerMachine DEF Places
<1>3. Listed'
  BY <1>1, <1>2, OnMachine DEF CopyInv, Listed
<1>4. Holding' /\ CopiesAlone'
  BY <1>1 DEF CopyInv, Holding, CopiesAlone, Copying
<1>5. InFlight'
  BY <1>1, <1>2 DEF CopyInv, InFlight, TypeOK, ScriptType
<1>6. PeersAgree'
  BY <1>1, <1>2 DEF CopyInv, PeersAgree, Places
<1> QED
  BY <1>3, <1>4, <1>5, <1>6 DEF CopyInv

\* Every step keeps what is said of the copies in flight.
LEMMA CopyNext == TypeOK /\ CopyInv /\ [Next]_vars => CopyInv'
<1> SUFFICES ASSUME TypeOK, CopyInv, [Next]_vars PROVE CopyInv'
  OBVIOUS
<1>1. ASSUME NEW s \in Scripts, init_check(s)
      PROVE  CopyInv'
  BY <1>1, CheckRecord, CopyQuiet DEF init_check
<1>2. ASSUME NEW s \in Scripts, init_write(s)
      PROVE  CopyInv'
  <2>1. PICK new \in ScriptType :
           /\ Step(s, new) /\ UNCHANGED <<tree, faults>>
           /\ Initialising(s) /\ new.pc = "upload" /\ new.got = script[s].got
    BY <1>2, WriteRecord
  <2>2. new.got = Nil
    BY <2>1 DEF CopyInv, Holding, Initialising, Copying
  <2> QED
    BY <2>1, <2>2, CopyQuiet
<1>3. ASSUME NEW s \in Scripts, rsync_begin(s)
      PROVE  CopyInv'
  <2>1. PICK new :
           /\ PastInit(s, new) /\ UNCHANGED tree
           /\ new.got = script[s].got
           /\ script[s].pc \in {"upload", "download"}
           /\ \/ new.pc = "uploading" /\ new.list = {t \in Trees : tree[ScriptOn[s]][t] # 0}
              \/ new.pc = "downloading" /\ new.list = {t \in Trees : tree[Server][t] # 0}
    BY <1>3, BeginRecord
  <2>2. new.got = Nil
    BY <2>1 DEF CopyInv, Holding, Copying
  <2> QED
    BY <2>1, <2>2, CopyQuiet DEF PastInit
<1>4. ASSUME NEW s \in Scripts,
             rsync_end(s) \/ rsync_fail(s) \/ (kill_script(s) /\ Step(s, Ended))
      PROVE  CopyInv'
  <2>1. PICK new : /\ PastInit(s, new) /\ UNCHANGED tree
                   /\ new.got = Nil /\ new.pc \notin {"uploading", "downloading"}
    BY <1>4, EndRecord
  <2> QED
    BY <2>1, CopyQuiet DEF PastInit
<1>5. ASSUME NEW s \in Scripts, kill_script(s), ~Step(s, Ended)
      PROVE  CopyInv'
  <2>1. PICK new : /\ PastInit(s, new) /\ UNCHANGED tree
                   /\ Copying(s) /\ new.pc = script[s].pc
                   /\ new.list = script[s].list /\ new.got = script[s].got
    BY <1>5, OrphanRecord
  <2>2. Step(s, new) /\ new \in ScriptType
    BY <2>1 DEF PastInit
  <2>3. \A t \in new.list :
          /\ new.pc = "uploading" => tree[ScriptOn[s]][t] # 0
          /\ new.pc = "downloading" => tree[Server][t] # 0
    BY <2>1, <2>2 DEF CopyInv, Listed, ScriptType
  <2>4. new.got # Nil =>
           /\ new.pc \in {"uploading", "downloading"}
           /\ new.got.has # 0
           /\ Owner[new.got.tree] \notin overlapped =>
                IF new.pc = "uploading"
                THEN ScriptOn[s] = Owner[new.got.tree] /\ tree[Server][new.got.tree] = 0
                ELSE new.got.has = tree[Server][new.got.tree]
    BY <2>1 DEF CopyInv, Holding, InFlight, Copying
  <2> QED
    BY <2>1, <2>2, <2>3, <2>4, CopyQuiet
<1>6. CASE UNCHANGED vars
  BY <1>6
  DEF vars, CopyInv, Listed, Holding, CopiesAlone, InFlight, PeersAgree, Copying
<1> QED
  BY <1>1, <1>2, <1>3, <1>4, <1>5, <1>6, NextCases, CopyFlush, CopyRead, CopyRename

\* All machines but its owner have the server's version of a tree, on
\* whatever side, in whatever order and however often rsync is started,
\* broken off or killed, if the owner's own rsyncs never overlap (sync.py, sync).
THEOREM PeersStayAgreed == Spec => []PeersAgree
<1>1. Init => TypeOK /\ CopyInv
  BY TypeInit, CopyInit
<1>2. TypeOK /\ CopyInv /\ [Next]_vars => (TypeOK /\ CopyInv)'
  BY TypeNext, CopyNext
<1>3. CopyInv => PeersAgree
  BY DEF CopyInv
<1> QED
  BY <1>1, <1>2, <1>3, PTL DEF Spec
=============================================================================
