-------------------------------- MODULE Sync --------------------------------
(***************************************************************************)
(* Machines that exchange TREE files through a server: flushes that write  *)
(* the files (block_cache.cpp), and the script that copies them with rsync *)
(* (sync.py), with its pid file, its rounds and its recursion.             *)
(*                                                                         *)
(* rsync is external.  With --ignore-existing it skips a file that the     *)
(* receiver has; otherwise it reads the file, into a temporary one that    *)
(* is then renamed.  The list of files is made at the start.  Nothing in   *)
(* the repository writes a line to the log of removed files, so the loop   *)
(* over its lines makes no turn.                                           *)
(***************************************************************************)
EXTENDS Integers, FiniteSets

CONSTANTS
  Machines,
  Server,    \* the machine all the others synchronise with
  Trees,     \* TREE files; their names are random and never met twice
  Owner,     \* the machine that makes each tree
  Flush,     \* bound on the steps in which a flush writes a tree
  Scripts,   \* processes of the script, by pid
  ScriptOn,  \* the machine of every script
  Rounds,    \* calls of sync within each other up to Python's limit
  MaxFaults, \* bound on killed scripts and broken connections
  Nil        \* absent

ASSUME SyncAssumption ==
  /\ Owner \in [Trees -> Machines] /\ ScriptOn \in [Scripts -> Machines]
  /\ Server \notin Machines
  /\ Flush \in Nat /\ Rounds \in Nat \ {0} /\ MaxFaults \in Nat /\ Nil \notin Scripts \cup Trees

VARIABLES
  tree,      \* how many of the steps of its flush each place has of each tree
  pid_file,  \* the pid in the pid file of each machine, or Nil
  script,    \* where each script is, whether python still runs, and its rsync
  faults,    \* how many more faults may happen
  raced,     \* history: machines on which two scripts were in init at once
  overlapped \* history: machines on which two rsyncs ran at once

vars == <<tree, pid_file, script, faults, raced, overlapped>>

Places == Machines \cup {Server}

Off == [pc |-> "off", alive |-> FALSE, round |-> 0, list |-> {}, got |-> Nil]

\* Bound: no pid is given to a second process.
Ended == [Off EXCEPT !.pc = "ended"]

On(m) == {s \in Scripts : ScriptOn[s] = m}

Initialising(s) == script[s].pc = "init"

Copying(s) == script[s].pc \in {"uploading", "downloading"}

\* A step of script s to state new.
Step(s, new) ==
  /\ script' = [script EXCEPT ![s] = new]
  /\ LET m == ScriptOn[s]
     IN  /\ raced' = IF \E r \in On(m) \ {s} : Initialising(s)' /\ Initialising(r)
                       THEN raced \cup {m} ELSE raced
         /\ overlapped' = IF \E r \in On(m) \ {s} : Copying(s)' /\ Copying(r)
                            THEN overlapped \cup {m} ELSE overlapped

Init ==
  /\ tree = [p \in Places |-> [t \in Trees |-> 0]]
  /\ pid_file = [m \in Machines |-> Nil]
  /\ script = [s \in Scripts |-> Off]
  /\ faults = MaxFaults
  /\ raced = {} /\ overlapped = {}
-----------------------------------------------------------------------------
(* The mounts.                                                             *)

\* flush_to_disk creates the TREE file and writes it step by step, all of
\* them, or some, if the mount is killed.
flush_step(t) ==
  /\ tree[Owner[t]][t] < Flush
  /\ tree' = [tree EXCEPT ![Owner[t]][t] = @ + 1]
  /\ UNCHANGED <<pid_file, script, faults, raced, overlapped>>
-----------------------------------------------------------------------------
(* The script: init.                                                       *)

running(s) == script[s].alive

\* Mutant: a pid file counts for nothing.
NeverExcluded(s) == FALSE

\* The pid in the pid file is that of a running process.
Excluded(s) ==
  LET pid == pid_file[ScriptOn[s]]
  IN  IF pid = Nil THEN FALSE ELSE running(pid)

\* The check of the pid file.  A script that is excluded exits.
init_check(s) ==
  /\ script[s] = Off /\ ~Excluded(s)
  /\ Step(s, [Off EXCEPT !.pc = "init", !.alive = TRUE])
  /\ UNCHANGED <<tree, pid_file, faults>>

\* The pid file is made again, with the pid of this script.
init_write(s) ==
  /\ script[s].pc = "init"
  /\ pid_file' = [pid_file EXCEPT ![ScriptOn[s]] = s]
  /\ Step(s, [script[s] EXCEPT !.pc = "upload", !.round = 1])
  /\ UNCHANGED <<tree, faults>>
-----------------------------------------------------------------------------
(* The script: sync.                                                       *)

From(s) == IF script[s].pc \in {"upload", "uploading"} THEN ScriptOn[s] ELSE Server

To(s) == IF script[s].pc \in {"upload", "uploading"} THEN Server ELSE ScriptOn[s]

\* rsync starts: the list of what the sender has.
rsync_begin(s) ==
  /\ script[s].pc \in {"upload", "download"}
  /\ Step(s, [script[s] EXCEPT !.pc = IF @ = "upload" THEN "uploading" ELSE "downloading",
                               !.list = {t \in Trees : tree[From(s)][t] # 0}])
  /\ UNCHANGED <<tree, pid_file, faults>>

\* Mutant: no --ignore-existing.
copy_always(s, t) ==
  /\ Copying(s) /\ script[s].got = Nil /\ t \in script[s].list
  /\ Step(s, [script[s] EXCEPT !.list = @ \ {t}, !.got = [tree |-> t, has |-> tree[From(s)][t]]])
  /\ UNCHANGED <<tree, pid_file, faults>>

\* A file of the list: skipped if the receiver has it, else read.
copy_read(s, t) ==
  /\ Copying(s) /\ script[s].got = Nil /\ t \in script[s].list
  /\ Step(s, [script[s] EXCEPT !.list = @ \ {t},
                               !.got = IF tree[To(s)][t] # 0 THEN Nil
                                       ELSE [tree |-> t, has |-> tree[From(s)][t]]])
  /\ UNCHANGED <<tree, pid_file, faults>>

\* The temporary file gets its name.
copy_rename(s) ==
  /\ Copying(s) /\ script[s].got # Nil
  /\ tree' = [tree EXCEPT ![To(s)][script[s].got.tree] = script[s].got.has]
  /\ Step(s, [script[s] EXCEPT !.got = Nil])
  /\ UNCHANGED <<pid_file, faults>>

\* Mutant: sync does not call itself.
SyncOnce(s) ==
  IF ~running(s) \/ script[s].pc = "downloading" THEN Ended
  ELSE [script[s] EXCEPT !.pc = "download", !.list = {}, !.got = Nil]

\* After rsync, whatever its status: the download follows the upload, and the
\* next call of sync the download, until Python's limit ends the script.  The
\* sleep is the time before the next step.  The rsync of a script
\* that was killed is the last thing it leaves behind.
AfterCopy(s) ==
  IF ~running(s) \/ (script[s].pc = "downloading" /\ script[s].round = Rounds) THEN Ended
  ELSE IF script[s].pc = "uploading"
    THEN [script[s] EXCEPT !.pc = "download", !.list = {}, !.got = Nil]
    ELSE [script[s] EXCEPT !.pc = "upload", !.list = {}, !.got = Nil, !.round = @ + 1]

rsync_end(s) ==
  /\ Copying(s) /\ script[s].got = Nil /\ script[s].list = {}
  /\ Step(s, AfterCopy(s))
  /\ UNCHANGED <<tree, pid_file, faults>>

\* The connection breaks: the rest of the list is not copied.
rsync_fail(s) ==
  /\ faults > 0 /\ Copying(s)
  /\ faults' = faults - 1
  /\ Step(s, AfterCopy(s))
  /\ UNCHANGED <<tree, pid_file>>

\* A signal ends python, SIGUSR1 too: the handler is never installed.  A
\* running rsync ends with it or is left behind.
kill_script(s) ==
  /\ faults > 0 /\ running(s)
  /\ faults' = faults - 1
  /\ \/ Step(s, Ended)
     \/ Copying(s) /\ Step(s, [script[s] EXCEPT !.alive = FALSE])
  /\ UNCHANGED <<tree, pid_file>>
-----------------------------------------------------------------------------
(* What a script does by itself once it has been started.                  *)
ScriptStep(s) ==
  \/ init_write(s) \/ rsync_begin(s)
  \/ \E t \in Trees : copy_read(s, t)
  \/ copy_rename(s) \/ rsync_end(s)

Next ==
  \/ \E t \in Trees : flush_step(t)
  \/ \E s \in Scripts : init_check(s) \/ ScriptStep(s) \/ rsync_fail(s) \/ kill_script(s)

\* A script waits for nobody.
Fairness == \A s \in Scripts : WF_vars(ScriptStep(s))

Spec == Init /\ [][Next]_vars /\ Fairness
-----------------------------------------------------------------------------
\* Python runs on at most one script of a machine, unless two of them were in
\* init at the same time: the pid file keeps out a script that comes later,
\* over crashes, restarts and ends by the recursion limit (sync.py, init).
OneScript ==
  \A m \in Machines \ raced : Cardinality({s \in On(m) : running(s)}) <= 1

\* All machines but the one that made it have the same version of a tree,
\* that of the server, whole or cut off: they answer alike.  It takes
\* --ignore-existing on both ways, and on the machine that makes the tree
\* never two rsyncs at once.
PeersAgree ==
  \A t \in Trees, m \in Machines :
    m # Owner[t] /\ Owner[t] \notin overlapped /\ tree[m][t] # 0 =>
      tree[m][t] = tree[Server][t]

\* Script s will yet make a whole round of its own.
RoundLeft(s) == running(s) /\ (script[s].round < Rounds \/ script[s].pc = "upload")

\* Once nothing fails any more, a script with a round left brings what its
\* machine has to the server, and what the server has to its machine (sync).
Delivers ==
  \A s \in Scripts, t \in Trees :
    LET places == {ScriptOn[s], Server}
    IN  faults = 0 /\ RoundLeft(s) /\ (\E p \in places : tree[p][t] # 0)
          ~> \A p \in places : tree[p][t] # 0
=============================================================================
