-------------------------- MODULE IntegrationHarness --------------------------
(***************************************************************************)
(* One run of ci/run-integration.sh: the script starts the mock provider   *)
(* server and, for two of the three transports, a worker, waits for each   *)
(* to announce itself, runs the SQL suite and cleans up in an EXIT trap.   *)
(* The processes it starts are concurrent with it and may be slow or exit  *)
(* at any time.                                                            *)
(*                                                                         *)
(* The mock server is started as `( cd ... && uv run ... > out ) &`, so    *)
(* $MOCK_PID is the subshell that waits for it; the worker is started with *)
(* `exec`, so $WORKER_PID is the worker.                                   *)
(***************************************************************************)
EXTENDS Integers, Sequences

CONSTANTS MockPolls,    \* polls for the server's URL       (the code: 100)
          WorkerPolls,  \* polls for port file or socket    (the code: 240)
          Tests         \* test files in the suite          (the code: 1)

ASSUME HarnessAssumption ==
  /\ MockPolls \in Nat \ {0}
  /\ WorkerPolls \in Nat \ {0}
  /\ Tests \in Nat \ {0}

Booted == {"http", "unix"}               \* the worker is started out of band
Transports == Booted \cup {"subprocess", "other"}
ProcessStates == {"absent", "booting", "serving", "gone"}
Outcomes == {"ok", "fail", "skip"}

VARIABLES
  transport,   \* $TRANSPORT; "other" is a value the script does not know
  pc,          \* where the script is
  polls,       \* the polls of the current loop so far
  rc,          \* the exit status at the entry of cleanup()
  status,      \* the exit status of the run
  mock,        \* the mock server
  shell,       \* the subshell it runs in: $MOCK_PID
  url,         \* the server has written its URL
  worker,      \* the worker booted out of band: $WORKER_PID
  signalled,   \* the processes that were sent SIGTERM
  files,       \* the files under $TMPDIR that exist
  results      \* outcome of each test file so far

control == <<pc, polls, rc>>
mockVars == <<mock, shell, url>>
vars == <<transport, control, status, mockVars, worker, signalled, files, results>>

\* What earlier runs may have left: the log of their worker, whose name is
\* fixed, and the socket of a script that was killed and had the same $$.
Leftovers == {"log", "sock"}

\* The tests are staged: the directory $STAGE is there.
Init ==
  /\ transport \in Transports
  /\ pc = "boot_mock"
  /\ polls = 0
  /\ rc = 0
  /\ status = 0
  /\ mock = "absent"
  /\ shell = "absent"
  /\ url = FALSE
  /\ worker = "absent"
  /\ signalled = {}
  /\ \E old \in SUBSET Leftovers : files = {"stage"} \cup old
  /\ results = <<>>

-----------------------------------------------------------------------------
(* The script.                                                             *)

Goto(label) == pc' = label /\ UNCHANGED rc

\* exit: the EXIT trap takes over.  1 stands for every status but 0 and 2.
Exit(code) == pc' = "cleanup" /\ rc' = code

StartMock ==
  /\ pc = "boot_mock"
  /\ files' = files \cup {"mock_out"}
  /\ mock' = "booting"
  /\ shell' = "alive"
  /\ Goto("probe_mock")
  /\ UNCHANGED <<transport, polls, status, url, worker, signalled, results>>

PollForever(probe, limit) ==             \* mutant: no bound
  Goto(probe) /\ UNCHANGED polls

\* Another round of a `for _ in $(seq 1 n)` loop, or the error after it.
PollAgain(probe, limit) ==
  IF polls + 1 < limit
  THEN Goto(probe) /\ polls' = polls + 1
  ELSE Exit(1) /\ UNCHANGED polls

\* kill -0 "$MOCK_PID"
ProbeMock ==
  /\ pc = "probe_mock"
  /\ IF shell = "gone" THEN Exit(1) ELSE Goto("read_mock")
  /\ UNCHANGED <<transport, polls, status, mockVars, worker, signalled, files, results>>

ReadMock ==
  /\ pc = "read_mock"
  /\ IF url THEN Goto("dispatch") /\ polls' = 0 ELSE PollAgain("probe_mock", MockPolls)
  /\ UNCHANGED <<transport, status, mockVars, worker, signalled, files, results>>

\* case "$TRANSPORT"
Dispatch ==
  /\ pc = "dispatch"
  /\ \/ transport = "subprocess" /\ Goto("suite")
     \/ transport \in Booted /\ Goto("boot_worker")
     \/ transport = "other" /\ Exit(2)
  /\ UNCHANGED <<transport, polls, status, mockVars, worker, signalled, files, results>>

StaleSocketKept ==                       \* mutant: no rm -f "$SOCK"
  /\ pc = "boot_worker"
  /\ files' = files \cup {"log"}
  /\ worker' = "booting"
  /\ Goto("probe_worker")
  /\ UNCHANGED <<transport, polls, status, mockVars, signalled, results>>

\* For a socket, an old one is removed first; the worker writes to $LOG_FILE.
StartWorker ==
  /\ pc = "boot_worker"
  /\ files' = (IF transport = "unix" THEN files \ {"sock"} ELSE files) \cup {"log"}
  /\ worker' = "booting"
  /\ Goto("probe_worker")
  /\ UNCHANGED <<transport, polls, status, mockVars, signalled, results>>

\* kill -0 "$WORKER_PID"
ProbeWorker ==
  /\ pc = "probe_worker"
  /\ IF worker = "gone" THEN Exit(1) ELSE Goto("read_worker")
  /\ UNCHANGED <<transport, polls, status, mockVars, worker, signalled, files, results>>

\* The file that appears when the worker accepts connections.
Endpoint == IF transport = "http" THEN "port_file" ELSE "sock"

ReadWorker ==
  /\ pc = "read_worker"
  /\ IF Endpoint \in files
     THEN Goto("suite") /\ polls' = 0
     ELSE PollAgain("probe_worker", WorkerPolls)
  /\ UNCHANGED <<transport, status, mockVars, worker, signalled, files, results>>

\* DuckDB reaches a worker (over stdio it spawns one itself) and the worker
\* reaches the mock server.
BackendsUp == mock = "serving" /\ (transport \in Booted => worker = "serving")

\* One test file.  It can pass only with the backends up; it may always fail,
\* or be skipped by the runner for an error that mentions HTTP.
RunTest ==
  /\ pc = "suite"
  /\ Len(results) < Tests
  /\ \E outcome \in Outcomes :
       /\ outcome = "ok" => BackendsUp
       /\ results' = Append(results, outcome)
  /\ UNCHANGED <<transport, control, status, mockVars, worker, signalled, files>>

\* What the runner reports: it exits non-zero only for a failed test, writes
\* "tests were skipped" when none ran, and counts the skipped ones before
\* the assertions of its summary when some did.
Seen(outcome) == \E i \in 1 .. Len(results) : results[i] = outcome
RunnerFails == Seen("fail")
SaysSkipped == ~ Seen("fail") /\ ~ Seen("ok")
SaysAllPassed == ~ Seen("fail") /\ ~ Seen("skip")

GreenUnlessSkipped ==                    \* mutant: summary line not required
  ~ RunnerFails /\ ~ SaysSkipped

\* The three checks after the suite.
Green == ~ RunnerFails /\ ~ SaysSkipped /\ SaysAllPassed

Report ==
  /\ pc = "suite"
  /\ Len(results) = Tests
  /\ IF Green THEN Exit(0) ELSE Exit(1)
  /\ UNCHANGED <<transport, polls, status, mockVars, worker, signalled, files, results>>

-----------------------------------------------------------------------------
(* cleanup(), the EXIT trap.                                               *)

\* Go on in cleanup(), whose exit status is that of its entry.
Then(label) == pc' = label /\ UNCHANGED <<transport, polls, rc, results>>

KillWorker ==
  /\ pc = "cleanup"
  /\ signalled' = IF worker = "absent" THEN signalled ELSE signalled \cup {"worker"}
  /\ Then("wait_worker")
  /\ UNCHANGED <<status, mockVars, worker, files>>

NotWaited ==                             \* mutant: kill without wait
  /\ pc = "wait_worker"
  /\ Then("kill_mock")
  /\ UNCHANGED <<status, mockVars, worker, signalled, files>>

\* wait returns when the process has ended.
WaitWorker ==
  /\ pc = "wait_worker"
  /\ worker \in {"absent", "gone"}
  /\ Then("kill_mock")
  /\ UNCHANGED <<status, mockVars, worker, signalled, files>>

KillMock ==
  /\ pc = "kill_mock"
  /\ signalled' = signalled \cup {"shell"}
  /\ Then("wait_mock")
  /\ UNCHANGED <<status, mockVars, worker, files>>

WaitMock ==
  /\ pc = "wait_mock"
  /\ shell = "gone"
  /\ Then("remove")
  /\ UNCHANGED <<status, mockVars, worker, signalled, files>>

\* The files cleanup() knows: $SOCK and $PORT_FILE are empty until a worker
\* is started that needs one.  $LOG_FILE and $STAGE are not among them.
Named == {"mock_out"} \cup (IF worker = "absent" THEN {} ELSE {Endpoint})

\* rm -f of each of them, and return "$rc".
Remove ==
  /\ pc = "remove"
  /\ files' = files \ Named
  /\ status' = rc
  /\ Then("exited")
  /\ UNCHANGED <<mockVars, worker, signalled>>

Script ==
  \/ StartMock \/ ProbeMock \/ ReadMock \/ Dispatch
  \/ StartWorker \/ ProbeWorker \/ ReadWorker
  \/ RunTest \/ Report
  \/ KillWorker \/ WaitWorker \/ KillMock \/ WaitMock \/ Remove

-----------------------------------------------------------------------------
(* The processes beside it.                                                *)

others == <<transport, control, status, signalled, results>>

\* main() of tests/mock_server.py: bind, print URL:<base>, block.
MockServes ==
  /\ mock = "booting"
  /\ mock' = "serving"
  /\ url' = TRUE
  /\ UNCHANGED <<others, shell, worker, files>>

MockExits ==
  /\ mock \in {"booting", "serving"}
  /\ mock' = "gone"
  /\ UNCHANGED <<others, shell, url, worker, files>>

\* The subshell ends with the server, or by SIGTERM without it.
ShellEnds ==
  /\ shell = "alive"
  /\ mock = "gone" \/ "shell" \in signalled
  /\ shell' = "gone"
  /\ UNCHANGED <<others, mock, url, worker, files>>

WorkerServes ==
  /\ worker = "booting"
  /\ worker' = "serving"
  /\ files' = files \cup {Endpoint}
  /\ UNCHANGED <<others, mockVars>>

WorkerExits ==
  /\ worker \in {"booting", "serving"}
  /\ worker' = "gone"
  /\ UNCHANGED <<others, mockVars, files>>

Next ==
  \/ Script
  \/ MockServes \/ MockExits \/ ShellEnds \/ WorkerServes \/ WorkerExits

Spec == Init /\ [][Next]_vars

\* The script goes on, a test ends, and SIGTERM ends a subshell or a worker;
\* no server need ever come up.
FairSpec ==
  /\ Spec
  /\ WF_vars(Script)
  /\ WF_vars(ShellEnds)
  /\ WF_vars("worker" \in signalled /\ WorkerExits)

-----------------------------------------------------------------------------
(* Properties.                                                             *)

Labels == {"boot_mock", "probe_mock", "read_mock", "dispatch", "boot_worker",
           "probe_worker", "read_worker", "suite", "cleanup", "wait_worker",
           "kill_mock", "wait_mock", "remove", "exited"}

\* Every variable has its type.
TypeOK ==
  /\ transport \in Transports
  /\ pc \in Labels
  /\ polls \in Nat
  /\ rc \in 0 .. 2
  /\ status \in 0 .. 2
  /\ mock \in ProcessStates
  /\ shell \in {"absent", "alive", "gone"}
  /\ url \in BOOLEAN
  /\ worker \in ProcessStates
  /\ signalled \subseteq {"shell", "worker"}
  /\ files \subseteq {"mock_out", "port_file", "sock", "log", "stage"}
  /\ results \in Seq(Outcomes)

\* The script exits 0 exactly when every test file ran and passed: neither a
\* runner that skips what it cannot reach, nor a server that dies during the
\* boot or the suite, nor the trap itself turns a run green or a pass red.
GreenIffTested ==
  pc = "exited" =>
    (status = 0 <=> Len(results) = Tests /\ \A i \in 1 .. Tests : results[i] = "ok")

\* When the script has ended the worker has, too, and neither the output file
\* of the mock server nor the worker's port file or socket is left, not even
\* one that a worker still booting at the time of the kill writes late.  The
\* staged tests and the log of the worker stay, and so does an old socket that
\* this run had no use for.
NothingLeft ==
  pc = "exited" =>
    /\ worker \in {"absent", "gone"}
    /\ files \subseteq {"stage", "log", "sock"}
    /\ "sock" \in files => worker = "absent" \/ transport # "unix"

\* The suite starts only after each server has announced itself: what the
\* script takes for the announcement of this worker is no file of another.
SuiteAfterBoot ==
  pc = "suite" => url /\ (transport \in Booted => worker \in {"serving", "gone"})

\* Every run ends, whether or not the servers ever come up.
HarnessEnds == <>(pc = "exited")

\* run-integration.sh:87 says of the mock server that it is "Killed by
\* cleanup() on exit", so it is gone when the script has ended.
MockStopped == pc = "exited" => mock = "gone"
===============================================================================
