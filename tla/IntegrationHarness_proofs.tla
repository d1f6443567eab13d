---------------------- MODULE IntegrationHarness_proofs ----------------------
(***************************************************************************)
(* The safety properties of IntegrationHarness, for every number of polls  *)
(* and of test files.                                                      *)
(***************************************************************************)
EXTENDS IntegrationHarness, TLAPS

BeforeSuite == {"boot_mock", "probe_mock", "read_mock", "dispatch", "boot_worker",
                "probe_worker", "read_worker"}
BeforeWorker == BeforeSuite \ {"probe_worker", "read_worker"}
Cleaning == {"cleanup", "wait_worker", "kill_mock", "wait_mock", "remove", "exited"}
WorkerWaited == {"kill_mock", "wait_mock", "remove", "exited"}

AllPassed == Len(results) = Tests /\ \A i \in 1 .. Tests : results[i] = "ok"

\* What the results, the exit status and the place of the script have to do
\* with each other.
StatusInv ==
  /\ pc \in BeforeSuite => results = <<>>
  /\ pc \in Cleaning => (rc = 0 <=> AllPassed)
  /\ pc = "exited" => status = rc

\* Once the worker has been waited for nothing can create a file any more.  A
\* port file is the one of this run, since no other has its name.
WorkerInv ==
  /\ pc \in BeforeWorker => worker = "absent"
  /\ pc \in WorkerWaited => worker \in {"absent", "gone"}
  /\ "port_file" \in files => worker # "absent" /\ transport = "http"
  /\ pc = "exited" => files \cap Named = {}

\* A server that is past its boot has announced itself, and no file that a
\* worker still in it has yet to write is there.
BootInv ==
  /\ mock = "serving" => url
  /\ pc \in {"dispatch", "boot_worker", "probe_worker", "read_worker"} => url
  /\ pc = "suite" => url
  /\ pc = "suite" /\ transport \in Booted => worker \in {"serving", "gone"}
  /\ worker = "booting" => Endpoint \notin files
  /\ pc \in {"probe_worker", "read_worker"} => worker # "absent"
  /\ pc \in {"boot_worker", "probe_worker", "read_worker"} => transport \in Booted

HarnessInv == TypeOK /\ StatusInv /\ WorkerInv /\ BootInv

\* Nothing is started at the beginning.
LEMMA HarnessInit == Init => HarnessInv
<1> SUFFICES ASSUME Init PROVE HarnessInv
  OBVIOUS
<1>1. results \in Seq(Outcomes)
  <2>1. <<>> \in Seq(Outcomes)
    OBVIOUS
  <2> QED BY <2>1 DEF Init
<1>2. url \in BOOLEAN /\ pc \in Labels /\ {mock, worker} \subseteq ProcessStates
  BY DEF Init, Labels, ProcessStates
<1>3. signalled \subseteq {"shell", "worker"} /\ files \subseteq {"stage", "log", "sock"}
  BY DEF Init, Leftovers
<1>4. TypeOK
  BY <1>1, <1>2, <1>3 DEF Init, TypeOK
<1>5. StatusInv /\ WorkerInv /\ BootInv
  BY <1>3 DEF Init, StatusInv, WorkerInv, BootInv, Cleaning, WorkerWaited
<1> QED BY <1>4, <1>5 DEF HarnessInv

\* Before the suite no test has passed, since there is at least one.
LEMMA NothingPassedYet == results = <<>> => ~ AllPassed
  BY HarnessAssumption DEF AllPassed

\* The three checks accept exactly a suite without failures and skips.
LEMMA GreenMeansPassed ==
  ASSUME TypeOK, Len(results) = Tests
  PROVE  Green <=> AllPassed
<1>1. Tests \in Nat \ {0} /\ results \in Seq(Outcomes)
  BY HarnessAssumption DEF TypeOK
<1>2. \A i \in 1 .. Tests : results[i] \in {"ok", "fail", "skip"}
  BY <1>1 DEF Outcomes
<1>3. CASE Green
  <2>1. \A i \in 1 .. Len(results) : results[i] # "fail" /\ results[i] # "skip"
    BY <1>3 DEF Green, RunnerFails, SaysAllPassed, Seen
  <2> QED BY <1>2, <1>3, <2>1 DEF AllPassed
<1>4. CASE AllPassed
  <2>1. 1 \in 1 .. Len(results)
    BY <1>1
  <2>2. results[1] = "ok"
    BY <1>1, <1>4 DEF AllPassed
  <2>3. \A i \in 1 .. Len(results) : results[i] = "ok"
    BY <1>4 DEF AllPassed
  <2>4. Seen("ok") /\ ~ Seen("fail") /\ ~ Seen("skip")
    BY <2>1, <2>2, <2>3 DEF Seen
  <2> QED BY <1>4, <2>4 DEF Green, RunnerFails, SaysSkipped, SaysAllPassed
<1> QED BY <1>3, <1>4

\* Up to the suite: no result yet, and no worker before it is started.
LEMMA BootStep ==
  ASSUME HarnessInv,
         \/ StartMock \/ ProbeMock \/ ReadMock \/ Dispatch
         \/ StartWorker \/ ProbeWorker \/ ReadWorker
  PROVE  HarnessInv'
<1> USE DEF HarnessInv, TypeOK, StatusInv, WorkerInv, BootInv, Booted, Named,
        Endpoint, Goto, Exit, mockVars, BeforeSuite, BeforeWorker, Cleaning, WorkerWaited, Labels, ProcessStates
<1>1. AllPassed' <=> AllPassed
  BY DEF AllPassed, StartMock, ProbeMock, ReadMock, Dispatch, StartWorker,
     ProbeWorker, ReadWorker
<1>2. results = <<>> => ~ AllPassed
  BY NothingPassedYet
<1>3. CASE StartMock
  BY <1>1, <1>2, <1>3 DEF StartMock
<1>4. CASE ProbeMock
  BY <1>1, <1>2, <1>4 DEF ProbeMock
<1>5. CASE ReadMock
  BY <1>1, <1>2, <1>5 DEF ReadMock, PollAgain
<1>6. CASE Dispatch
  BY <1>1, <1>2, <1>6 DEF Dispatch
<1>7. CASE StartWorker
  BY <1>1, <1>2, <1>7 DEF StartWorker
<1>8. CASE ProbeWorker
  BY <1>1, <1>2, <1>8 DEF ProbeWorker
<1>9. CASE ReadWorker
  BY <1>1, <1>2, <1>9 DEF ReadWorker, PollAgain
<1> QED BY <1>3, <1>4, <1>5, <1>6, <1>7, <1>8, <1>9

\* The suite and its verdict.
LEMMA SuiteStep ==
  ASSUME HarnessInv, RunTest \/ Report
  PROVE  HarnessInv'
<1> USE DEF HarnessInv, TypeOK, StatusInv, WorkerInv, BootInv, Booted, Named, Endpoint
<1>1. CASE RunTest
  <2>1. results' \in Seq(Outcomes) /\ pc' = "suite"
    BY <1>1 DEF RunTest, control
  <2> QED
    BY <1>1, <2>1 DEF RunTest, control, mockVars, BeforeSuite, BeforeWorker,
       Cleaning, WorkerWaited
<1>2. CASE Report
  <2>1. Green <=> AllPassed
    BY <1>2, GreenMeansPassed DEF Report
  <2>2. AllPassed' <=> AllPassed
    BY <1>2 DEF Report, AllPassed
  <2>3. pc' = "cleanup" /\ (rc' = 0 <=> AllPassed') /\ rc' \in 0 .. 2
    BY <1>2, <2>1, <2>2 DEF Report, Exit
  <2> QED
    BY <1>2, <2>3 DEF Report, mockVars, BeforeSuite, BeforeWorker, Cleaning,
       WorkerWaited, Labels
<1> QED BY <1>1, <1>2

\* cleanup() keeps the exit status, and waits before it removes.
LEMMA CleanupStep ==
  ASSUME HarnessInv, KillWorker \/ WaitWorker \/ KillMock \/ WaitMock \/ Remove
  PROVE  HarnessInv'
<1> USE DEF HarnessInv, TypeOK, StatusInv, WorkerInv, BootInv, Booted, Named,
        Endpoint, Then, mockVars,
        BeforeSuite, BeforeWorker, Cleaning, WorkerWaited, Labels
<1>1. AllPassed' <=> AllPassed
  BY DEF AllPassed, KillWorker, WaitWorker, KillMock, WaitMock, Remove
<1>2. CASE KillWorker
  BY <1>1, <1>2 DEF KillWorker
<1>3. CASE WaitWorker
  BY <1>1, <1>3 DEF WaitWorker
<1>4. CASE KillMock
  BY <1>1, <1>4 DEF KillMock
<1>5. CASE WaitMock
  BY <1>1, <1>5 DEF WaitMock
<1>6. CASE Remove
  BY <1>1, <1>6 DEF Remove
<1> QED BY <1>2, <1>3, <1>4, <1>5, <1>6

\* The processes beside the script, and stuttering.
LEMMA OthersStep ==
  ASSUME HarnessInv,
         \/ MockServes \/ MockExits \/ ShellEnds \/ WorkerServes \/ WorkerExits
         \/ UNCHANGED vars
  PROVE  HarnessInv'
<1> USE DEF HarnessInv, TypeOK, StatusInv, WorkerInv, BootInv, Booted, Named,
        Endpoint, Transports, others, control, mockVars, BeforeSuite, BeforeWorker,
        ProcessStates, WorkerWaited
<1>1. AllPassed' <=> AllPassed
  BY DEF AllPassed, MockServes, MockExits, ShellEnds, WorkerServes, WorkerExits, vars
<1>2. CASE MockServes
  BY <1>1, <1>2 DEF MockServes
<1>3. CASE MockExits
  BY <1>1, <1>3 DEF MockExits
<1>4. CASE ShellEnds
  BY <1>1, <1>4 DEF ShellEnds
<1>5. CASE WorkerServes
  BY <1>1, <1>5 DEF WorkerServes, Endpoint
<1>6. CASE WorkerExits
  BY <1>1, <1>6 DEF WorkerExits
<1>7. CASE UNCHANGED vars
  BY <1>1, <1>7 DEF vars
<1> QED BY <1>2, <1>3, <1>4, <1>5, <1>6, <1>7

\* The inductive invariant holds of every run.
THEOREM HarnessInvariant == Spec => []HarnessInv
<1>1. HarnessInv /\ [Next]_vars => HarnessInv'
  BY BootStep, SuiteStep, CleanupStep, OthersStep DEF Next, Script
<1> QED BY HarnessInit, <1>1, PTL DEF Spec

\* For every number of polls and of tests, the script exits 0 exactly when
\* every test file ran and passed.
THEOREM GreenIsTested == Spec => []GreenIffTested
<1>1. HarnessInv => GreenIffTested
  BY DEF HarnessInv, StatusInv, GreenIffTested, AllPassed, Cleaning
<1> QED BY <1>1, HarnessInvariant, PTL

\* When the script has ended, the worker is gone, and so is every file of the
\* run that cleanup() has a name for; the log of the worker and the staged
\* tests, which it has none for, stay.
THEOREM WorkerCleanedUp == Spec => []NothingLeft
<1>1. ASSUME HarnessInv, pc = "exited"
      PROVE  /\ worker \in {"absent", "gone"}
             /\ files \subseteq {"stage", "log", "sock"}
             /\ "sock" \in files => worker = "absent" \/ transport # "unix"
  <2>1. worker \in {"absent", "gone"} /\ files \cap Named = {}
    BY <1>1 DEF HarnessInv, WorkerInv, WorkerWaited
  <2>2. files \subseteq {"mock_out", "port_file", "sock", "log", "stage"}
    BY <1>1 DEF HarnessInv, TypeOK
  <2>3. "mock_out" \notin files
    BY <2>1 DEF Named
  <2>4. worker # "absent" => Endpoint \notin files
    BY <2>1 DEF Named
  <2>5. "port_file" \in files => worker # "absent" /\ transport = "http"
    BY <1>1 DEF HarnessInv, WorkerInv
  <2> QED BY <2>1, <2>2, <2>3, <2>4, <2>5 DEF Endpoint
<1>2. HarnessInv => NothingLeft
  BY <1>1 DEF NothingLeft
<1> QED BY <1>2, HarnessInvariant, PTL

\* The suite starts only when the mock server and the worker of this run have
\* come up, whatever sockets earlier runs have left.
THEOREM SuiteHasServers == Spec => []SuiteAfterBoot
<1>1. HarnessInv => SuiteAfterBoot
  BY DEF HarnessInv, BootInv, SuiteAfterBoot
<1> QED BY <1>1, HarnessInvariant, PTL
===============================================================================
