----------------------------- MODULE PerfServer ------------------------------
(***************************************************************************)
(* The HTTP server of performance/main.go.  A POST to /test cancels the    *)
(* current test, waits for its exitCH, replaces it and starts runTests in  *)
(* a goroutine.  Handlers of different requests share s.currentTest with   *)
(* no lock, and runTests closes the exitCH of whatever s.currentTest is    *)
(* when it ends.                                                           *)
(***************************************************************************)
EXTENDS Naturals, FiniteSets

CONSTANTS TsRequests,   \* requests, each with a test of its own
          TsBadBody,    \* requests whose body is not JSON
          TsUnrunnable, \* requests for a scenario that runTests has no runner for, or
                        \* with an interval NewTicker panics on (zero or negative)
          TsBadRange    \* requests with an update_range rand.Int64N panics on

VARIABLES
  tsUp,        \* the server has been started
  tsReq,       \* where the handler of each request is
  tsOn,        \* the test a handler waits for
  tsCurrent,   \* s.currentTest: the request that made it, or TsNone
  tsCancelled, \* tests whose context is cancelled
  tsClosed,    \* tests whose exitCH is closed
  tsRunning,   \* requests whose runTests runs
  tsCrashed,   \* a panic outside a handler ended the process
  tsOverlap    \* history: two handlers ran at the same time

tsVars == <<tsUp, tsReq, tsOn, tsCurrent, tsCancelled, tsClosed, tsRunning, tsCrashed, tsOverlap>>

TsNone == "none"

ASSUME TsAssumption ==
  /\ TsBadBody \subseteq TsRequests /\ TsUnrunnable \subseteq TsRequests
  /\ TsBadRange \subseteq TsRequests /\ TsNone \notin TsRequests

TsBusy == {r \in TsRequests : tsReq[r] \in {"check", "cancel", "wait", "clear", "create", "decode"}}

TsInit(up) ==
  /\ tsUp \in up
  /\ tsReq = [r \in TsRequests |-> "unsent"] /\ tsOn = [r \in TsRequests |-> TsNone]
  /\ tsCurrent = TsNone /\ tsCancelled = {} /\ tsClosed = {} /\ tsRunning = {}
  /\ tsCrashed = FALSE /\ tsOverlap = FALSE

TsAt(r, from) == tsUp /\ ~tsCrashed /\ tsReq[r] = from
TsTo(r, to) == tsReq' = [tsReq EXCEPT ![r] = to]

TsPost(r) ==
  /\ TsAt(r, "unsent") /\ TsTo(r, "check")
  /\ tsOverlap' = (tsOverlap \/ TsBusy # {})
  /\ UNCHANGED <<tsUp, tsOn, tsCurrent, tsCancelled, tsClosed, tsRunning, tsCrashed>>

TsCheck(r) ==
  /\ TsAt(r, "check")
  /\ TsTo(r, IF tsCurrent = TsNone THEN "create" ELSE "cancel")
  /\ UNCHANGED <<tsUp, tsOn, tsCurrent, tsCancelled, tsClosed, tsRunning, tsCrashed, tsOverlap>>

\* A nil currentTest panics in the handler, which net/http recovers.
TsCancel(r) ==
  /\ TsAt(r, "cancel")
  /\ TsTo(r, IF tsCurrent = TsNone THEN "panicked" ELSE "wait")
  /\ tsOn' = [tsOn EXCEPT ![r] = tsCurrent]
  /\ tsCancelled' = tsCancelled \cup ({tsCurrent} \ {TsNone})
  /\ UNCHANGED <<tsUp, tsCurrent, tsClosed, tsRunning, tsCrashed, tsOverlap>>

\* Mutant: the handler does not wait for the test it has cancelled.
TsWaitNot(r) ==
  /\ TsAt(r, "wait") /\ TsTo(r, "clear")
  /\ UNCHANGED <<tsUp, tsOn, tsCurrent, tsCancelled, tsClosed, tsRunning, tsCrashed, tsOverlap>>

TsWait(r) ==
  /\ TsAt(r, "wait") /\ tsOn[r] \in tsClosed /\ TsTo(r, "clear")
  /\ UNCHANGED <<tsUp, tsOn, tsCurrent, tsCancelled, tsClosed, tsRunning, tsCrashed, tsOverlap>>

TsClear(r) ==
  /\ TsAt(r, "clear") /\ TsTo(r, "create") /\ tsCurrent' = TsNone
  /\ UNCHANGED <<tsUp, tsOn, tsCancelled, tsClosed, tsRunning, tsCrashed, tsOverlap>>

\* currentTest = NewCurrentTest(), before the body has been read.
TsCreate(r) ==
  /\ TsAt(r, "create") /\ TsTo(r, "decode") /\ tsCurrent' = r
  /\ UNCHANGED <<tsUp, tsOn, tsCancelled, tsClosed, tsRunning, tsCrashed, tsOverlap>>

\* The body, and go runTests; a body that cannot be parsed leaves a current test
\* that nothing will ever close.
TsDecode(r) ==
  /\ TsAt(r, "decode") /\ TsTo(r, "answered")
  /\ tsRunning' = IF r \in TsBadBody THEN tsRunning ELSE tsRunning \cup {r}
  /\ UNCHANGED <<tsUp, tsOn, tsCurrent, tsCancelled, tsClosed, tsCrashed, tsOverlap>>

\* Without a current test, or with one whose exitCH is closed, runTests panics.
TsNoneToClose == tsCurrent = TsNone \/ tsCurrent \in tsClosed

\* runTests returns, after its runners or because the current test is cancelled
\* before the next of them: it closes the current exitCH.
TsRunTests(r) ==
  /\ tsUp /\ ~tsCrashed /\ r \in tsRunning /\ ~TsNoneToClose
  /\ r \in TsUnrunnable => tsCurrent \in tsCancelled
  /\ tsRunning' = tsRunning \ {r} /\ tsClosed' = tsClosed \cup {tsCurrent}
  /\ UNCHANGED <<tsUp, tsReq, tsOn, tsCurrent, tsCancelled, tsCrashed, tsOverlap>>

\* A panic in runTests, or in a goroutine of the runner it has started, ends the
\* process: a nil StateRunner, a ticker or a random number without a range, or an
\* exitCH that cannot be closed.
TsPanic(r) ==
  /\ tsUp /\ ~tsCrashed /\ r \in tsRunning
  /\ r \in TsUnrunnable \cup TsBadRange \/ TsNoneToClose
  /\ tsCrashed' = TRUE
  /\ UNCHANGED <<tsUp, tsReq, tsOn, tsCurrent, tsCancelled, tsClosed, tsRunning, tsOverlap>>

TsHandle(r) == TsCheck(r) \/ TsCancel(r) \/ TsWait(r) \/ TsClear(r) \/ TsCreate(r) \/ TsDecode(r)
TsNext == \E r \in TsRequests : TsPost(r) \/ TsHandle(r) \/ TsRunTests(r) \/ TsPanic(r)

TsSpec == TsInit({TRUE}) /\ [][TsNext]_tsVars
-----------------------------------------------------------------------------
\* The process ends only when requests overlapped or one of those answered asked
\* for what no runner can do: waiting for exitCH keeps the close of one test away
\* from the next.  (testCaseHandler, runTests)
TsCrashNeedsOverlap ==
  tsCrashed => tsOverlap \/ \E r \in TsUnrunnable \cup TsBadRange : tsReq[r] = "answered"

=============================================================================
