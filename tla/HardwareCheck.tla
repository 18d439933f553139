---------------------------- MODULE HardwareCheck ----------------------------
(***************************************************************************)
(* The benchmark of the local provider and the reachability of its sidecars *)
(* (hwcheck): one benchmark at a time feeds the bundled clip to the         *)
(* recognizer and translates its finals, keeps the result and writes it to  *)
(* a file; checks of the runtimes are shared for a while.                   *)
(***************************************************************************)
EXTENDS Integers, FiniteSets

CONSTANTS
  BenchCalls,     \* POST /api/system/benchmark
  RuntimeCalls,   \* requests that need the runtimes
  ClipFrames,     \* frames of the clip
  RuntimesTTL,    \* runtimesTTL
  ProbeTime,      \* runtimeTimeout, and what else a check takes
  MaxBenchmarks,  \* bound: requests
  MaxCheckTime    \* bound: the clock of the checks

ASSUME HardwareAssumption ==
  {ClipFrames, RuntimesTTL, ProbeTime, MaxBenchmarks, MaxCheckTime} \subseteq Nat

VARIABLES
  benchLock,   \* who holds Checker.bench
  benchAt,     \* call -> where it is in Benchmark
  clip,        \* call -> its ASR stream and the goroutine that feeds it
  measured,    \* call -> finals translated so far
  lastBench,   \* Checker.last
  benchFile,   \* benchmark.json
  unsaved,     \* the last write of it failed
  benchmarks,  \* requests so far; a result is named after its request
  checks,      \* call -> a check of the runtimes under way
  runtimes,    \* Checker.runtimes and checkedAt
  reported,    \* what the last call was answered
  checkTime

benchVars == <<benchLock, benchAt, clip, measured, lastBench, benchFile, unsaved, benchmarks>>
runtimeVars == <<checks, runtimes, reported, checkTime>>
hardwareVars == <<benchVars, runtimeVars>>

NoBench == 0    \* no result, no file
TornBench == -1 \* a file that does not parse
NoClip == [run |-> 0, open |-> FALSE, feeder |-> FALSE, fed |-> FALSE, left |-> 0, finals |-> 0,
           failed |-> FALSE, cancelled |-> FALSE]
Never == [seen |-> -1, at |-> -1]

HardwareInit ==
  /\ benchLock = {} /\ benchAt = [c \in BenchCalls |-> "idle"]
  /\ clip = [c \in BenchCalls |-> NoClip] /\ measured = [c \in BenchCalls |-> 0]
  /\ lastBench = NoBench /\ benchFile = NoBench /\ unsaved = FALSE /\ benchmarks = 0
  /\ checks = [c \in RuntimeCalls |-> Never]
  /\ runtimes = Never /\ reported = Never /\ checkTime = 0

Go(c, at) == benchAt' = [benchAt EXCEPT ![c] = at]
KeepResult == UNCHANGED <<lastBench, benchFile, unsaved>>

-----------------------------------------------------------------------------
(* Benchmark *)

\* Mutant: the second request waits for nobody.
CanBenchAlways == TRUE
\* Benchmark.TryLock
CanBench == benchLock = {}

\* Benchmark: ErrBusy while another goes; else the clip and the settings.
Bench(c) ==
  /\ benchAt[c] = "idle" /\ ~clip[c].open /\ ~clip[c].feeder
  /\ benchmarks < MaxBenchmarks /\ benchmarks' = benchmarks + 1
  /\ IF CanBench
     THEN /\ benchLock' = benchLock \cup {c} /\ Go(c, "start")
          /\ clip' = [clip EXCEPT ![c] = [NoClip EXCEPT !.run = benchmarks']]
          /\ measured' = [measured EXCEPT ![c] = 0]
     ELSE UNCHANGED <<benchLock, benchAt, clip, measured>>
  /\ KeepResult

\* benchmark returns, with its deferred cancel, and Benchmark unlocks.
BenchReturns(c) ==
  /\ Go(c, "idle") /\ benchLock' = benchLock \ {c}
  /\ clip' = [clip EXCEPT ![c].cancelled = TRUE]

\* asr.Start, which probes whisper-server.
StartAsr(c, fails) ==
  /\ benchAt[c] = "start"
  /\ IF fails THEN BenchReturns(c)
     ELSE /\ clip' = [clip EXCEPT ![c].open = TRUE]
          /\ Go(c, "warm") /\ UNCHANGED benchLock
  /\ UNCHANGED <<measured, benchmarks>> /\ KeepResult

\* Mutant: the provider is left to stop by itself.
WarmFailsUndrained(c) == BenchReturns(c)
\* The output is drained until the provider stops; nobody feeds the input.
WarmFails(c) ==
  /\ Go(c, "drain") /\ UNCHANGED benchLock
  /\ clip' = [clip EXCEPT ![c].cancelled = TRUE]

\* Warm loads Gemma; then a goroutine feeds the clip.
WarmGemma(c, fails) ==
  /\ benchAt[c] = "warm"
  /\ IF fails \/ clip[c].cancelled THEN WarmFails(c)
     ELSE Go(c, "hear") /\ clip' = [clip EXCEPT ![c].feeder = TRUE, ![c].left = ClipFrames] /\ UNCHANGED benchLock
  /\ UNCHANGED <<measured, benchmarks>> /\ KeepResult

\* benchmarkTimeout, or the request is gone.
BenchTimeout(c) ==
  /\ benchAt[c] \in {"warm", "hear", "translate"} /\ ~clip[c].cancelled
  /\ clip' = [clip EXCEPT ![c].cancelled = TRUE]
  /\ UNCHANGED <<benchLock, benchAt, measured, benchmarks>> /\ KeepResult

\* The feeding goroutine: a frame, or the end by its deferred close.
Feed(c) ==
  /\ clip[c].feeder
  /\ \/ clip[c].left > 0 /\ clip' = [clip EXCEPT ![c].left = @ - 1]
     \/ (clip[c].left = 0 \/ clip[c].cancelled) /\ clip' = [clip EXCEPT ![c].feeder = FALSE, ![c].fed = TRUE]
  /\ UNCHANGED <<benchLock, benchAt, measured, benchmarks>> /\ KeepResult

\* An event of the provider: a final with text, or an error.
AsrEvent(c, err) ==
  /\ benchAt[c] = "hear" /\ clip[c].open
  /\ IF err THEN clip' = [clip EXCEPT ![c].failed = TRUE]
     ELSE clip[c].finals < ClipFrames - clip[c].left /\ clip' = [clip EXCEPT ![c].finals = @ + 1]
  /\ UNCHANGED <<benchLock, benchAt, measured, benchmarks>> /\ KeepResult

\* The provider closes its output after its input, a cancel or its failure.
AsrEnds(c) ==
  /\ clip[c].open /\ (clip[c].fed \/ clip[c].cancelled \/ clip[c].failed)
  /\ clip' = [clip EXCEPT ![c].open = FALSE]
  /\ UNCHANGED <<benchLock, benchAt, measured, benchmarks>> /\ KeepResult

\* The loop over the output ends: it is closed.
Heard(c) ==
  /\ benchAt[c] \in {"hear", "drain"} /\ ~clip[c].open
  /\ IF benchAt[c] = "drain" \/ clip[c].cancelled \/ clip[c].failed \/ clip[c].finals = 0
     THEN BenchReturns(c) ELSE Go(c, "translate") /\ UNCHANGED <<benchLock, clip>>
  /\ UNCHANGED <<measured, benchmarks>> /\ KeepResult

\* One final after the other.
TranslateFinal(c, fails) ==
  /\ benchAt[c] = "translate"
  /\ IF fails \/ clip[c].cancelled THEN BenchReturns(c) /\ UNCHANGED measured
     ELSE /\ measured' = [measured EXCEPT ![c] = @ + 1]
          /\ Go(c, IF measured'[c] = clip[c].finals THEN "keep" ELSE "translate")
          /\ UNCHANGED <<benchLock, clip>>
  /\ UNCHANGED benchmarks /\ KeepResult

KeepLast(c) ==
  /\ benchAt[c] = "keep" /\ Go(c, "truncate")
  /\ lastBench' = clip[c].run
  /\ UNCHANGED <<benchLock, clip, measured, benchFile, unsaved, benchmarks>>

\* saveBenchmark: os.WriteFile empties the file, then writes it.
OpenFile(c, fails) ==
  /\ benchAt[c] = "truncate" /\ unsaved' = fails
  /\ IF fails THEN BenchReturns(c) /\ UNCHANGED benchFile
     ELSE benchFile' = TornBench /\ Go(c, "write") /\ UNCHANGED <<benchLock, clip>>
  /\ UNCHANGED <<measured, lastBench, benchmarks>>

WriteFile(c, fails) ==
  /\ benchAt[c] = "write" /\ unsaved' = fails
  /\ benchFile' = IF fails THEN TornBench ELSE clip[c].run
  /\ BenchReturns(c)
  /\ UNCHANGED <<measured, lastBench, benchmarks>>

\* The server stops anywhere; New loads the file.
Reload == lastBench' = IF benchFile = TornBench THEN NoBench ELSE benchFile
BenchRestart ==
  /\ benchLock' = {} /\ benchAt' = [c \in BenchCalls |-> "idle"]
  /\ clip' = [c \in BenchCalls |-> NoClip] /\ unsaved' = FALSE
  /\ Reload /\ UNCHANGED <<measured, benchFile, benchmarks>>

BenchNext ==
  /\ \/ \E c \in BenchCalls :
          \/ Bench(c) \/ BenchTimeout(c) \/ Feed(c) \/ AsrEnds(c) \/ Heard(c) \/ KeepLast(c)
          \/ \E fails \in BOOLEAN : \/ StartAsr(c, fails) \/ WarmGemma(c, fails) \/ AsrEvent(c, fails)
                                    \/ TranslateFinal(c, fails) \/ OpenFile(c, fails) \/ WriteFile(c, fails)
     \/ BenchRestart
  /\ UNCHANGED runtimeVars

-----------------------------------------------------------------------------
(* Runtimes *)

\* Mutant: a result is good for as long as the last one was asked for.
CachedByUse == runtimes # Never /\ checkTime - reported.at < RuntimesTTL
Cached == runtimes # Never /\ checkTime - runtimes.at < RuntimesTTL

\* Runtimes: the cached result, or a check of its own.
AskRuntimes(c) ==
  /\ checks[c] = Never
  /\ IF Cached THEN reported' = [runtimes EXCEPT !.at = checkTime] /\ UNCHANGED checks
     ELSE checks' = [checks EXCEPT ![c] = [seen |-> -1, at |-> checkTime]] /\ UNCHANGED reported
  /\ UNCHANGED <<runtimes, checkTime>>

\* The sidecars answer, or refuse.
SeeRuntimes(c) ==
  /\ checks[c] # Never /\ checks[c].seen = -1
  /\ checks' = [checks EXCEPT ![c].seen = checkTime]
  /\ UNCHANGED <<runtimes, reported, checkTime>>

StoreRuntimes(c) ==
  /\ checks[c].seen # -1
  /\ runtimes' = [seen |-> checks[c].seen, at |-> checkTime] /\ reported' = runtimes'
  /\ checks' = [checks EXCEPT ![c] = Never]
  /\ UNCHANGED checkTime

\* Each request of a check has its timeout.
CheckTick ==
  /\ checkTime < MaxCheckTime /\ checkTime' = checkTime + 1
  /\ \A c \in RuntimeCalls : checks[c] # Never => checkTime' <= checks[c].at + ProbeTime
  /\ UNCHANGED <<checks, runtimes, reported>>

RuntimesNext ==
  /\ (\E c \in RuntimeCalls : AskRuntimes(c) \/ SeeRuntimes(c) \/ StoreRuntimes(c)) \/ CheckTick
  /\ UNCHANGED benchVars

HardwareNext == BenchNext \/ RuntimesNext
HardwareSpec == HardwareInit /\ [][HardwareNext]_hardwareVars

-----------------------------------------------------------------------------
(* What holds *)

\* A benchmark is over when its stream is: never two clips at whisper-server,
\* whatever failed or timed out.  Between benchmarks the file holds the last
\* result, unless writing it failed.
BenchmarkKept ==
  /\ \A c, d \in BenchCalls : clip[c].open /\ clip[d].open => c = d
  /\ benchLock = {} /\ ~unsaved =>
       benchFile = lastBench \/ (benchFile = TornBench /\ lastBench = NoBench)

\* An answer tells what was seen no longer ago than a result is kept and a
\* check takes, however checks overlap.
RuntimesFresh ==
  reported # Never => reported.at - reported.seen <= RuntimesTTL + ProbeTime

HardwareSound == BenchmarkKept /\ RuntimesFresh

\* Does not hold: a check that began earlier may end later, and its result
\* replaces the newer one.
NewestKept == [][runtimes'.seen >= runtimes.seen]_hardwareVars

\* Does not hold: the file is emptied before it is written, so a crash
\* between loses the benchmark before.
LastSurvives == [][benchFile # NoBench /\ lastBench' = NoBench => lastBench = NoBench]_hardwareVars
=============================================================================
