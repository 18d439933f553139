----------------------------- MODULE ModelDownloads -----------------------------
(***************************************************************************)
(* Downloads of one local model (models/manager.go, whisper.go): requests  *)
(* that start one, the goroutine that fetches into a partial file, checks  *)
(* it and gives it its name, Close, and restarts of the server, which find *)
(* the files of the one before.  A file is the number of its blocks and    *)
(* whether one of them is wrong.  A gemma model's job has the same life    *)
(* without files.                                                          *)
(***************************************************************************)
EXTENDS Integers

CONSTANTS
  Downloaders,     \* requests at a time
  ModelBlocks,     \* the catalog's size of the model
  MaxAttempts,     \* Attempts
  MaxFetches,      \* bound: downloads started
  MaxRestarts      \* bound: restarts of the server

ASSUME ModelAssumption == ModelBlocks \in Nat \ {0} /\ MaxFetches \in Nat

VARIABLES
  job,      \* Manager.jobs: "none", "downloading", "verifying" or "error"
  part,     \* the .part file
  named,    \* the file with the model's name: "none", "whole" or "broken"
  asked,    \* where each request is in Download
  fetch,    \* the goroutines, in the order they were started
  fetches, shut, restarts

modelVars == <<job, part, named, asked, fetch, fetches, shut, restarts>>

EmptyFile == [blocks |-> 0, wrong |-> FALSE]
NoFetch == [at |-> "none", attempt |-> 0, failed |-> FALSE]

\* The partial file may be of an earlier server, and of another release of it.
ModelInit ==
  /\ job = "none" /\ named = "none"
  /\ part \in {EmptyFile} \cup [blocks : 1 .. ModelBlocks + 1, wrong : BOOLEAN]
  /\ asked = [r \in Downloaders |-> "none"]
  /\ fetch = [d \in 1 .. MaxFetches |-> NoFetch]
  /\ fetches = 0 /\ shut = FALSE /\ restarts = 0

-----------------------------------------------------------------------------
(* Download: a check under the lock, a look at the disk without it, and a  *)
(* check again                                                             *)

Active == job \in {"downloading", "verifying"}

FirstCheck(r) ==
  /\ asked[r] = "none" /\ ~Active
  /\ asked' = [asked EXCEPT ![r] = "disk"]
  /\ UNCHANGED <<job, part, named, fetch, fetches, shut, restarts>>

\* whisperOnDisk.
DiskCheck(r) ==
  /\ asked[r] = "disk"
  /\ asked' = [asked EXCEPT ![r] = IF named = "none" THEN "starting" ELSE "none"]
  /\ UNCHANGED <<job, part, named, fetch, fetches, shut, restarts>>

\* "lost a race with another request".  Mutant: the first check was enough.
NeverLost == FALSE
RaceLost == Active
StartFetch(r) ==
  /\ asked[r] = "starting"
  /\ RaceLost \/ fetches < MaxFetches
  /\ asked' = [asked EXCEPT ![r] = "none"]
  /\ IF RaceLost THEN UNCHANGED <<job, fetch, fetches>>
     ELSE /\ job' = "downloading" /\ fetches' = fetches + 1
          /\ fetch' = [fetch EXCEPT ![fetches + 1] = [at |-> "opening", attempt |-> 1, failed |-> FALSE]]
  /\ UNCHANGED <<part, named, shut, restarts>>

-----------------------------------------------------------------------------
(* fetchWhisper and fetchOnce *)

FetchAt(d, place) == fetch[d].at = place
FetchTo(d, place) == fetch' = [fetch EXCEPT ![d].at = place]
Fails(d) == fetch' = [fetch EXCEPT ![d].at = "finishing", ![d].failed = TRUE]
KeepRest == UNCHANGED <<named, asked, fetches, shut, restarts>>

\* A failure that is retried, unless it was the last attempt or Close came.
TryAgain(d) ==
  IF fetch[d].attempt < MaxAttempts /\ ~shut
  THEN fetch' = [fetch EXCEPT ![d].at = "opening", ![d].attempt = @ + 1]
  ELSE Fails(d)

Open(d) ==
  /\ FetchAt(d, "opening")
  /\ \/ part.blocks < ModelBlocks /\ FetchTo(d, "requesting") /\ UNCHANGED part
     \/ part.blocks = ModelBlocks /\ FetchTo(d, "verifying") /\ UNCHANGED part
     \/ part.blocks > ModelBlocks /\ FetchTo(d, "requesting") /\ part' = EmptyFile
  /\ UNCHANGED job /\ KeepRest

\* The answer goes on from where the file ends, starts over, or says that it
\* cannot: another range, or none.
AnswerResumes(d) ==
  /\ FetchAt(d, "requesting") /\ FetchTo(d, "receiving") /\ UNCHANGED <<job, part>> /\ KeepRest
AnswerStartsOver(d) ==
  /\ FetchAt(d, "requesting") /\ FetchTo(d, "receiving") /\ part' = EmptyFile
  /\ UNCHANGED job /\ KeepRest
AnswerOffRange(d) ==
  /\ FetchAt(d, "requesting") /\ TryAgain(d) /\ part' = EmptyFile
  /\ UNCHANGED job /\ KeepRest
AnswerRefuses(d) ==
  /\ FetchAt(d, "requesting") /\ Fails(d) /\ UNCHANGED <<job, part>> /\ KeepRest

\* A block is written, and update puts the job back to "downloading".
Receive(d, wrong) ==
  /\ FetchAt(d, "receiving") /\ part.blocks < ModelBlocks
  /\ part' = [blocks |-> part.blocks + 1, wrong |-> part.wrong \/ wrong]
  /\ job' = IF job = "none" THEN "none" ELSE "downloading"
  /\ UNCHANGED fetch /\ KeepRest

ReceiveTooMuch(d) ==
  /\ FetchAt(d, "receiving") /\ part.blocks >= ModelBlocks
  /\ TryAgain(d) /\ part' = EmptyFile /\ UNCHANGED job /\ KeepRest

EndOfAnswer(d) ==
  /\ FetchAt(d, "receiving") /\ part.blocks = ModelBlocks /\ FetchTo(d, "verifying")
  /\ UNCHANGED <<job, part>> /\ KeepRest

\* The network fails, while requesting or receiving, or the answer is short.
NetworkFails(d) ==
  /\ fetch[d].at \in {"requesting", "receiving"} /\ TryAgain(d)
  /\ UNCHANGED <<job, part>> /\ KeepRest

Verify(d) ==
  /\ FetchAt(d, "verifying")
  /\ job' = IF job = "none" THEN "none" ELSE "verifying"
  /\ IF part.wrong \/ part.blocks # ModelBlocks THEN Fails(d) /\ part' = EmptyFile
     ELSE FetchTo(d, "renaming") /\ UNCHANGED part
  /\ KeepRest

Rename(d) ==
  /\ FetchAt(d, "renaming")
  /\ \/ /\ FetchTo(d, "finishing") /\ part' = EmptyFile
        /\ named' = IF part.wrong \/ part.blocks # ModelBlocks THEN "broken" ELSE "whole"
     \/ Fails(d) /\ UNCHANGED <<part, named>>
  /\ UNCHANGED <<job, asked, fetches, shut, restarts>>

\* finish.
FinishFetch(d) ==
  /\ FetchAt(d, "finishing") /\ FetchTo(d, "none")
  /\ job' = IF fetch[d].failed /\ ~shut THEN "error" ELSE "none"
  /\ UNCHANGED part /\ KeepRest

-----------------------------------------------------------------------------
(* Close, which cancels the fetches, and a restart at any time *)

CloseModels ==
  /\ ~shut /\ shut' = TRUE
  /\ UNCHANGED <<job, part, named, asked, fetch, fetches, restarts>>

RestartServer ==
  /\ restarts < MaxRestarts /\ restarts' = restarts + 1
  /\ job' = "none" /\ shut' = FALSE
  /\ asked' = [r \in Downloaders |-> "none"]
  /\ fetch' = [d \in 1 .. MaxFetches |-> NoFetch]
  /\ UNCHANGED <<part, named, fetches>>

ModelNext ==
  \/ \E r \in Downloaders : FirstCheck(r) \/ DiskCheck(r) \/ StartFetch(r)
  \/ \E d \in 1 .. MaxFetches :
       \/ Open(d) \/ AnswerResumes(d) \/ AnswerStartsOver(d) \/ AnswerOffRange(d) \/ AnswerRefuses(d)
       \/ (\E wrong \in BOOLEAN : Receive(d, wrong)) \/ ReceiveTooMuch(d) \/ EndOfAnswer(d)
       \/ NetworkFails(d) \/ Verify(d) \/ Rename(d) \/ FinishFetch(d)
  \/ CloseModels \/ RestartServer

ModelSpec == ModelInit /\ [][ModelNext]_modelVars

-----------------------------------------------------------------------------
(* What holds *)

\* However requests, failures and restarts interleave, one goroutine at a time
\* writes the partial file, the job in the map is its own until it finishes,
\* and a file only gets the model's name with the content that was verified
\* ("it was verified before it got its name").
VerifiedFetch ==
  /\ \A d, e \in 1 .. MaxFetches : ~FetchAt(d, "none") /\ ~FetchAt(e, "none") => d = e
  /\ \A d \in 1 .. MaxFetches : ~FetchAt(d, "none") => Active
  /\ named # "broken"

(* What the code says and does not hold *)

\* "A model that is ready or already downloading is returned as it is": no
\* download starts of a model that has its file.
ReadyNotFetched == [][fetches' # fetches => named = "none"]_modelVars
=============================================================================
