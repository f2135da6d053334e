------------------------- MODULE MCPromptQueueScenes -------------------------
(* Five small instances of PromptQueue in one run: a behaviour is one scene   *)
(* from its first step on.  The scene crash has the constants of this module: *)
(* a crash and a failed write, anywhere in the life of two prompts.           *)
EXTENDS PromptQueue, TLC

CONSTANTS s1, s2, i1, i2, i3

VARIABLE scene

OneLine == {s1}
TwoIds == {i1, i2}
Prompts == {"prompt"}

\* Panes are replaced under two prompts, which are retargeted and requeued.
Panes == INSTANCE PromptQueue WITH
  Sessions <- OneLine, Ids <- TwoIds, Kinds <- Prompts, Events <- {"replace"},
  MaxQueueItems <- 2, HistoryLimit <- 1, MaxPosition <- 3, MaxGen <- 2,
  MaxCrashes <- 0, MaxFaults <- 0, MaxInputs <- 0

\* Besides, Codex exits, people type into the terminal and deliveries throw.
Shared == INSTANCE PromptQueue WITH
  Sessions <- OneLine, Ids <- TwoIds, Kinds <- {"prompt", "window"},
  Events <- {"exit", "replace", "busy", "throw"},
  MaxQueueItems <- 2, HistoryLimit <- 1, MaxPosition <- 1, MaxGen <- 2,
  MaxCrashes <- 0, MaxFaults <- 0, MaxInputs <- 0

\* Two lines in one store at its limits: batches, trimming, clearing, old agents lists.
Lines == INSTANCE PromptQueue WITH
  Sessions <- {s1, s2}, Ids <- TwoIds, Kinds <- {"window", "command"}, Events <- {"clear", "stale"},
  MaxQueueItems <- 2, HistoryLimit <- 1, MaxPosition <- 3, MaxGen <- 1,
  MaxCrashes <- 0, MaxFaults <- 0, MaxInputs <- 0

\* One line and more requests than the store has room for.
Limits == INSTANCE PromptQueue WITH
  Sessions <- OneLine, Ids <- {i1, i2, i3}, Kinds <- {"command"}, Events <- {"clear"},
  MaxQueueItems <- 2, HistoryLimit <- 1, MaxPosition <- 3, MaxGen <- 1,
  MaxCrashes <- 0, MaxFaults <- 0, MaxInputs <- 0

ScenesInit ==
  \/ scene = "crash" /\ Init
  \/ scene = "panes" /\ Panes!Init
  \/ scene = "shared" /\ Shared!Init
  \/ scene = "lines" /\ Lines!Init
  \/ scene = "limits" /\ Limits!Init

ScenesNext ==
  /\ UNCHANGED scene
  /\ \/ scene = "crash" /\ Next
     \/ scene = "panes" /\ Panes!Next
     \/ scene = "shared" /\ Shared!Next
     \/ scene = "lines" /\ Lines!Next
     \/ scene = "limits" /\ Limits!Next

ScenesSpec == ScenesInit /\ [][ScenesNext]_<<scene, vars>>

\* The inherited properties speak of i1 and i2, which stand for any two of the three
\* prompts of limits; i3 is therefore not exchanged with them.
Interchangeable == Permutations({i1, i2})

---------------------------------------------------------------------------
(* The properties, in the scenes that can disturb them.  AtMostOnce,          *)
(* ClaimIsDurable, QueueIsSound, ReviewResolvedOnOwnPane and                  *)
(* NothingTypedOverWork are PromptQueue's and hold in every scene.            *)

\* PromptQueue!StoreIsValid, in the scenes whose store is at its limits: no save of the
\* queue and no start of the server is refused.
StoresAreValid ==
  /\ scene = "lines" => Lines!StoreIsValid
  /\ scene = "limits" => Limits!StoreIsValid

\* Two prompts, a crash and a failed write: the queue still implements the abstract lines.
ImplementsLines ==
  /\ scene = "crash" => DL!Init
  /\ [][scene = "crash" => DL!Next]_<<scene, vars>>
=============================================================================
