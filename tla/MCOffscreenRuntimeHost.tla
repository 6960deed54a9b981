----------------------- MODULE MCOffscreenRuntimeHost -----------------------
(***************************************************************************)
(* Envelope catalogues for the runs of OffscreenRuntimeHost: each names the *)
(* envelopes of a run by its operation, what an abort aborts and the        *)
(* revision a replace expects.                                              *)
(***************************************************************************)
EXTENDS OffscreenRuntimeHost

\* Two prompts contend for a session, one is aborted, agent events interleave,
\* two replaces expect the same revision, and settled envelopes are retried
\* once they may have left the replay window.
PromptKind == [create1 |-> "create", prompt1 |-> "prompt", prompt2 |-> "prompt",
               task1 |-> "task", read1 |-> "read", abort1 |-> "abort", replace1 |-> "replace",
               replace2 |-> "replace"]
\* A release that waits for a mutation while an execution starts.
ReleaseKind == [load1 |-> "load", mutate1 |-> "mutate", release1 |-> "release",
                task1 |-> "task"]

\* Every kind of wait at once: turns, the mutation queue, a release, an abort.
WaitingKind == [load1 |-> "load", create1 |-> "create", prompt1 |-> "prompt",
                mutate1 |-> "mutate", release1 |-> "force-release", abort1 |-> "abort"]

\* Every abort aims at the first execution; the other envelopes ignore it.
TargetIn(kind, t) == [r \in DOMAIN kind |-> t]
WaitingTarget == TargetIn(WaitingKind, "prompt1")
PromptTarget == TargetIn(PromptKind, "prompt1")
ReleaseTarget == TargetIn(ReleaseKind, "task1")

\* Every replace expects the revision a fresh session is created with.
ExpectedIn(kind) == [r \in DOMAIN kind |-> 1]
WaitingExpected == ExpectedIn(WaitingKind)
PromptExpected == ExpectedIn(PromptKind)
ReleaseExpected == ExpectedIn(ReleaseKind)

WaitingRequests == DOMAIN WaitingKind
PromptRequests == DOMAIN PromptKind
ReleaseRequests == DOMAIN ReleaseKind
=============================================================================
