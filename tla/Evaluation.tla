----------------------------- MODULE Evaluation -----------------------------
(***************************************************************************)
(* What the parts of the evaluation of models have in common.              *)
(***************************************************************************)
CONSTANTS
    Tasks,     \* the requests that are recorded for review
    Items,     \* knowledge a verdict can support
    Worker,    \* the nightly goroutine; other callers are administrators
    Unreliable \* bound: stores whose writes may be lost

=============================================================================
