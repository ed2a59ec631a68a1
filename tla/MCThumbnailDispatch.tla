---- MODULE MCThumbnailDispatch ----
(***************************************************************************)
(* TLC instances of ThumbnailDispatch: lanes small enough to overflow.     *)
(***************************************************************************)
EXTENDS ThumbnailDispatch

CONSTANTS ProviderSlots, ProviderQueue, UploadQueue, ApplyQueue

MCConcurrency == [l \in Lanes |-> IF l = "provider" THEN ProviderSlots ELSE 1]
MCCapacity ==
    [l \in Lanes |-> IF l = "provider" THEN ProviderQueue
                     ELSE IF l = "upload" THEN UploadQueue ELSE ApplyQueue]
====
