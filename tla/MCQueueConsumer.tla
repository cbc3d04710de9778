--------------------------- MODULE MCQueueConsumer ---------------------------
(* The portfolio of MCWorkQueue with the processes that work its queue.      *)
EXTENDS QueueConsumer, MCWorkQueue

MCPublic == {}
=============================================================================
