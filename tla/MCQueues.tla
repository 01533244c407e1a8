------------------------------ MODULE MCQueues ------------------------------
EXTENDS Queues
MCReserved == <<3, 1>>
MCRetire   == <<2, 1>>
=============================================================================
