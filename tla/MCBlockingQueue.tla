-------------------------- MODULE MCBlockingQueue --------------------------
(***************************************************************************)
(* Three producers, two consumers and a poller: enough for a thread to     *)
(* take what another one was woken for.                                    *)
(***************************************************************************)
EXTENDS BlockingQueue
CONSTANTS p1, p2, p3, c1, c2, poller
MCProducers == {p1, p2, p3}
MCConsumers == {c1, c2}
MCPollers == {poller}
=============================================================================
