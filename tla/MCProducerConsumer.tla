------------------------- MODULE MCProducerConsumer -------------------------
(* ProducerConsumer on a small instance.                                   *)
EXTENDS ProducerConsumer

CONSTANTS main, consumer, keyboard, p1

OneProducer == {p1}
WithOne == {main, consumer, keyboard, p1}

BufferSems == {"itemAvailable", "spaceAvailable", "mutexHead", "mutexTail", "waitForAll"}
=============================================================================
