------------------------ MODULE MCConsumerOnboarding ------------------------
(* ConsumerOnboarding with two requests at a time, two clients, one key and  *)
(* two faults.                                                               *)
EXTENDS ConsumerOnboarding

CONSTANTS h1, h2, c1, c2, k1

MCHandlers == {h1, h2}
MCClients == {c1, c2}
MCKeys == {k1}

=============================================================================
