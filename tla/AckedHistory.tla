---------------------------- MODULE AckedHistory -----------------------------
(***************************************************************************)
(* What the export of the memory journal promises.  A client follows one   *)
(* stream at a time and calls a history acknowledged only when the Portal  *)
(* holds it on that stream; what is acknowledged only grows, and starting  *)
(* again from nothing takes a new stream.                                  *)
(***************************************************************************)
EXTENDS Sequences, SequencesExt
CONSTANTS Streams, NoStream
VARIABLES stream, acked, stored     \* stored: what the Portal holds of each stream

Extends(longer, shorter) == longer # shorter /\ IsPrefix(shorter, longer)

ReceiveMore == /\ UNCHANGED <<stream, acked>>
               /\ \E s \in Streams : /\ Extends(stored'[s], stored[s])
                                     /\ \A t \in Streams \ {s} : stored'[t] = stored[t]

Acknowledge == /\ stream # NoStream
               /\ Extends(acked', acked)
               /\ IsPrefix(acked', stored[stream])
               /\ UNCHANGED <<stream, stored>>

StartStream == /\ stream' \in Streams \ {stream}
               /\ acked' = <<>>
               /\ UNCHANGED stored

AHInit == stream = NoStream /\ acked = <<>> /\ stored = [s \in Streams |-> <<>>]
AHNext == ReceiveMore \/ Acknowledge \/ StartStream
AHStep == [AHNext]_<<stream, acked, stored>>
AHSpec == AHInit /\ [][AHNext]_<<stream, acked, stored>>
=============================================================================
