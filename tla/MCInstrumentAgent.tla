-------------------------- MODULE MCInstrumentAgent --------------------------
(* Instances of InstrumentAgent with one or two direct access servers.     *)
EXTENDS InstrumentAgent, TLC

CONSTANTS s1, s2

Sessions == {s1, s2}
OneSession == {s1}
Symmetry == Permutations(Sessions)

(* The driver may fail in every handler that commands it except when it    *)
(* leaves direct access.                                                   *)
Commands == {"INITIALIZE", "RESET", "GO_ACTIVE", "GO_INACTIVE", "RESOURCE", "GO_DIRECT_ACCESS",
             "EXECUTE_DIRECT_ACCESS", "AUTORECONNECT"}
=============================================================================
